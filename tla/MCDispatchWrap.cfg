SPECIFICATION Spec
CONSTANTS
    Services = {a}
    Main = Main
    TimerUsers = {a}
    Sids = {1}
    MaxCors = 4
    Limit <- WrapLimit
    MaxUses = 6
    IdRange = 2
    Rules = {"replyFirst", "quickLoops", "removeIdle", "answer", "replyOnce"}
INVARIANTS WokenByWhatItWaitsFor
CHECK_DEADLOCK FALSE
