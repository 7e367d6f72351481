SPECIFICATION Spec
CONSTANTS
    Services = {a}
    Main = Main
    TimerUsers = {a}
    Sids = {1}
    MaxCors = 3
    Limit <- SlowLoopLimit
    MaxUses = 4
    IdRange = 65536
    Rules = {"replyFirst", "removeIdle", "answer", "replyOnce"}
INVARIANTS WokenByWhatItWaitsFor
CHECK_DEADLOCK FALSE
