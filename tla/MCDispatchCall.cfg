SPECIFICATION FairSpec
CONSTANTS
    Services = {a, b}
    Main = Main
    TimerUsers = {a}
    Sids = {1, 2}
    MaxCors = 4
    Limit <- CallLimit
    MaxUses = 2
    IdRange = 65536
    Rules = {"replyFirst", "quickLoops", "removeIdle", "answer", "replyOnce"}
INVARIANTS WokenByWhatItWaitsFor OneAnswerPerCall
PROPERTIES EveryCallReturns
CHECK_DEADLOCK FALSE
