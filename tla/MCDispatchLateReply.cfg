SPECIFICATION FairSpec
CONSTANTS
    Services = {a, b}
    Main = Main
    TimerUsers = {b}
    Sids = {1}
    MaxCors = 4
    Limit <- CallLimit
    MaxUses = 2
    IdRange = 65536
    Rules = {"quickLoops", "removeIdle", "answer", "replyOnce"}
PROPERTIES EveryCallReturns
CHECK_DEADLOCK FALSE
