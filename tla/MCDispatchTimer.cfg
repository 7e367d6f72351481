SPECIFICATION FairSpec
CONSTANTS
    Services = {a}
    Main = Main
    TimerUsers = {a}
    Sids = {1}
    MaxCors = 5
    Limit <- TimerLimit
    MaxUses = 6
    IdRange = 65536
    Rules = {"replyFirst", "quickLoops", "removeIdle", "answer", "replyOnce"}
INVARIANTS TypeOK AssertionsHold FreeMeansFree
PROPERTIES EverySleepReturns
CHECK_DEADLOCK FALSE
