SPECIFICATION FairSpec
CONSTANTS
    Services = {a, b}
    Main = Main
    TimerUsers = {a, b}
    Sids = {1}
    MaxCors = 2
    Limit <- TwoUsersLimit
    MaxUses = 2
    IdRange = 65536
    Rules = {"replyFirst", "quickLoops", "removeIdle", "answer", "replyOnce"}
PROPERTIES EverySleepReturns
CHECK_DEADLOCK FALSE
