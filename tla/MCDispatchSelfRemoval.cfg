SPECIFICATION Spec
CONSTANTS
    Services = {a}
    Main = Main
    TimerUsers = {a}
    Sids = {1}
    MaxCors = 3
    Limit <- TimerLimit
    MaxUses = 4
    IdRange = 65536
    Rules = {"replyFirst", "quickLoops", "answer", "replyOnce"}
PROPERTIES NeverResetRunning
CHECK_DEADLOCK FALSE
