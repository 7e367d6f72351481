SPECIFICATION FairSpec
CONSTANTS
    Texts = {0, 4}
    Prefix = 1
    BufSize = 5
    RollSize = 4
    RollPerSeconds = 1
    FlushInterval = 0
    CheckEveryN = 2
    ToFile = TRUE
    ToStdout = TRUE
    Start = 2
    MaxLines = 5
    MaxNow = 3
INVARIANTS TypeOK NoLineLost OnDisk PeriodsApart
PROPERTIES EveryLineWritten
CHECK_DEADLOCK FALSE
