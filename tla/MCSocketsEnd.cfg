SPECIFICATION FairSpec
CONSTANTS
    NConns = 1
    MaxData = 0
    Rules = {"ownNumber", "roomy"}
PROPERTIES
    ReaderSeesEnd
CHECK_DEADLOCK FALSE
