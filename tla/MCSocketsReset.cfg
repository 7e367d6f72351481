SPECIFICATION FairSpec
CONSTANTS
    NConns = 1
    MaxData = 1
    Rules = {"ownNumber", "roomy"}
PROPERTIES EveryWaitEnds
CHECK_DEADLOCK FALSE
