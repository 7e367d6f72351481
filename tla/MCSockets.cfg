SPECIFICATION FairSpec
CONSTANTS
    NConns = 2
    MaxData = 2
    Rules = {"ownNumber", "roomy"}
INVARIANTS
    TypeOK
    AssertionsHold
    InboundWhole
    OutboundWhole
PROPERTIES
    EveryCommandIsAnswered
    DataReachesReader
CHECK_DEADLOCK FALSE
