SPECIFICATION Spec
CONSTANTS
    NConns = 1
    MaxData = 1
    Rules = {"ownNumber"}
INVARIANTS OutboundWhole
CHECK_DEADLOCK FALSE
