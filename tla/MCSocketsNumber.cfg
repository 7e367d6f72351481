SPECIFICATION Spec
CONSTANTS
    NConns = 2
    MaxData = 1
    Rules = {"roomy"}
INVARIANTS NumberIsNew
CHECK_DEADLOCK FALSE
