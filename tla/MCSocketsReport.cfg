SPECIFICATION Spec
CONSTANTS
    NConns = 1
    MaxData = 1
    Rules = {"ownNumber", "roomy"}
INVARIANTS ReportsToService
CHECK_DEADLOCK FALSE
