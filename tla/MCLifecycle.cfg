SPECIFICATION Spec
CONSTANTS
    MaxServices = 2
    MainServices = 1
    Removable = {1}
    Stoppers = {1}
    Workers = 2
    RegistryRules = {}
    LifecycleRules = {}
INVARIANTS OnlyUnstartedFail NoThreadLeft
CHECK_DEADLOCK FALSE
