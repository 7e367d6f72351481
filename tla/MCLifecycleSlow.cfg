SPECIFICATION Spec
CONSTANTS
    MaxServices = 1
    MainServices = 1
    Removable = {1}
    Stoppers = {1}
    Workers = 2
    RegistryRules = {"newNames", "oneCounts", "removeIdle"}
    LifecycleRules = {"run", "started"}
INVARIANTS NoAssertionFails
CHECK_DEADLOCK FALSE
