SPECIFICATION Spec
CONSTANTS
    MaxServices = 4
    MainServices = 2
    Removable = {1}
    Stoppers = {}
    Workers = 2
    RegistryRules = {"newNames", "removeIdle"}
    LifecycleRules = {"run", "patient", "started"}
INVARIANTS IdsUnique
CHECK_DEADLOCK FALSE
