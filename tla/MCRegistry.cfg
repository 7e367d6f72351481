SPECIFICATION Spec
CONSTANTS
    MaxServices = 4
    MainServices = 2
    Removable = {1}
    Stoppers = {}
    Workers = 2
    RegistryRules = {}
    LifecycleRules = {"run", "patient", "started"}
INVARIANTS MapsAgree
CHECK_DEADLOCK FALSE
