SPECIFICATION FairSpec
CONSTANTS
    MaxServices = 1
    MainServices = 1
    Removable = {1}
    Stoppers = {1}
    Workers = 2
    RegistryRules = {"newNames", "oneCounts", "removeIdle"}
    LifecycleRules = {"run", "patient"}
PROPERTIES StopEndsProcess
CHECK_DEADLOCK FALSE
