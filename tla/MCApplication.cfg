SPECIFICATION FairSpec
CONSTANTS
    MaxServices = 4
    MainServices = 2
    Removable = {1}
    Stoppers = {1}
    Workers = 2
    RegistryRules = {"newNames", "oneCounts", "removeIdle"}
    LifecycleRules = {"patient", "started"}
INVARIANTS TypeOK MapsAgree OnlyUnstartedFail NoThreadLeft
PROPERTIES EveryServiceStarts StopEndsProcess
CHECK_DEADLOCK FALSE
