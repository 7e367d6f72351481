SPECIFICATION FairSpec
CONSTANTS
    Services = {s1, s2}
    Workers = {w1, w2}
    Producers = {p1}
    NoThread = NoThread
    NoService = NoService
    MaxSends = 1
    MaxForks = 1
INVARIANTS TypeOK OneThreadPerService QueuedOnce BatchIsThere NoLostWakeup
PROPERTIES MailboxSpec EveryPackleDispatched EveryForkResumed StopEndsWorkers
CHECK_DEADLOCK FALSE
