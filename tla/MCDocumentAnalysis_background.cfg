CONSTANTS
    ch1 = ch1
    ch2 = ch2
    runner = runner
    Channels <- OneChannel
    Runner <- runner
    SyncStages = {"RESOLVE", "SANITIZE"}
    Failures <- OwnedFailures
    MaxRequests = 4
    MaxFaults = 2
    MaxCrashes = 1
    MaxClockSteps = 0
SPECIFICATION FairSpec
INVARIANTS
    LiveHasOwner
PROPERTIES
    LifecycleSpec
    RunTerminates
CHECK_DEADLOCK FALSE
