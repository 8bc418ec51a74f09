CONSTANTS
    ch1 = ch1
    ch2 = ch2
    runner = runner
    Channels <- NoChannels
    Runner <- runner
    SyncStages = {"DETECT", "RESOLVE", "SANITIZE"}
    Failures <- DetectThenResolve
    MaxRequests = 3
    MaxFaults = 1
    MaxCrashes = 0
    MaxClockSteps = 0
SPECIFICATION Spec
INVARIANTS
    PendingIsResolvable
CHECK_DEADLOCK FALSE
