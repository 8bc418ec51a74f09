CONSTANTS
    ch1 = ch1
    ch2 = ch2
    runner = runner
    Channels <- TwoChannels
    Runner <- runner
    SyncStages = {"RESOLVE", "SANITIZE"}
    Failures <- AllFailures
    MaxRequests = 4
    MaxFaults = 2
    MaxCrashes = 1
    MaxClockSteps = 1
SPECIFICATION Spec
INVARIANTS
    StageOwnership
    RunningJobsMatch
    RetryRoute
PROPERTIES
    TrashPreserved
    TerminalSignal
    NoSilentRetry
CHECK_DEADLOCK FALSE
