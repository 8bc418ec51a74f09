CONSTANTS
    c1 = c1
    c2 = c2
    c3 = c3
    Calls = {c1, c2}
    JobId <- MCJobId
    DocumentId <- MCDocumentId
    Idle = Idle
    Pages = 1
    MaxChildren = 2
    MaxStops = 1
    MaxCancels = 1
    MaxFaults = 1
SPECIFICATION Spec
INVARIANTS
    OwnWorkerAnswers
    ExitLosesNothing
PROPERTIES
    CallsSettle
CHECK_DEADLOCK FALSE
