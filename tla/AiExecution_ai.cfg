SPECIFICATION Spec
CONSTANTS
    Executions = {e1, e2}
    Documents = {d1}
    Values = {v1, v2}
    MaxDenied = 1
    MaxClock = 1
    MaxFaults = 1
    MaxChanges = 2
    MaxCrashes = 1
INVARIANTS
    NothingDeniedLeaves
    CancelledNeverCompletes
    AnswerMatchesRow
PROPERTIES
    CallsEnd
CHECK_DEADLOCK FALSE
