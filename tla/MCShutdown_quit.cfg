CONSTANTS
    r2 = r2
    r3 = r3
    s1 = s1
    a1 = a1
    i1 = i1
    i2 = i2
    Runs = {r2, r3}
    Stages = {s1}
    AiCalls = {a1}
    Imports = {i1, i2}
    RunOf <- MCRunOf
    MaxQuits = 2
    MaxFaults = 1
SPECIFICATION Spec
INVARIANTS
    ExitIsOrderly
    WritesKept
PROPERTIES
    QuitEnds
CHECK_DEADLOCK FALSE
