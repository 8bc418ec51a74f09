CONSTANTS
    m1 = m1
    m2 = m2
    h1 = h1
    h2 = h2
    o1 = o1
    o2 = o2
    Matters = {m1}
    Hashes = {h1, h2}
    Operations = {o1, o2}
    MaxRequests = 6
    MaxCrashes = 1
SPECIFICATION Spec
SYMMETRY Interchangeable
INVARIANTS
    UniqueActive
    LinearLineage
    QuietTrash
    LogTellsTrash
CHECK_DEADLOCK FALSE
