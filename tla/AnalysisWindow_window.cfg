CONSTANTS
    FirstReads = 1
    MaxClicks = 3
    MaxFaults = 2
SPECIFICATION Spec
INVARIANTS
    WindowIsWatched
PROPERTIES
    WindowCloses
CHECK_DEADLOCK FALSE
