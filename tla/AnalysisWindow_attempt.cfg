CONSTANTS
    FirstReads = 1
    MaxClicks = 1
    MaxFaults = 0
SPECIFICATION Spec
PROPERTIES
    WindowCoversRun
CHECK_DEADLOCK FALSE
