SPECIFICATION ReturnsSpec
CONSTANTS
    Missing = Missing
    N = 3
    Bom = 0
    Undoes = TRUE
    Lists = TRUE
    Overlaps = TRUE
    MaxChunk = 2
    MaxFaults = 1
    MaxCrashes = 1
PROPERTIES RunReturns
CHECK_DEADLOCK FALSE
