SPECIFICATION Spec
CONSTANTS
    Missing = Missing
    N = 5
    Bom = 1
    Undoes = TRUE
    Lists = FALSE
    Overlaps = FALSE
    MaxChunk = 2
    MaxFaults = 0
    MaxCrashes = 1
INVARIANTS CutSettles
CHECK_DEADLOCK FALSE
