SPECIFICATION Spec
CONSTANTS
    Missing = Missing
    N = 4
    Bom = 1
    Undoes = TRUE
    Lists = TRUE
    Overlaps = FALSE
    MaxChunk = 2
    MaxFaults = 0
    MaxCrashes = 0
INVARIANTS DiscardOnlyUntouched
CHECK_DEADLOCK FALSE
