SPECIFICATION Spec
CONSTANTS
    Missing = Missing
    N = 5
    Bom = 1
    Undoes = TRUE
    Lists = FALSE
    Overlaps = FALSE
    MaxChunk = 2
    MaxFaults = 1
    MaxCrashes = 2
INVARIANTS TypeOK NothingLost PartsKept AssemblyExact OutcomeExact LeftoverHarmless
CHECK_DEADLOCK FALSE
