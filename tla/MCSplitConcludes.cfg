SPECIFICATION InsistentSpec
CONSTANTS
    Missing = Missing
    N = 5
    Bom = 1
    Undoes = FALSE
    Lists = FALSE
    Overlaps = FALSE
    MaxChunk = 3
    MaxFaults = 0
    MaxCrashes = 3
PROPERTIES JournalBeforeCut Concludes
CHECK_DEADLOCK FALSE
