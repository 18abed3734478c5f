SPECIFICATION Spec
CONSTANTS
    build = build
    analysis = analysis
    page = page
    fetch = fetch
    Ops <- MixedOps
    Priority <- MixedPriority
    Does <- MixedDoes
    Limit = 3
    WaveWidth = 2
    MaxItems = 2
    Excursions = 2
INVARIANTS TypeOK SlotsAccounted CpuWithinReservation ControlInv
PROPERTIES YieldGivesWay
