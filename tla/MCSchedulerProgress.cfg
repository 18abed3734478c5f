SPECIFICATION FairSpec
CONSTANTS
    build = build
    analysis = analysis
    page = page
    fetch = fetch
    Ops <- OneSlotOps
    Priority <- OneSlotPriority
    Does <- OneSlotDoes
    Limit = 1
    WaveWidth = 2
    MaxItems = 2
    Excursions = 1
PROPERTIES NoStarvation EveryOperationEnds
