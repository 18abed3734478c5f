SPECIFICATION Spec
CONSTANTS
    build = build
    analysis = analysis
    page = page
    fetch = fetch
    Ops <- OneSlotOps
    Priority <- OneSlotPriority
    Does <- LendDoes
    Limit = 3
    WaveWidth = 3
    MaxItems = 3
    Excursions = 2
PROPERTIES LendLeavesOneIdle
