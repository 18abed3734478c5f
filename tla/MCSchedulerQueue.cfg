SPECIFICATION WaitersOnly
CONSTANTS
    build = build
    analysis = analysis
    page = page
    fetch = fetch
    Ops <- PeersOps
    Priority <- PeersPriority
    Does <- PeersDoes
    Limit = 1
    WaveWidth = 2
    MaxItems = 2
    Excursions = 2
PROPERTIES CancelledWaiterLeaves NoOvertaking
