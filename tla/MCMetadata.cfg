SPECIFICATION MCSpec
CONSTANTS
    Openers = {o1, o2}
    N = 3
    Logs <- SomeLogs
    WaveChunks = 2
    Pruner = Pruner
    Nobody = Nobody
SYMMETRY Alike
INVARIANTS TypeOK ScanExact MappedIntact
PROPERTY KeepsProgress
