SPECIFICATION Spec
CONSTANTS
    w1 = w1
    w2 = w2
    Loader = Loader
    Worker <- TwoWorkers
    cache_size = 2
    batch_size = 1
    MaxNodes = 9
    MaxRuns = 1
SYMMETRY WorkerSymmetry
INVARIANTS
    TypeOK EachNodeInOnePlace HoardBound GrowthBound
CHECK_DEADLOCK FALSE
