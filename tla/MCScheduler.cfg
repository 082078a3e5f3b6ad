SPECIFICATION Spec
CONSTANTS
    t1 = t1
    t2 = t2
    t3 = t3
    t4 = t4
    WorkerCount = 3
    Task <- FourTasks
    InitialTasks <- TwoInitial
    NoTask = NoTask
INVARIANTS
    TypeOK HandledOnce CountAccounting ZeroMeansNothingQueued
    ReturnedIsDrained DestroyedIsQuiet
PROPERTIES
    RunReturns EveryVictimProbed PoolSpec
CHECK_DEADLOCK FALSE
