SPECIFICATION FairSpec
CONSTANTS
    Task = {t1, t2}
    NoTask = NoTask
    Handles = {}
    PoolSize = 1
    MaxCancels = 2
INVARIANTS OutstandingIsExact OneWayToTheCallback NoLostWakeup NoLostCommand
PROPERTIES EveryTaskSettles DestroyReturns Implements
CHECK_DEADLOCK FALSE
