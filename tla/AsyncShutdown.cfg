SPECIFICATION FairSpec
CONSTANTS
    Task = {t1}
    NoTask = NoTask
    Handles = {watch}
    PoolSize = 1
    MaxCancels = 2
PROPERTY DestroyStopsHandles
CHECK_DEADLOCK FALSE
