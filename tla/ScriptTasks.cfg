SPECIFICATION Spec
CONSTANTS
    Kinds <- SomeKinds
    MaxTasks = 3
    MaxLoads = 1
INVARIANTS TablesAgree RecordsAreBacked
PROPERTY Implements
CHECK_DEADLOCK FALSE
