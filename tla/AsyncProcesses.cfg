SPECIFICATION FairSpec
CONSTANTS
    Proc = {p1}
    Streaming = {"out"}
    MaxWrites = 1
    MaxChunks = 1
INVARIANTS OutstandingIsExact CallbacksInOrder LiveHandlesAreKnown EndIsTruthful
PROPERTIES ExitIsTold DestroyReturns
CHECK_DEADLOCK FALSE
