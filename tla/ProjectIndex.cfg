SPECIFICATION FairSpec
CONSTANTS
    Dirs = 2
    MaxWatches = 2
    MaxIds = 4
    MaxChanges = 2
    MaxRequests = 1
INVARIANTS RefreshHasAScan NoEventGap
PROPERTIES DroppedWatchesClose IndexConverges
CHECK_DEADLOCK FALSE
