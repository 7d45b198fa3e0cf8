SPECIFICATION Spec
CONSTANTS
    Providers <- Both
    Servers <- Clangd
    Wide <- Clangd
    Lazy <- Both
    MaxQuery = 2
    MaxRevision = 2
    MaxGeneration = 3
INVARIANTS ResolvingIsBacked AcceptanceIsServed RangesFollowTheCaret
CHECK_DEADLOCK FALSE
