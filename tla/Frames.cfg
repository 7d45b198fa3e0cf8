SPECIFICATION FramesSpec
CONSTANTS
    LastLine = 2
    Height = 6
    SmoothDistance = 3
    GlideDistance = 2
    PreciseBuilds <- Builds
    MaxChanges = 3
INVARIANT CanvasIsWhole
PROPERTIES FramesAreTrue ScreenSettles
CHECK_DEADLOCK FALSE
