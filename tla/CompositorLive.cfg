SPECIFICATION FairSpec
CONSTANTS
    SyncsToVBlank = TRUE
    SwapEvents = FALSE
    BlocksForRetrace = TRUE
    Windows = {w1}
    Environments = {"unset", "N"}
    MaxPosted = 1
    Milli = 4
    IntLimit = 8192
    Rates = {0, 1, 75, 144, 5000}
    MaxFps = {1, 2, 30, 60, 100}
    VBlankTimes = {0, 8, 24}
    RenderTimes <- SomeTimes
INVARIANTS RetraceIsMet
PROPERTIES FramesReachTheScreen SelectionReleased
