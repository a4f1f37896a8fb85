SPECIFICATION FairLoaderSpec
CONSTANTS
    blur = blur
    fade = fade
    cube = cube
    Effects = {blur, fade, cube}
    LoaderOf <- OneEach
    Supported = {blur, fade, cube}
    DefaultOn = {blur, cube}
    ChecksOk = {cube}
    MaxSearches = 1
    MaxQueue = 2
INVARIANTS OneDequeueUnderWay LoadedOnce
PROPERTY EnabledGetsLoaded
