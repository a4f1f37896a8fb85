SPECIFICATION FairSpec
CONSTANTS
    SyncsToVBlank = TRUE
    Outputs = {o1, o2}
    Primary = o1
    Gbm = TRUE
    Environments = {{"dpmsFails"}, {"dpmsFails", "flipAtRestart"},
                    {"flipAtSwitch"}, {"flipAtRestart", "logindRaces"},
                    {"hotplug"}, {"hotplug", "flipAtUnplug"}}
    MaxEvents = 2
INVARIANTS
    NoLostRepaint NoFault FlipsCounted
    NoFrozenOutput FilterWhileOff
PROPERTY FramesReachTheScreen
