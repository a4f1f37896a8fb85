SPECIFICATION FairRecoverySpec
CONSTANTS
    MaxOther = 4
    MaxLate = 2
    MaxAsks = 3
    MaxResets = 2
    MaxSessions = 2
INVARIANTS
    GlCrashNotRepeated
    DriverIsSurvived
PROPERTY SettlesDown
CHECK_DEADLOCK FALSE
