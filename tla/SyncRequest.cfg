SPECIFICATION FairSyncSpec
CONSTANTS
    MaxValue = 4
    MaxReads = 3
INVARIANTS
    OneRequest
    WaitIsTimed
PROPERTY ShownEventually
CHECK_DEADLOCK FALSE
