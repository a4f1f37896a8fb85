SPECIFICATION FairSpec
CONSTANTS
    MaxRestarts = 2
    MaxRefusals = 2
    MaxSwitches = 2
INVARIANTS InStepAtRest OneTakeControl ControlledOnce
PROPERTY DeviceOpened
CHECK_DEADLOCK FALSE
