SPECIFICATION FairSpec
CONSTANTS
    mouse = mouse
    board = board
    Devices = {mouse, board}
    Inputs = {"motion", "key"}
    Capabilities = {"keyboard", "pointer"}
    Caps <- TwoDevices
    SetupRaces = FALSE
    MaxEvents = 3
    MaxPosted = 1
INVARIANTS NoLostWakeup SeatHasWhatIsThere SeatDropsWhatIsGone
PROPERTY ChannelSpec
