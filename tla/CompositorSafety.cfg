SPECIFICATION Spec
CONSTANTS
    SyncsToVBlank = TRUE
    SwapEvents = TRUE
    BlocksForRetrace = TRUE
    Windows = {w1, w2}
    Environments = {"unset"}
    MaxPosted = 2
SYMMETRY Symmetric
INVARIANTS NoLostRepaint NoFault SuspendedMeansOff SelectionFollowsScene OffForAReason RendersAtLeastOnce
