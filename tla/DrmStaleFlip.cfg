SPECIFICATION Spec
CONSTANTS
    SyncsToVBlank = TRUE
    Outputs = {o1}
    Primary = o1
    Gbm = TRUE
    Environments = {{"flipAtSwitch"}}
    MaxEvents = 2
INVARIANT NoAssertFails
