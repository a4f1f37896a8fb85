SPECIFICATION Spec
CONSTANTS
    dialog = dialog
    owner = owner
    other = other
    splash = splash
    Windows = {dialog, owner, other, splash}
    NoWindow = NoWindow
    Root = Root
    ClientLeader <- OneLeader
    Splashes = {splash}
    Leaders = {}
    Hints <- NoHint
    Targets <- SplashTargets
    NoGroup = NoGroup
    MaxNotify = 1
    Dialogs = {}
INVARIANT NoTransientLoops
