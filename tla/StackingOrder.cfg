SPECIFICATION Spec
CONSTANTS
    w1 = w1
    w2 = w2
    w3 = w3
    Windows = {w1, w2, w3}
    NoWindow = NoWindow
    Root = Root
    ClientLeader <- OneLeader
    Splashes = {w3}
    Leaders = {l1}
    Hints <- OneHint
    Targets <- SomeTargets
    NoGroup = NoGroup
    MaxNotify = 1
    Dialogs = {w1}
INVARIANTS TransiencyMatches NoShortLoops LiftingEnds TransientsOnTop
