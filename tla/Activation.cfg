SPECIFICATION Spec
CONSTANTS
    c1 = c1
    c2 = c2
    Clients = {c1, c2}
    NoClient = NoClient
    App <- TwoApps
    MaxDesktops = 3
    KeepsPreviews = TRUE
    FollowsMouse = TRUE
    MaxExpected = 2
INVARIANTS ListedWhereItLives ActiveIsVisible NoDanglingClient
PROPERTY FocusPassedOn
