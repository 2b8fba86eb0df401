SPECIFICATION MCSpec
CONSTANTS
    TopN = 3
    MinPickGap = 2
    Accounts = {1, 2, 3, 4}
    MaxPoints = 1
    MaxDebt = 1
    MaxTime = 3
INVARIANTS
    MatchesReference
    DrawnByPoints
PROPERTIES
    SpreadsWithinWindow
