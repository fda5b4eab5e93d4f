\* Counter-clockwise: to which stack a trick goes.
CONSTANTS
    Colours = {"H", "S"}
    Values = {"7", "J", "Q", "K"}
    LastTurnScore = 10
    BeloteScore = 20
    MinScoreToWin = 24
    CapotScore = 71
    PointsSumScore = 46
    FirstGive = 1
    FirstPart = 1
    HandSize = 2
    PlayDir = "CCW"
    WinningScore = 40
    Shuffles <- EightShuffles
    MaxMatches = 1
SPECIFICATION Spec
PROPERTIES WinningTeamsStack
