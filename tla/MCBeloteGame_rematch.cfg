\* A second match in the life of the server.
CONSTANTS
    Colours = {"H", "S"}
    Values = {"7", "J", "Q", "K"}
    LastTurnScore = 10
    BeloteScore = 20
    MinScoreToWin = 24
    CapotScore = 71
    PointsSumScore = 46
    FirstGive = 1
    FirstPart = 1
    HandSize = 2
    PlayDir = "CW"
    WinningScore = 30
    Shuffles <- EightShuffles
    MaxMatches = 2
SPECIFICATION Spec
INVARIANTS NothingOutOfBounds
