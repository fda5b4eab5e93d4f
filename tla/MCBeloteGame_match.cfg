\* Matches of several rounds of eight cards, with players who answer.
CONSTANTS
    Colours = {"H", "S"}
    Values = {"7", "J", "Q", "K"}
    LastTurnScore = 10
    BeloteScore = 20
    MinScoreToWin = 24
    CapotScore = 71
    PointsSumScore = 46
    FirstGive = 1
    FirstPart = 1
    HandSize = 2
    PlayDir = "CW"
    WinningScore = 23
    Shuffles <- EightShuffles
    MaxMatches = 1
SPECIFICATION FairSpec
INVARIANTS DeckIsWhole NothingOutOfBounds
PROPERTIES RoundEnds ImplementsMatch
