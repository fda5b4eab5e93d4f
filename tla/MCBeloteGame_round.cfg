\* One whole round of twelve cards, for every cut of a deck and every answer.
CONSTANTS
    Colours = {"H", "S", "D"}
    Values = {"9", "J", "Q", "K"}
    LastTurnScore = 10
    BeloteScore = 20
    MinScoreToWin = 35
    CapotScore = 107
    PointsSumScore = 69
    FirstGive = 1
    FirstPart = 2
    HandSize = 3
    PlayDir = "CW"
    WinningScore = 0
    Shuffles <- TwelveShuffles
    MaxMatches = 1
SPECIFICATION Spec
INVARIANTS TypeOK CardsConserved CountersInStep RequestIsAnswerable AccountsBalance BeloteFollowsHands
PROPERTIES MasterTakesTrick
