\* The scores of the real game; the rounds around every threshold of the rules.
CONSTANTS
    Colours = {"H", "S", "D", "C"}
    Values = {"7", "8", "9", "10", "J", "Q", "K", "1"}
    LastTurnScore = 10
    BeloteScore = 20
    MinScoreToWin = 82
    CapotScore = 252
    PointsSumScore = 162
    RoundPoints = {0, 20, 61, 62, 71, 80, 81, 82, 91, 100, 101, 142, 162}
    WinningScore = 300
SPECIFICATION HistorySpec
PROPERTIES PointsConserved PendingGoesToWinner FailureNeverPays
