\* Three colours of four values; hands of one or two cards.
CONSTANTS
    Colours = {"H", "S", "D"}
    Values = {"7", "9", "Q", "1"}
    Assets = {"H"}
    MaxHand = 2
SPECIFICATION Spec
INVARIANTS PlayableIsLegal WinnerIsMaster
