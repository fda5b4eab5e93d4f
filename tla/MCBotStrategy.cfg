\* Clubs are the colour of the special case, diamonds the asset.
CONSTANTS
    Colours = {"H", "D", "C"}
    Values = {"J", "10", "1"}
    HandSize = 2
    m_MySeat = 0
    NoCard = NoCard
    Assets = {"D"}
    LastTricks <- Remembered
SPECIFICATION Spec
INVARIANTS
    AnswerIsOffered
    PartnerIsNotCut
    RecordIsExact
