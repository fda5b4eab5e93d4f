\* Two persons and two bots, two cards each, and a start button clicked three times.
CONSTANTS
    Colours = {}
    Values = {}
    Bots = {0, 3}
    HandSize = 2
    MaxStarts = 3
SPECIFICATION FairSpec
INVARIANTS
    OneAnswerIsDue
    
PROPERTIES
    QuestionsAreAnswered
CHECK_DEADLOCK FALSE
