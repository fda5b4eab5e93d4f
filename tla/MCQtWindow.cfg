\* Two seats, hands of one card and then two; two connections and three clicks
\* on the buttons of the scenes make a second match find what the first left.
CONSTANTS
    Seats = {0, 1}
    FirstGive = 1
    HandSize = 2
    MaxConnects = 2
    MaxClicks = 3
    MaxPackets = 2
SPECIFICATION Spec
INVARIANTS OnlyHostStarts SeatedCanLeave QuestionIsShown
CHECK_DEADLOCK FALSE
