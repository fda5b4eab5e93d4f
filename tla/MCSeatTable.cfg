\* Two seats, two people and two bots; people ask three times at most, bots too.
CONSTANTS
    Seats = {0, 1}
    p1 = p1
    p2 = p2
    b1 = b1
    b2 = b2
    People = {p1, p2}
    Bots = {b1, b2}
    Nobody = Nobody
    AllowBots = TRUE
    MaxRequests = 3
    MaxChoices = 3
SPECIFICATION Spec
INVARIANTS TypeOK OnePlace OnlyPresentPlayers LastPositioningIsCurrent
PROPERTIES LostOnlyToMover
CHECK_DEADLOCK FALSE
SYMMETRY Interchangeable
