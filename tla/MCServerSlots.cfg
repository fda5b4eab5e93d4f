\* Three clients, two of them of the program of the server; a table of one place.
CONSTANTS
    c1 = c1
    c2 = c2
    c3 = c3
    Clients = {c1, c2, c3}
    Local = {c1, c2}
    NoClient = NoClient
    MAX_CLIENTS = 2
    MAX_CLIENTS_ON_TABLE = 1
    MaxStarts = 2
SPECIFICATION FairSpec
INVARIANTS TypeOK TableIsIdle VerdictFirst NewsAreTrue
PROPERTIES ToldOfShutdown StopEnds LeaverIsFreed
CHECK_DEADLOCK FALSE
