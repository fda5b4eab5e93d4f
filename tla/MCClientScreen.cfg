\* Five connections in the life of the program, two packets waiting at most.
CONSTANTS
    MaxConnects = 5
    MaxPackets = 2
SPECIFICATION FairSpec
PROPERTIES GameEventsAreHeard DenialIsTold ScreenFollowsSession
CHECK_DEADLOCK FALSE
