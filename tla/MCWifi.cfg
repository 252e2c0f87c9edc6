SPECIFICATION FairSpec
CONSTANTS
    n1 = n1
    n2 = n2
    n3 = n3
    Nets <- MCNets
    Reach <- MCReach
    Listed <- MCListed
    Strengths = {1, 2}
    MaxFound = 2
    MaxCalls = 3
    MaxFaults = 1
INVARIANTS
    CallbacksFindTheirPlace
    StaticAddressStays
PROPERTIES
    FlashSpared
    SetupConnects
CHECK_DEADLOCK FALSE
