SPECIFICATION FairSpec
CONSTANTS
    Requests <- MCRequests
    Boundary <- MCBoundary
    MaxRequests = 2
    BufLen = 2
    Events = {"silence", "close", "station", "full", "stack"}
INVARIANTS TypeOK UploadStoresTheFile HandledForItsOwnRequest
PROPERTY ClientsAreLetGo
CHECK_DEADLOCK FALSE
