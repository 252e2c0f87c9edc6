SPECIFICATION TlsSpec
CONSTANTS
    a = a
    b = b
    Handles <- MCHandles
    MaxObjects = 3
    MaxConnects = 2
    MaxRecord = 1
    MaxRefs = 3
    Credentials = {"certificate", "key"}
SYMMETRY Symmetry
INVARIANTS
    OwnershipHolds
    IoIsHeld
