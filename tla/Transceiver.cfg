CONSTANTS
    Hdr = 2
    Scratch = 4
    Lens = {1, 2}
    BulkLens = {1, 2, 3}
    DeviceFails = TRUE
    MaxCalls = 4
SPECIFICATION FairSpec
INVARIANTS TransportInv OneCommandPerFrame ReadWindow BusOwner
PROPERTY DeviceReturns
CHECK_DEADLOCK FALSE
