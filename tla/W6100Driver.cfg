CONSTANTS
    N = 2
    None = None
    c1 = c1
    c2 = c2
    Configs <- MCConfigs
    MaxOpens = 2
    MaxSets = 1
    SpiFaults = TRUE
    PollsLink = "closed"
SPECIFICATION Spec
INVARIANTS DriverInv BusOwnership BusQuiet TransferOwner SlotOwnership ConfigFresh
SYMMETRY ConfigSymmetry
