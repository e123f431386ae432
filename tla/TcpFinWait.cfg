CONSTANTS
    Modes = {"Listen"}
    Resets = {}
    RingCap = 1
    ChipCap = 1
    Scratch = 1
    CloseAgain = FALSE
    MaxResets = 0
    MaxConns = 1
    MaxBytes = 1
SPECIFICATION FairSpec
PROPERTIES FinFollows
