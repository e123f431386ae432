CONSTANTS
    Modes = {"Listen", "Connect"}
    Resets = {"whole", "torn"}
    RingCap = 1
    ChipCap = 1
    Scratch = 1
    CloseAgain = FALSE
    MaxResets = 2
    MaxConns = 2
    MaxBytes = 1
SPECIFICATION FairSpec
PROPERTIES Released CloseCompletes
