CONSTANTS
    Modes = {"Listen"}
    Resets = {"whole"}
    RingCap = 1
    ChipCap = 1
    Scratch = 1
    CloseAgain = FALSE
    MaxResets = 1
    MaxConns = 2
    MaxBytes = 1
SPECIFICATION Spec
INVARIANTS InOrder
