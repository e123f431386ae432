CONSTANTS
    Modes = {"Listen"}
    Resets = {"whole"}
    RingCap = 2
    ChipCap = 1
    Scratch = 2
    BufLen = 1
    CloseAgain = FALSE
    MaxResets = 0
    MaxConns = 2
    MaxBytes = 3
SPECIFICATION EchoSpec
INVARIANT EchoComplete
