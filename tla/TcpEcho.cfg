CONSTANTS
    Modes = {"Listen"}
    Resets = {"whole"}
    RingCap = 2
    ChipCap = 1
    Scratch = 2
    BufLen = 2
    CloseAgain = FALSE
    MaxResets = 1
    MaxConns = 2
    MaxBytes = 3
SPECIFICATION EchoFairSpec
INVARIANTS EchoConserved EchoOwn
PROPERTIES Echoed Serves
