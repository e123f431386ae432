CONSTANTS
    Modes = {"Listen", "Connect"}
    Resets = {}
    RingCap = 2
    ChipCap = 2
    Scratch = 2
    CloseAgain = TRUE
    MaxResets = 0
    MaxConns = 2
    MaxBytes = 3
SPECIFICATION Spec
INVARIANTS TcpInv RxConserved TxConserved InOrder DrainedAtFin TerminalQuiet
