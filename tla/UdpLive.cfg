CONSTANTS
    Hdr = 1
    RingCap = 2
    RxCap = 4
    TxCap = 1
    PtrMod = 5
    Scratch = 1
    InLens = {0, 1, 2}
    OutLens = {1}
    DstLens = {1}
    Faults = {"receive", "transmit"}
    MaxFaults = 1
    MaxUpsets = 2
    MaxIn = 2
    MaxOut = 1
SPECIFICATION FairSpec
PROPERTIES TxLeaves RxMoves Released
