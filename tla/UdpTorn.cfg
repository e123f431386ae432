CONSTANTS
    Hdr = 2
    RingCap = 5
    RxCap = 8
    TxCap = 3
    PtrMod = 9
    Scratch = 2
    InLens = {1}
    OutLens = {1, 3}
    DstLens = {3}
    Faults = {}
    MaxFaults = 0
    MaxUpsets = 0
    MaxIn = 1
    MaxOut = 2
SPECIFICATION Spec
INVARIANT TxFramed
