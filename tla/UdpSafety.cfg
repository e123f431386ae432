CONSTANTS
    Hdr = 2
    RingCap = 5
    RxCap = 8
    TxCap = 1
    PtrMod = 9
    Scratch = 3
    InLens = {0, 2, 4}
    OutLens = {0, 1}
    DstLens = {1}
    Faults = {"epilogue"}
    MaxFaults = 1
    MaxUpsets = 1
    MaxIn = 2
    MaxOut = 2
SPECIFICATION Spec
INVARIANTS UdpInv RxFramed TxFramed RxIntact RxConserved TxConserved
