CONSTANTS
    Cap = 4
    CounterMod = 8
    MaxLen = 3
    MaxBytes = 11
SPECIFICATION Spec
INVARIANTS RingInv Accounting Fifo NoDataRace
PROPERTY ImplementsFifo
