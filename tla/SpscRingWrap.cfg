CONSTANTS
    Cap = 3
    CounterMod = 8
    MaxLen = 3
    MaxBytes = 10
SPECIFICATION Spec
INVARIANT Fifo
