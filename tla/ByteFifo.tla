------------------------------ MODULE ByteFifo ------------------------------
(***************************************************************************)
(* What a byte ring promises its two users, with no counters, no slots and *)
(* no copying: a bounded FIFO queue whose operations are atomic.  `write`  *)
(* takes a nonempty prefix of what it is offered, `read` hands over the    *)
(* oldest bytes and removes them, `peek` shows them and leaves them,       *)
(* `clear` drops whatever is stored.                                       *)
(*                                                                         *)
(* Bytes are identified by their position in the producer's stream, so an  *)
(* order or an identity that is lost is visible.                           *)
(***************************************************************************)
EXTENDS Naturals, Sequences

CONSTANT Capacity     \* bytes the queue can hold once its buffer is installed

VARIABLES
    queue,   \* the stored bytes, oldest first
    next,    \* stream position of the next byte the producer hands in
    got      \* the bytes the last read or peek returned

fifoVars == <<queue, next, got>>

FifoInit == queue = <<>> /\ next = 0 /\ got = <<>>

Write(n) ==
    /\ Len(queue) + n <= Capacity
    /\ queue' = queue \o [i \in 1..n |-> next + i - 1]
    /\ next' = next + n
    /\ UNCHANGED got

Read(n) ==
    /\ n <= Len(queue)
    /\ got' = SubSeq(queue, 1, n)
    /\ queue' = SubSeq(queue, n + 1, Len(queue))
    /\ UNCHANGED next

Peek(n) ==
    /\ n <= Len(queue)
    /\ got' = SubSeq(queue, 1, n)
    /\ UNCHANGED <<queue, next>>

Clear == queue' = <<>> /\ UNCHANGED <<next, got>>

FifoNext ==
    \/ \E n \in 1..Capacity : Write(n) \/ Read(n) \/ Peek(n)
    \/ Clear

FifoSpec == FifoInit /\ [][FifoNext]_fifoVars
=============================================================================
