------------------------------ MODULE SpscRing ------------------------------
(***************************************************************************)
(* The lock-free single-producer / single-consumer byte ring of            *)
(* spsc_ring.rs.  Its two ends run on opposite sides of the interrupt      *)
(* boundary, so one end can be suspended anywhere inside a copy while the  *)
(* other runs: every operation is split at its loads and stores of the     *)
(* shared counters and at every byte it copies.                            *)
(*                                                                         *)
(* A byte is the position it has in the producer's stream (0, 1, 2, ...),  *)
(* never a real octet: lost, repeated and reordered bytes are then visible *)
(* in the data itself.  Unset marks a slot nobody has written.             *)
(***************************************************************************)
EXTENDS Integers, Sequences

CONSTANTS
    Cap,         \* bytes of the backing slice handed to `install`
    CounterMod,  \* number of values of the usize counters (2^32 on the MCU)
    MaxLen,      \* longest slice a caller passes to write, read or peek
    MaxBytes     \* bound of the model: bytes the producer writes in all

Unset == -1

ASSUME CapAssumption == Cap \in Nat \ {0}
ASSUME CounterAssumption == CounterMod \in Nat /\ Cap < CounterMod
ASSUME LenAssumption == MaxLen \in Nat \ {0}
ASSUME BytesAssumption == MaxBytes \in Nat

\* The condition the slot arithmetic needs and the code does not check: the
\* capacity divides the range of the counters, as every power of two does.
\* Without it the slot of a counter jumps when the counter wraps around.
Aligned == CounterMod % Cap = 0

VARIABLES
    cap,       \* the published capacity: 0 until `install`
    buf,       \* the backing slice
    head,      \* consumer counter, free-running
    tail,      \* producer counter, free-running
    prod,      \* the producer's call in progress
    cons,      \* the consumer's call in progress
    dst,       \* the slice the consumer's call fills
    ret,       \* the bytes the consumer's last call returned
    produced,  \* history: bytes whose write has returned
    consumed,  \* history: bytes taken out by a read or dropped by a clear
    base       \* history: value of produced at the last clear

vars == <<cap, buf, head, tail, prod, cons, dst, ret, produced, consumed, base>>

Slots == 0..(Cap - 1)
Counter == 0..(CounterMod - 1)
Byte == Int

Idle == [op |-> "idle", n |-> 0, k |-> 0, start |-> 0]

\* usize::wrapping_sub(tail, head): the bytes stored.
Stored == (tail - head) % CounterMod

\* Slot of the k-th byte of a copy that starts at slot `start`: the first
\* memcpy runs to the end of the slice, the second goes on from slot 0.
Slot(start, k) == IF k < Cap - start THEN start + k ELSE k - (Cap - start)

MinOf(a, b) == IF a <= b THEN a ELSE b

-----------------------------------------------------------------------------
(* new: a ring with no storage.                                            *)
Init ==
    /\ cap = 0
    /\ buf = [s \in Slots |-> Unset]
    /\ head = 0
    /\ tail = 0
    /\ prod = Idle
    /\ cons = Idle
    /\ dst = [i \in 0..(MaxLen - 1) |-> Unset]
    /\ ret = <<>>
    /\ produced = 0
    /\ consumed = 0
    /\ base = 0

(* install: once, at socket open.  The counters are stored first, the      *)
(* capacity last; until then both ends see a ring of capacity 0 and do     *)
(* nothing, so the whole call is one step.                                 *)
Install ==
    /\ cap = 0
    /\ head' = 0
    /\ tail' = 0
    /\ cap' = Cap
    /\ UNCHANGED <<buf, prod, cons, dst, ret, produced, consumed, base>>

-----------------------------------------------------------------------------
(* write, from its loads to the computation of start.  With no room, or no *)
(* storage, it returns 0 and changes nothing.                              *)
MutWriteBegin(len) ==
    /\ prod.op = "idle"
    /\ produced + len <= MaxBytes
    /\ cap # 0
    /\ LET n == MinOf(len, cap - Stored + 1) IN
         /\ n # 0
         /\ prod' = [op |-> "write", n |-> n, k |-> 0, start |-> tail % cap]
    /\ UNCHANGED <<cap, buf, head, tail, cons, dst, ret, produced, consumed,
                   base>>

WriteBegin(len) ==
    /\ prod.op = "idle"
    /\ produced + len <= MaxBytes
    /\ cap # 0
    /\ LET n == MinOf(len, cap - Stored) IN
         /\ n # 0
         /\ prod' = [op |-> "write", n |-> n, k |-> 0, start |-> tail % cap]
    /\ UNCHANGED <<cap, buf, head, tail, cons, dst, ret, produced, consumed,
                   base>>

(* One byte of the copy into the slice.                                    *)
WriteByte ==
    /\ prod.op = "write"
    /\ prod.k < prod.n
    /\ buf' = [buf EXCEPT ![Slot(prod.start, prod.k)] = produced + prod.k]
    /\ prod' = [prod EXCEPT !.k = @ + 1]
    /\ UNCHANGED <<cap, head, tail, cons, dst, ret, produced, consumed, base>>

(* The Release store of tail, which publishes the bytes, and the return.   *)
\* A store that publishes the call before its last byte is copied.
MutWriteEnd ==
    /\ prod.op = "write"
    /\ prod.k + 1 >= prod.n
    /\ tail' = (tail + prod.n) % CounterMod
    /\ produced' = produced + prod.n
    /\ prod' = Idle
    /\ UNCHANGED <<cap, buf, head, cons, dst, ret, consumed, base>>

WriteEnd ==
    /\ prod.op = "write"
    /\ prod.k = prod.n
    /\ tail' = (tail + prod.n) % CounterMod
    /\ produced' = produced + prod.n
    /\ prod' = Idle
    /\ UNCHANGED <<cap, buf, head, cons, dst, ret, consumed, base>>

-----------------------------------------------------------------------------
(* read and peek, from their loads to the computation of start.            *)
ReadBegin(op, len) ==
    /\ cons.op = "idle"
    /\ cap # 0
    /\ LET n == MinOf(len, Stored) IN
         /\ n # 0
         /\ cons' = [op |-> op, n |-> n, k |-> 0, start |-> head % cap]
    /\ dst' = [i \in 0..(MaxLen - 1) |-> Unset]
    /\ UNCHANGED <<cap, buf, head, tail, prod, ret, produced, consumed, base>>

(* One byte of the copy out of the slice.                                  *)
\* A copy that does not restart at slot 0 after the end of the slice.
MutReadByte ==
    /\ cons.op \in {"read", "peek"}
    /\ cons.k < cons.n
    /\ dst' = [dst EXCEPT ![cons.k] = buf[MinOf(cons.start + cons.k, Cap - 1)]]
    /\ cons' = [cons EXCEPT !.k = @ + 1]
    /\ UNCHANGED <<cap, buf, head, tail, prod, ret, produced, consumed, base>>

ReadByte ==
    /\ cons.op \in {"read", "peek"}
    /\ cons.k < cons.n
    /\ dst' = [dst EXCEPT ![cons.k] = buf[Slot(cons.start, cons.k)]]
    /\ cons' = [cons EXCEPT !.k = @ + 1]
    /\ UNCHANGED <<cap, buf, head, tail, prod, ret, produced, consumed, base>>

\* The bytes the consumer's call hands to its caller.
Returned == [i \in 1..cons.n |-> dst[i - 1]]

(* read: the Release store of head, which frees the slots, and the return. *)
ReadEnd ==
    /\ cons.op = "read"
    /\ cons.k = cons.n
    /\ head' = (head + cons.n) % CounterMod
    /\ consumed' = consumed + cons.n
    /\ ret' = Returned
    /\ cons' = Idle
    /\ UNCHANGED <<cap, buf, tail, prod, dst, produced, base>>

(* peek: the return; head is left alone.                                   *)
PeekEnd ==
    /\ cons.op = "peek"
    /\ cons.k = cons.n
    /\ ret' = Returned
    /\ cons' = Idle
    /\ UNCHANGED <<cap, buf, head, tail, prod, dst, produced, consumed, base>>

-----------------------------------------------------------------------------
(* clear.  Its callers must make sure that neither end is inside a call    *)
(* and none starts before it returns; under that contract its stores are   *)
(* one step.                                                               *)
Clear ==
    /\ cap # 0
    /\ prod.op = "idle"
    /\ cons.op = "idle"
    /\ head' = 0
    /\ tail' = 0
    /\ consumed' = produced
    /\ base' = produced
    /\ UNCHANGED <<cap, buf, prod, cons, dst, ret, produced>>

-----------------------------------------------------------------------------
Producer == (\E len \in 1..MaxLen : WriteBegin(len)) \/ WriteByte \/ WriteEnd

Consumer ==
    \/ \E op \in {"read", "peek"}, len \in 1..MaxLen : ReadBegin(op, len)
    \/ ReadByte
    \/ ReadEnd
    \/ PeekEnd

Next == Install \/ Producer \/ Consumer \/ Clear

Spec == Init /\ [][Next]_vars

-----------------------------------------------------------------------------
Call(ops, N) == [op : ops, n : 0..N, k : 0..N, start : Slots]

TypeOK ==
    /\ cap \in {0, Cap}
    /\ buf \in [Slots -> Byte]
    /\ head \in Counter
    /\ tail \in Counter
    /\ prod \in Call({"idle", "write"}, Cap)
    /\ cons \in Call({"idle", "read", "peek"}, Cap)
    /\ dst \in [0..(MaxLen - 1) -> Byte]
    /\ ret \in Seq(Byte)
    /\ produced \in Nat
    /\ consumed \in Nat
    /\ base \in Nat

(* The counters agree with what really happened and the ring never holds   *)
(* more than its capacity.  A `tail - head` above cap would make           *)
(* `cap - len` in `free` underflow.                                        *)
Accounting ==
    /\ base <= consumed
    /\ consumed <= produced
    /\ produced - consumed <= cap
    /\ Stored = produced - consumed

(* The bytes a read or a peek has copied so far are the oldest unread      *)
(* bytes of the stream, in order: nothing lost, repeated, torn or stale,   *)
(* even though the producer may be suspended inside a copy.                *)
Fifo ==
    cons.op # "idle" => \A j \in 0..(cons.k - 1) : dst[j] = consumed + j

(* The two ends never have the same slot in their copies: what makes the   *)
(* two raw-pointer memcpys of `write` and `read` free of data races.       *)
NoDataRace ==
    prod.op = "write" /\ cons.op \in {"read", "peek"} =>
        \A j \in 0..(prod.n - 1), k \in 0..(cons.n - 1) :
            Slot(prod.start, j) # Slot(cons.start, k)

-----------------------------------------------------------------------------
(* The inductive invariant behind the four properties above.  Position i   *)
(* of the stream, counted from the last clear, lives in slot (i - base) mod *)
(* Cap; the counters are the same positions modulo CounterMod.             *)
Counters ==
    /\ base <= consumed
    /\ consumed <= produced
    /\ produced - consumed <= cap
    /\ tail = (produced - base) % CounterMod
    /\ head = (consumed - base) % CounterMod
    /\ cap = 0 => produced = base

\* Every byte between the counters is in its slot.
Published ==
    \A i \in consumed..(produced - 1) : buf[(i - base) % Cap] = i

\* A write in progress stays inside the free slots, and what it has copied
\* is in place.
Writing ==
    prod.op = "write" =>
        /\ cap = Cap
        /\ prod.n > 0
        /\ prod.k <= prod.n
        /\ produced + prod.n - consumed <= Cap
        /\ prod.start = (produced - base) % Cap
        /\ \A j \in 0..(prod.k - 1) :
               buf[((produced + j) - base) % Cap] = produced + j

\* A read or peek in progress stays inside the published slots.
Reading ==
    cons.op # "idle" =>
        /\ cap = Cap
        /\ cons.n > 0
        /\ cons.k <= cons.n
        /\ cons.n <= MaxLen
        /\ consumed + cons.n <= produced
        /\ cons.start = (consumed - base) % Cap
        /\ \A j \in 0..(cons.k - 1) : dst[j] = consumed + j

RingInv == TypeOK /\ Counters /\ Published /\ Writing /\ Reading

-----------------------------------------------------------------------------
(* The ring implements the bounded FIFO of ByteFifo.  The abstract queue   *)
(* is read out of the slice itself, between the consumer's and the         *)
(* producer's counters, so a byte store that touches a published slot is a *)
(* step the FIFO does not have; what a read returns is what the FIFO would *)
(* have handed over.                                                       *)
Contents == [i \in 1..Stored |-> buf[((head + i - 1) % CounterMod) % Cap]]

Abstract == INSTANCE ByteFifo WITH
    Capacity <- Cap, queue <- Contents, next <- produced, got <- ret

ImplementsFifo == Abstract!FifoSpec
=============================================================================
