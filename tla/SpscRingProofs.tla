--------------------------- MODULE SpscRingProofs ---------------------------
(***************************************************************************)
(* RingInv is an invariant of the ring for every capacity, counter range,  *)
(* caller slice and amount of traffic, provided the capacity divides the   *)
(* counter range (Aligned); the accounting, order and data-race properties *)
(* and the refinement of ByteFifo follow, under the same hypothesis.       *)
(***************************************************************************)
EXTENDS SpscRing, TLAPS

-----------------------------------------------------------------------------
(* Facts about the remainder, for a divisor that is a variable.            *)

(* What % and \div mean, and that a multiple of m is never strictly        *)
(* between 0 and m (the index arithmetic `counter % cap` of the ring).     *)
LEMMA DivMod ==
    ASSUME NEW m \in Nat \ {0}, NEW a \in Int
    PROVE  /\ a % m \in 0..(m - 1)
           /\ a \div m \in Int
           /\ a = m * (a \div m) + (a % m)
  OBVIOUS

(* A nonzero multiple of m is at least m away from 0. *)
LEMMA Multiple ==
    ASSUME NEW m \in Nat \ {0}, NEW x \in Int
    PROVE  /\ x >= 1 => m * x >= m
           /\ x <= -1 => m * x <= -m
  OBVIOUS

(* The remainder is unique.                                                *)
LEMMA SameRemainder ==
    ASSUME NEW m \in Nat \ {0}, NEW q \in Int, NEW p \in Int,
           NEW r \in 0..(m - 1), NEW s \in 0..(m - 1), m * q + r = m * p + s
    PROVE  r = s
  <1>1. m * (q - p) = s - r
    OBVIOUS
  <1>2. CASE q = p
    BY <1>2
  <1>3. CASE q - p >= 1
    <2>1. m * (q - p) >= m
      BY <1>3, Multiple
    <2>. QED
      BY <2>1, <1>1
  <1>4. CASE q - p <= -1
    <2>1. m * (q - p) <= -m
      BY <1>4, Multiple
    <2>. QED
      BY <2>1, <1>1
  <1>. QED
    BY <1>2, <1>3, <1>4

(* The remainder of m*q + r by m is r when r is already below m. *)
LEMMA Remainder ==
    ASSUME NEW m \in Nat \ {0}, NEW q \in Int, NEW r \in 0..(m - 1)
    PROVE  (m * q + r) % m = r
  <1>. DEFINE a == m * q + r
  <1>1. /\ a % m \in 0..(m - 1)
        /\ a \div m \in Int
        /\ a = m * (a \div m) + (a % m)
    BY DivMod
  <1>. QED
    BY <1>1, SameRemainder

(* Every integer is a multiple of m plus its remainder.                    *)
LEMMA Decompose ==
    ASSUME NEW m \in Nat \ {0}, NEW a \in Int
    PROVE  \E q \in Int, r \in 0..(m - 1) : a = m * q + r /\ a % m = r
  BY DivMod

(* Multiplication distributes over addition, as a fact to cite. *)
LEMMA Distribute ==
    ASSUME NEW m \in Int, NEW a \in Int, NEW b \in Int
    PROVE  m * (a + b) = m * a + m * b
  OBVIOUS

(* A wrapping addition to a counter is the remainder of the true sum.      *)
LEMMA ModAdd ==
    ASSUME NEW m \in Nat \ {0}, NEW a \in Int, NEW b \in Int
    PROVE  ((a % m) + b) % m = (a + b) % m
  <1>1. PICK q \in Int, r \in 0..(m - 1) : a = m * q + r /\ a % m = r
    BY Decompose
  <1>2. PICK p \in Int, s \in 0..(m - 1) : r + b = m * p + s /\ (r + b) % m = s
    <2>1. r + b \in Int
      OBVIOUS
    <2>. QED
      BY <2>1, Decompose
  <1>3. a + b = m * (q + p) + s
    BY <1>1, <1>2, Distribute
  <1>4. (m * (q + p) + s) % m = s
    BY Remainder
  <1>. QED
    BY <1>1, <1>2, <1>3, <1>4

(* The same for two counters subtracted, as `len` does.                    *)
LEMMA ModSub ==
    ASSUME NEW m \in Nat \ {0}, NEW a \in Int, NEW b \in Int
    PROVE  ((a % m) - (b % m)) % m = (a - b) % m
  <1>1. PICK q \in Int, r \in 0..(m - 1) : b = m * q + r /\ b % m = r
    BY Decompose
  <1>2. ((a % m) + (-r)) % m = (a + (-r)) % m
    <2>1. -r \in Int
      OBVIOUS
    <2>. QED
      BY <2>1, ModAdd
  <1>3. PICK p \in Int, s \in 0..(m - 1) : a - b = m * p + s /\ (a - b) % m = s
    <2>1. a - b \in Int
      OBVIOUS
    <2>. QED
      BY <2>1, Decompose
  <1>4. a + (-r) = m * (p + q) + s
    BY <1>1, <1>3, Distribute
  <1>5. (m * (p + q) + s) % m = s
    BY Remainder
  <1>6. a % m \in Int
    BY DivMod
  <1>7. (a % m) - r = (a % m) + (-r)
    BY <1>6
  <1>. QED
    BY <1>1, <1>2, <1>3, <1>4, <1>5, <1>7

(* A number below m is its own remainder by m. *)
LEMMA ModSmall ==
    ASSUME NEW m \in Nat \ {0}, NEW a \in 0..(m - 1)
    PROVE  a % m = a
  <1>1. (m * 0 + a) % m = a
    BY Remainder
  <1>. QED
    BY <1>1

(* Two positions less than m apart have different remainders.              *)
LEMMA ModDistinct ==
    ASSUME NEW m \in Nat \ {0}, NEW a \in Int, NEW b \in Int,
           a < b, b - a < m
    PROVE  a % m # b % m
  <1>. SUFFICES ASSUME a % m = b % m
                PROVE  FALSE
    OBVIOUS
  <1>1. ((b % m) - (a % m)) % m = (b - a) % m
    BY ModSub
  <1>2. (b - a) % m = b - a
    <2>1. b - a \in 0..(m - 1)
      OBVIOUS
    <2>. QED
      BY <2>1, ModSmall
  <1>3. (b % m) - (a % m) = 0
    <2>1. a % m \in Int
      BY DivMod
    <2>. QED
      BY <2>1
  <1>4. 0 % m = 0
    BY ModSmall
  <1>. QED
    BY <1>1, <1>2, <1>3, <1>4

(* Where the divisibility of the counter range is used: the slot of a      *)
(* counter is the slot of the position it stands for, wrapped or not.      *)
LEMMA CounterSlot ==
    ASSUME Aligned, NEW a \in Int
    PROVE  (a % CounterMod) % Cap = a % Cap
  <1>. Cap \in Nat \ {0} /\ CounterMod \in Nat \ {0}
    BY CapAssumption, CounterAssumption
  <1>1. PICK d \in Int : CounterMod = Cap * d
    BY Decompose DEF Aligned
  <1>2. PICK q \in Int, r \in 0..(CounterMod - 1) :
            a = CounterMod * q + r /\ a % CounterMod = r
    BY Decompose
  <1>3. PICK p \in Int, s \in 0..(Cap - 1) : r = Cap * p + s /\ r % Cap = s
    <2>1. r \in Int
      OBVIOUS
    <2>. QED
      BY <2>1, Decompose
  <1>4. PICK e \in Int : CounterMod * q = Cap * e
    <2>1. d * q \in Int /\ (Cap * d) * q = Cap * (d * q)
      BY CapAssumption
    <2>. QED
      BY <1>1, <2>1
  <1>5. a = Cap * (e + p) + s
    <2>1. Cap * (e + p) = Cap * e + Cap * p
      BY Distribute, CapAssumption
    <2>2. Cap * e \in Int /\ Cap * p \in Int
      BY CapAssumption
    <2>. QED
      BY <1>2, <1>3, <1>4, <2>1, <2>2
  <1>6. (Cap * (e + p) + s) % Cap = s
    BY Remainder, CapAssumption
  <1>. QED
    BY <1>2, <1>3, <1>5, <1>6

(* The two memcpys of a call visit the slots of consecutive positions.     *)
LEMMA SlotOfPosition ==
    ASSUME NEW a \in Int, NEW k \in 0..(Cap - 1)
    PROVE  Slot(a % Cap, k) = (a + k) % Cap
  <1>1. a % Cap \in 0..(Cap - 1)
    BY DivMod, CapAssumption
  <1>2. ((a % Cap) + k) % Cap = (a + k) % Cap
    <2>1. k \in Int
      OBVIOUS
    <2>. QED
      BY <2>1, ModAdd, CapAssumption
  <1>3. CASE (a % Cap) + k < Cap
    <2>1. ((a % Cap) + k) % Cap = (a % Cap) + k
      BY <1>1, <1>3, ModSmall, CapAssumption
    <2>. QED
      BY <2>1, <1>1, <1>2, <1>3, CapAssumption DEF Slot
  <1>4. CASE (a % Cap) + k >= Cap
    <2>. DEFINE r == (a % Cap) + k - Cap
    <2>1. r \in 0..(Cap - 1)
      BY <1>1, <1>4, CapAssumption
    <2>2. (Cap * 1 + r) % Cap = r
      BY <2>1, Remainder, CapAssumption
    <2>3. Cap * 1 + r = (a % Cap) + k
      BY <1>1, CapAssumption
    <2>. QED
      BY <2>2, <2>3, <1>1, <1>2, <1>4, CapAssumption DEF Slot
  <1>. QED
    BY <1>1, <1>3, <1>4, CapAssumption

-----------------------------------------------------------------------------
(* `len` is the number of bytes really stored, although both counters have *)
(* wrapped any number of times.                                            *)
LEMMA StoredCount ==
    ASSUME TypeOK, Counters
    PROVE  Stored = produced - consumed
  <1>. CounterMod \in Nat \ {0}
    BY CapAssumption, CounterAssumption
  <1>1. ((produced - base) - (consumed - base)) % CounterMod = Stored
    <2>1. produced - base \in Int /\ consumed - base \in Int
      BY DEF TypeOK
    <2>. QED
      BY <2>1, ModSub DEF Counters, Stored
  <1>2. (produced - base) - (consumed - base) = produced - consumed
    BY DEF TypeOK
  <1>3. produced - consumed \in 0..(CounterMod - 1)
    BY CapAssumption, CounterAssumption DEF TypeOK, Counters
  <1>. QED
    BY <1>1, <1>2, <1>3, ModSmall

(* A counter that advances by n still stands for its position.             *)
LEMMA Advance ==
    ASSUME NEW a \in Int, NEW n \in Int
    PROVE  ((a % CounterMod) + n) % CounterMod = (a + n) % CounterMod
  <1>1. CounterMod \in Nat \ {0}
    BY CapAssumption, CounterAssumption
  <1>. QED
    BY <1>1, ModAdd

(* A freshly built ring satisfies the inductive invariant. *)
LEMMA RingInit == Init => RingInv
  <1>. SUFFICES ASSUME Init
                PROVE  RingInv
    OBVIOUS
  <1>. USE CapAssumption, CounterAssumption, LenAssumption
  <1>1. TypeOK
    BY DEF Init, TypeOK, Slots, Counter, Byte, Unset, Call, Idle
  <1>2. Counters
    <2>1. 0 % CounterMod = 0
      BY ModSmall
    <2>. QED
      BY <2>1 DEF Init, Counters
  <1>3. Published /\ Writing /\ Reading
    BY DEF Init, Published, Writing, Reading, Idle
  <1>. QED
    BY <1>1, <1>2, <1>3 DEF RingInv

(* Installing fresh storage, as the driver does on allocation, keeps RingInv. *)
LEMMA InstallStep == RingInv /\ Install => RingInv'
  <1>. SUFFICES ASSUME RingInv, Install
                PROVE  RingInv'
    OBVIOUS
  <1>. USE CapAssumption, CounterAssumption DEF RingInv, Install
  <1>1. TypeOK'
    BY DEF TypeOK, Counter
  <1>2. Counters'
    <2>1. produced = consumed /\ consumed = base
      BY DEF Counters, TypeOK
    <2>2. produced - base = 0 /\ consumed - base = 0
      BY <2>1 DEF TypeOK
    <2>3. 0 % CounterMod = 0
      BY ModSmall
    <2>. QED
      BY <2>1, <2>2, <2>3 DEF Counters, TypeOK
  <1>. QED
    BY <1>1, <1>2 DEF Published, Writing, Reading

(* The parts of the invariant an action lemma starts from.                 *)
LEMMA Positions ==
    ASSUME RingInv
    PROVE  /\ base \in Nat /\ consumed \in Nat /\ produced \in Nat
           /\ base <= consumed /\ consumed <= produced
           /\ produced - consumed <= cap
           /\ cap \in {0, Cap}
  BY DEF RingInv, TypeOK, Counters

(* write starts inside the free part of the ring.                          *)
LEMMA WriteBeginStep ==
    ASSUME Aligned, NEW len \in 1..MaxLen, RingInv, WriteBegin(len)
    PROVE  RingInv'
  <1>. USE CapAssumption, CounterAssumption
  <1>. DEFINE n == MinOf(len, cap - Stored)
  <1>1. cap = Cap /\ Stored = produced - consumed
    BY StoredCount, Positions DEF WriteBegin, RingInv
  <1>2. n \in 1..Cap /\ produced + n - consumed <= Cap
    BY <1>1, Positions, LenAssumption DEF WriteBegin, MinOf
  <1>3. tail % cap = (produced - base) % Cap /\ tail % cap \in Slots
    <2>1. produced - base \in Int
      BY Positions
    <2>2. tail % Cap = (produced - base) % Cap
      BY <2>1, CounterSlot DEF Counters, RingInv
    <2>3. (produced - base) % Cap \in 0..(Cap - 1)
      BY <2>1, DivMod
    <2>. QED
      BY <1>1, <2>2, <2>3 DEF Slots
  <1>4. prod' = [op |-> "write", n |-> n, k |-> 0, start |-> tail % cap]
    BY DEF WriteBegin
  <1>. HIDE DEF n
  <1>5. UNCHANGED <<cap, buf, head, tail, cons, dst, ret, produced, consumed, base>>
    BY DEF WriteBegin
  <1>6. TypeOK'
    BY <1>2, <1>3, <1>4, <1>5 DEF RingInv, TypeOK, Call
  <1>7. Writing'
    BY <1>1, <1>2, <1>3, <1>4, <1>5 DEF Writing
  <1>. QED
    BY <1>5, <1>6, <1>7 DEF RingInv, Counters, Published, Reading

(* A byte store never hits a published slot or one already copied.         *)
LEMMA WriteByteStep == RingInv /\ WriteByte => RingInv'
  <1>. SUFFICES ASSUME RingInv, WriteByte
                PROVE  RingInv'
    OBVIOUS
  <1>. USE CapAssumption
  <1>. DEFINE s == (produced - base + prod.k) % Cap
  <1>1. /\ prod.n \in 0..Cap /\ prod.k \in Nat /\ prod.k < prod.n
        /\ produced + prod.n - consumed <= Cap
    BY DEF RingInv, WriteByte, Writing, TypeOK, Call
  <1>2. Slot(prod.start, prod.k) = s /\ s \in Slots
    <2>1. prod.k \in 0..(Cap - 1)
      BY <1>1
    <2>2. produced - base \in Int /\ produced - base + prod.k \in Int
      BY <1>1, Positions
    <2>3. prod.start = (produced - base) % Cap
      BY DEF RingInv, WriteByte, Writing
    <2>4. Slot(prod.start, prod.k) = s
      BY <2>1, <2>2, <2>3, SlotOfPosition
    <2>5. s \in 0..(Cap - 1)
      BY <2>2, DivMod
    <2>. QED
      BY <2>4, <2>5 DEF Slots
  <1>3. buf' = [buf EXCEPT ![s] = produced + prod.k]
    BY <1>2 DEF WriteByte
  <1>4. ASSUME NEW i \in Int, consumed <= i, i < produced + prod.k
        PROVE  (i - base) % Cap # s /\ (i - base) % Cap \in Slots
    <2>1. /\ i - base \in Int
          /\ produced - base + prod.k \in Int
          /\ i - base < produced - base + prod.k
          /\ (produced - base + prod.k) - (i - base) < Cap
      BY <1>1, <1>4, Positions
    <2>2. (i - base) % Cap # s
      BY <2>1, ModDistinct
    <2>3. (i - base) % Cap \in 0..(Cap - 1)
      BY <2>1, DivMod
    <2>. QED
      BY <2>2, <2>3 DEF Slots
  <1>5. UNCHANGED <<cap, head, tail, cons, dst, ret, produced, consumed, base>>
    BY DEF WriteByte
  <1>6. prod' = [prod EXCEPT !.k = prod.k + 1]
    BY DEF WriteByte
  <1>7. TypeOK'
    <2>1. produced + prod.k \in Byte
      BY <1>1, Positions DEF Byte
    <2>2. buf' \in [Slots -> Byte]
      BY <1>2, <1>3, <2>1 DEF RingInv, TypeOK
    <2>3. prod' \in Call({"idle", "write"}, Cap)
      <3>1. prod.k + 1 \in 0..Cap
        BY <1>1
      <3>. QED
        BY <1>6, <3>1 DEF RingInv, TypeOK, Call
    <2>. QED
      BY <1>5, <2>2, <2>3 DEF RingInv, TypeOK
  <1>. HIDE DEF s
  <1>8. Published'
    <2>. SUFFICES ASSUME NEW i \in consumed..(produced - 1)
                  PROVE  buf'[(i - base) % Cap] = i
      BY <1>5 DEF Published
    <2>1. i \in Int /\ consumed <= i /\ i < produced + prod.k
      BY <1>1, Positions
    <2>2. (i - base) % Cap # s /\ (i - base) % Cap \in Slots
      BY <1>4, <2>1
    <2>3. buf[(i - base) % Cap] = i
      BY DEF RingInv, Published
    <2>. QED
      BY <1>3, <2>2, <2>3 DEF RingInv, TypeOK
  <1>9. Writing'
    <2>1. ASSUME NEW j \in 0..prod.k
          PROVE  buf'[((produced + j) - base) % Cap] = produced + j
      <3>1. CASE j = prod.k
        <4>1. (produced + j) - base = produced - base + prod.k
          BY <1>1, <3>1, Positions
        <4>2. ((produced + j) - base) % Cap = s
          BY <4>1 DEF s
        <4>. QED
          BY <1>2, <1>3, <3>1, <4>2 DEF RingInv, TypeOK
      <3>2. CASE j # prod.k
        <4>1. j \in 0..(prod.k - 1)
          BY <1>1, <3>2
        <4>2. /\ produced + j \in Int
              /\ consumed <= produced + j
              /\ produced + j < produced + prod.k
          BY <1>1, <4>1, Positions
        <4>. DEFINE i == produced + j
        <4>. HIDE DEF i
        <4>3. i \in Int /\ consumed <= i /\ i < produced + prod.k
          BY <4>2 DEF i
        <4>4. (i - base) % Cap # s /\ (i - base) % Cap \in Slots
          BY <1>4, <4>3
        <4>5. ((produced + j) - base) % Cap # s /\ ((produced + j) - base) % Cap \in Slots
          BY <4>4 DEF i
        <4>6. buf[((produced + j) - base) % Cap] = produced + j
          BY <4>1 DEF RingInv, WriteByte, Writing
        <4>. QED
          BY <1>3, <4>5, <4>6 DEF RingInv, TypeOK
      <3>. QED
        BY <3>1, <3>2
    <2>2. /\ prod'.k = prod.k + 1 /\ prod'.n = prod.n
          /\ prod'.start = prod.start /\ prod'.op = prod.op
      BY <1>6 DEF RingInv, TypeOK, Call
    <2>3. 0..(prod'.k - 1) = 0..prod.k
      BY <1>1, <2>2
    <2>4. prod.k + 1 <= prod.n
      BY <1>1
    <2>. QED
      BY <1>5, <2>1, <2>2, <2>3, <2>4 DEF RingInv, Writing, WriteByte
  <1>. QED
    BY <1>5, <1>7, <1>8, <1>9 DEF RingInv, Counters, Reading

(* Publishing a finished copy.                                             *)
LEMMA WriteEndStep == RingInv /\ WriteEnd => RingInv'
  <1>. SUFFICES ASSUME RingInv, WriteEnd
                PROVE  RingInv'
    OBVIOUS
  <1>. USE CapAssumption
  <1>1. /\ prod.n \in 1..Cap /\ prod.k = prod.n /\ cap = Cap
        /\ produced + prod.n - consumed <= Cap
    BY DEF RingInv, WriteEnd, Writing, TypeOK, Call
  <1>2. /\ produced' = produced + prod.n
        /\ tail' = (tail + prod.n) % CounterMod
        /\ prod' = Idle
        /\ UNCHANGED <<cap, buf, head, cons, dst, ret, consumed, base>>
    BY DEF WriteEnd
  <1>3. produced' \in Nat /\ consumed <= produced'
    BY <1>1, <1>2, Positions
  <1>4. tail' = (produced' - base) % CounterMod
    <2>1. produced - base \in Int /\ prod.n \in Int
      BY <1>1, Positions
    <2>2. (produced - base) + prod.n = produced' - base
      BY <1>1, <1>2, Positions
    <2>3. tail = (produced - base) % CounterMod
      BY DEF RingInv, Counters
    <2>. QED
      BY <1>2, <2>1, <2>2, <2>3, Advance
  <1>5. TypeOK'
    <2>1. tail' \in Counter
      <3>1. produced' - base \in Int /\ CounterMod \in Nat \ {0}
        BY <1>3, Positions, CounterAssumption
      <3>. QED
        BY <1>4, <3>1, DivMod DEF Counter
    <2>. QED
      BY <1>2, <1>3, <2>1, SMTT(30) DEF RingInv, TypeOK, Call, Idle, Slots
  <1>6. Counters'
    <2>1. produced' - consumed <= cap
      BY <1>1, <1>2, Positions
    <2>2. cap # 0
      BY <1>1
    <2>. QED
      BY <1>2, <1>3, <1>4, <2>1, <2>2 DEF RingInv, Counters
  <1>7. Published'
    <2>. SUFFICES ASSUME NEW i \in consumed..(produced' - 1)
                  PROVE  buf[(i - base) % Cap] = i
      BY <1>2 DEF Published
    <2>1. CASE i < produced
      <3>1. i \in consumed..(produced - 1)
        BY <2>1, Positions
      <3>. QED
        BY <3>1 DEF RingInv, Published
    <2>2. CASE i >= produced
      <3>. DEFINE j == i - produced
      <3>1. j \in 0..(prod.k - 1) /\ produced + j = i
        BY <1>1, <1>2, <2>2, Positions
      <3>. HIDE DEF j
      <3>2. buf[((produced + j) - base) % Cap] = produced + j
        BY <3>1 DEF RingInv, WriteEnd, Writing
      <3>3. (produced + j) - base = i - base
        BY <3>1
      <3>. QED
        BY <3>1, <3>2, <3>3
    <2>. QED
      BY <2>1, <2>2, <1>3, Positions
  <1>8. Writing'
    BY <1>2 DEF Writing, Idle
  <1>9. Reading'
    <2>1. cons.op # "idle" => consumed + cons.n <= produced'
      BY <1>1, <1>2, Positions DEF RingInv, Reading, TypeOK, Call
    <2>. QED
      BY <1>2, <2>1 DEF RingInv, Reading
  <1>. QED
    BY <1>5, <1>6, <1>7, <1>8, <1>9 DEF RingInv

(* read and peek start inside the published part of the ring.              *)
LEMMA ReadBeginStep ==
    ASSUME Aligned, NEW op \in {"read", "peek"}, NEW len \in 1..MaxLen, RingInv,
           ReadBegin(op, len)
    PROVE  RingInv'
  <1>. USE CapAssumption
  <1>. DEFINE n == MinOf(len, Stored)
  <1>1. cap = Cap /\ Stored = produced - consumed
    BY StoredCount, Positions DEF ReadBegin, RingInv
  <1>2. n \in 1..Cap /\ n <= MaxLen /\ consumed + n <= produced
    BY <1>1, Positions, LenAssumption DEF ReadBegin, MinOf
  <1>3. head % cap = (consumed - base) % Cap /\ head % cap \in Slots
    <2>1. consumed - base \in Int
      BY Positions
    <2>2. head % Cap = (consumed - base) % Cap
      BY <2>1, CounterSlot DEF Counters, RingInv
    <2>3. (consumed - base) % Cap \in 0..(Cap - 1)
      BY <2>1, DivMod
    <2>. QED
      BY <1>1, <2>2, <2>3 DEF Slots
  <1>4. /\ cons' = [op |-> op, n |-> n, k |-> 0, start |-> head % cap]
        /\ dst' = [i \in 0..(MaxLen - 1) |-> Unset]
    BY DEF ReadBegin
  <1>. HIDE DEF n
  <1>5. UNCHANGED <<cap, buf, head, tail, prod, ret, produced, consumed, base>>
    BY DEF ReadBegin
  <1>6. TypeOK'
    <2>1. cons' \in Call({"idle", "read", "peek"}, Cap)
      BY <1>2, <1>3, <1>4 DEF Call
    <2>2. dst' \in [0..(MaxLen - 1) -> Byte]
      BY <1>4 DEF Byte, Unset
    <2>. QED
      BY <1>5, <2>1, <2>2 DEF RingInv, TypeOK
  <1>7. Reading'
    BY <1>1, <1>2, <1>3, <1>4, <1>5 DEF Reading
  <1>. QED
    BY <1>5, <1>6, <1>7 DEF RingInv, Counters, Published, Writing

(* The byte taken from the slice is the next one of the stream.            *)
LEMMA ReadByteStep == RingInv /\ ReadByte => RingInv'
  <1>. SUFFICES ASSUME RingInv, ReadByte
                PROVE  RingInv'
    OBVIOUS
  <1>. USE CapAssumption
  <1>1. /\ cons.n \in 0..Cap /\ cons.k \in Nat /\ cons.k < cons.n
        /\ cons.n <= MaxLen
        /\ consumed + cons.n <= produced
        /\ cons.op # "idle"
    BY DEF RingInv, ReadByte, Reading, TypeOK, Call
  <1>2. UNCHANGED <<cap, buf, head, tail, prod, ret, produced, consumed, base>>
    BY DEF ReadByte
  <1>3. cons' = [cons EXCEPT !.k = cons.k + 1]
    BY DEF ReadByte
  <1>4. buf[Slot(cons.start, cons.k)] = consumed + cons.k
    <2>1. cons.k \in 0..(Cap - 1) /\ consumed - base \in Int
      BY <1>1, Positions
    <2>2. cons.start = (consumed - base) % Cap
      BY <1>1 DEF RingInv, Reading
    <2>3. Slot(cons.start, cons.k) = (consumed - base + cons.k) % Cap
      BY <2>1, <2>2, SlotOfPosition
    <2>4. consumed + cons.k \in consumed..(produced - 1)
      BY <1>1, Positions
    <2>5. consumed - base + cons.k = (consumed + cons.k) - base
      BY <1>1, Positions
    <2>6. buf[((consumed + cons.k) - base) % Cap] = consumed + cons.k
      BY <2>4 DEF RingInv, Published
    <2>. QED
      BY <2>3, <2>5, <2>6
  <1>5. dst' = [dst EXCEPT ![cons.k] = consumed + cons.k]
    BY <1>4 DEF ReadByte
  <1>6. cons.k \in 0..(MaxLen - 1) /\ cons.k + 1 \in 0..Cap /\ cons.k + 1 <= cons.n
    BY <1>1, LenAssumption
  <1>7. TypeOK'
    <2>1. consumed + cons.k \in Byte
      BY <1>1, Positions DEF Byte
    <2>2. dst' \in [0..(MaxLen - 1) -> Byte]
      BY <1>5, <1>6, <2>1 DEF RingInv, TypeOK
    <2>3. cons' \in Call({"idle", "read", "peek"}, Cap)
      BY <1>3, <1>6 DEF RingInv, TypeOK, Call
    <2>. QED
      BY <1>2, <2>2, <2>3 DEF RingInv, TypeOK
  <1>8. Reading'
    <2>1. /\ cons'.k = cons.k + 1 /\ cons'.n = cons.n
          /\ cons'.start = cons.start /\ cons'.op = cons.op
      BY <1>3 DEF RingInv, TypeOK, Call
    <2>2. ASSUME NEW j \in 0..(cons'.k - 1)
          PROVE  dst'[j] = consumed + j
      <3>1. j \in 0..cons.k /\ j \in 0..(MaxLen - 1)
        BY <1>1, <2>1, LenAssumption
      <3>2. CASE j = cons.k
        BY <1>5, <3>1, <3>2 DEF RingInv, TypeOK
      <3>3. CASE j # cons.k
        <4>1. j \in 0..(cons.k - 1)
          BY <1>1, <3>1, <3>3
        <4>2. dst[j] = consumed + j
          BY <1>1, <4>1 DEF RingInv, Reading
        <4>. QED
          BY <1>5, <3>1, <3>3, <4>2 DEF RingInv, TypeOK
      <3>. QED
        BY <3>2, <3>3
    <2>. QED
      BY <1>2, <1>6, <2>1, <2>2 DEF RingInv, Reading
  <1>. QED
    BY <1>2, <1>7, <1>8 DEF RingInv, Counters, Published, Writing

(* What a finished read or peek hands out is a sequence of bytes.          *)
LEMMA ReturnedType ==
    ASSUME RingInv, cons.op # "idle"
    PROVE  Returned \in Seq(Byte)
  <1>1. cons.n \in Nat /\ cons.n <= MaxLen
    BY DEF RingInv, Reading, TypeOK, Call
  <1>2. ASSUME NEW i \in 1..cons.n
        PROVE  dst[i - 1] \in Byte
    <2>1. i - 1 \in 0..(MaxLen - 1)
      BY <1>1, LenAssumption
    <2>. QED
      BY <2>1 DEF RingInv, TypeOK
  <1>. QED
    BY <1>1, <1>2 DEF Returned

(* Handing the slots of a finished read back to the producer.              *)
LEMMA ReadEndStep == RingInv /\ ReadEnd => RingInv'
  <1>. SUFFICES ASSUME RingInv, ReadEnd
                PROVE  RingInv'
    OBVIOUS
  <1>. USE CapAssumption
  <1>1. /\ cons.n \in 1..Cap /\ cap = Cap /\ cons.op # "idle"
        /\ consumed + cons.n <= produced
    BY DEF RingInv, ReadEnd, Reading, TypeOK, Call
  <1>2. /\ consumed' = consumed + cons.n
        /\ head' = (head + cons.n) % CounterMod
        /\ cons' = Idle
        /\ ret' = Returned
        /\ UNCHANGED <<cap, buf, tail, prod, dst, produced, base>>
    BY DEF ReadEnd
  <1>3. /\ consumed' \in Nat /\ base <= consumed' /\ consumed' <= produced
        /\ produced - consumed' <= cap /\ consumed <= consumed'
    BY <1>1, <1>2, Positions
  <1>4. head' = (consumed' - base) % CounterMod
    <2>1. consumed - base \in Int /\ cons.n \in Int
      BY <1>1, Positions
    <2>2. (consumed - base) + cons.n = consumed' - base
      BY <1>1, <1>2, Positions
    <2>3. head = (consumed - base) % CounterMod
      BY DEF RingInv, Counters
    <2>. QED
      BY <1>2, <2>1, <2>2, <2>3, Advance
  <1>5. TypeOK'
    <2>1. head' \in Counter
      <3>1. consumed' - base \in Int /\ CounterMod \in Nat \ {0}
        BY <1>3, Positions, CounterAssumption
      <3>. QED
        BY <1>4, <3>1, DivMod DEF Counter
    <2>2. ret' \in Seq(Byte)
      BY <1>1, <1>2, ReturnedType
    <2>3. cons' \in Call({"idle", "read", "peek"}, Cap)
      BY <1>2 DEF Call, Idle, Slots
    <2>. QED
      BY <1>2, <1>3, <2>1, <2>2, <2>3 DEF RingInv, TypeOK
  <1>6. Counters'
    <2>1. cap # 0
      BY <1>1
    <2>. QED
      BY <1>2, <1>3, <1>4, <2>1 DEF RingInv, Counters
  <1>7. Published'
    <2>1. \A i \in consumed'..(produced - 1) : i \in consumed..(produced - 1)
      BY <1>3, Positions
    <2>. QED
      BY <1>2, <2>1 DEF RingInv, Published
  <1>8. Writing'
    <2>1. prod.op = "write" => produced + prod.n - consumed' <= Cap
      BY <1>3, Positions, SMTT(30) DEF RingInv, Writing, TypeOK, Call
    <2>. QED
      BY <1>2, <2>1 DEF RingInv, Writing
  <1>9. Reading'
    BY <1>2 DEF Reading, Idle
  <1>. QED
    BY <1>5, <1>6, <1>7, <1>8, <1>9 DEF RingInv

(* Ending a peek without releasing anything keeps RingInv. *)
LEMMA PeekEndStep == RingInv /\ PeekEnd => RingInv'
  <1>. SUFFICES ASSUME RingInv, PeekEnd
                PROVE  RingInv'
    OBVIOUS
  <1>. USE CapAssumption
  <1>1. ret' \in Seq(Byte)
    BY ReturnedType DEF PeekEnd
  <1>2. TypeOK'
    BY <1>1 DEF RingInv, TypeOK, PeekEnd, Call, Idle, Slots
  <1>3. Counters' /\ Published' /\ Writing' /\ Reading'
    BY DEF RingInv, PeekEnd, Counters, Published, Writing, Reading, Idle
  <1>. QED
    BY <1>2, <1>3 DEF RingInv

(* Clearing the ring (both counters back to 0) keeps RingInv. *)
LEMMA ClearStep == RingInv /\ Clear => RingInv'
  <1>. SUFFICES ASSUME RingInv, Clear
                PROVE  RingInv'
    OBVIOUS
  <1>. USE CapAssumption, CounterAssumption
  <1>1. TypeOK'
    BY DEF RingInv, Clear, TypeOK, Counter
  <1>2. Counters'
    <2>1. produced - produced = 0 /\ 0 % CounterMod = 0
      BY Positions, ModSmall
    <2>. QED
      BY <2>1, Positions DEF Clear, Counters
  <1>3. Published' /\ Writing' /\ Reading'
    BY Positions DEF RingInv, Clear, Published, Writing, Reading
  <1>. QED
    BY <1>1, <1>2, <1>3 DEF RingInv

-----------------------------------------------------------------------------
(* RingInv is inductive if the capacity divides the counter range:         *)
(* whatever the interleaving of the two ends, the counters stand for the   *)
(* true positions and every published byte is in its slot.                 *)
THEOREM RingInvariance ==
    ASSUME Aligned
    PROVE  Spec => []RingInv
  <1>1. Init => RingInv
    BY RingInit
  <1>2. RingInv /\ [Next]_vars => RingInv'
    <2>. SUFFICES ASSUME RingInv, [Next]_vars
                  PROVE  RingInv'
      OBVIOUS
    <2>1. CASE Install
      BY <2>1, InstallStep
    <2>2. CASE Producer
      BY <2>2, WriteBeginStep, WriteByteStep, WriteEndStep DEF Producer
    <2>3. CASE Consumer
      BY <2>3, ReadBeginStep, ReadByteStep, ReadEndStep, PeekEndStep DEF Consumer
    <2>4. CASE Clear
      BY <2>4, ClearStep
    <2>5. CASE UNCHANGED vars
      BY <2>5 DEF vars, RingInv, TypeOK, Counters, Published, Writing, Reading
    <2>. QED
      BY <2>1, <2>2, <2>3, <2>4, <2>5 DEF Next
  <1>. QED
    BY <1>1, <1>2, PTL DEF Spec

(* The bytes a read or peek has copied are the oldest unread bytes of the  *)
(* stream, in order, for every capacity that divides the counter range.    *)
(* For others it is false: the slot of a counter jumps when it wraps.      *)
THEOREM FifoHolds ==
    ASSUME Aligned
    PROVE  Spec => []Fifo
  <1>1. RingInv => Fifo
    BY DEF RingInv, Reading, Fifo
  <1>. QED
    BY <1>1, RingInvariance, PTL

(* `len` counts the stored bytes and never exceeds the capacity, so the    *)
(* subtraction in `free` and in `write` cannot underflow, for every        *)
(* capacity that divides the counter range.                                *)
THEOREM AccountingHolds ==
    ASSUME Aligned
    PROVE  Spec => []Accounting
  <1>1. RingInv => Accounting
    BY StoredCount DEF RingInv, Counters, Accounting
  <1>. QED
    BY <1>1, RingInvariance, PTL

(* The memcpys of the two ends never have a slot in common: the claim of   *)
(* the SAFETY comments in `write` and `read`, for every capacity that      *)
(* divides the counter range.                                              *)
THEOREM NoDataRaceHolds ==
    ASSUME Aligned
    PROVE  Spec => []NoDataRace
  <1>1. RingInv => NoDataRace
    <2>. SUFFICES ASSUME RingInv, prod.op = "write", cons.op # "idle",
                         NEW j \in 0..(prod.n - 1), NEW k \in 0..(cons.n - 1)
                  PROVE  Slot(prod.start, j) # Slot(cons.start, k)
      BY DEF NoDataRace
    <2>. USE CapAssumption
    <2>1. /\ prod.n \in 1..Cap /\ cons.n \in 1..Cap
          /\ produced + prod.n - consumed <= Cap
          /\ consumed + cons.n <= produced
      BY SMTT(30) DEF RingInv, Writing, Reading, TypeOK, Call
    <2>2. /\ prod.start = (produced - base) % Cap
          /\ cons.start = (consumed - base) % Cap
      BY DEF RingInv, Writing, Reading
    <2>3. /\ produced - base \in Int /\ consumed - base \in Int
          /\ j \in 0..(Cap - 1) /\ k \in 0..(Cap - 1)
      BY <2>1, Positions
    <2>4. /\ Slot(prod.start, j) = (produced - base + j) % Cap
          /\ Slot(cons.start, k) = (consumed - base + k) % Cap
      BY <2>2, <2>3, SlotOfPosition
    <2>5. /\ consumed - base + k \in Int /\ produced - base + j \in Int
          /\ consumed - base + k < produced - base + j
          /\ (produced - base + j) - (consumed - base + k) < Cap
      BY <2>1, <2>3, Positions
    <2>. QED
      BY <2>4, <2>5, ModDistinct
  <1>. QED
    BY <1>1, RingInvariance, PTL

-----------------------------------------------------------------------------
(* The refinement of ByteFifo.                                             *)

\* n bytes of the producer's stream from position a on.
Stream(a, n) == [i \in 1..n |-> a + i - 1]

(* Pieces of the stream are put together and taken apart.                  *)
LEMMA StreamConcat ==
    ASSUME NEW a \in Int, NEW n \in Nat, NEW m \in Nat
    PROVE  Stream(a, n) \o Stream(a + n, m) = Stream(a, n + m)
  BY DEF Stream

LEMMA StreamSplit ==
    ASSUME NEW a \in Int, NEW n \in Nat, NEW m \in 0..n
    PROVE  /\ Len(Stream(a, n)) = n
           /\ SubSeq(Stream(a, n), 1, m) = Stream(a, m)
           /\ SubSeq(Stream(a, n), m + 1, n) = Stream(a + m, n - m)
  BY DEF Stream

(* What is between the counters is the stream from the first byte not      *)
(* consumed to the last one published.                                     *)
LEMMA ContentsAreStream ==
    ASSUME Aligned
    PROVE  RingInv => Contents = Stream(consumed, produced - consumed)
  <1>. SUFFICES ASSUME RingInv
                PROVE  Contents = Stream(consumed, produced - consumed)
    OBVIOUS
  <1>1. Stored = produced - consumed
    BY StoredCount DEF RingInv
  <1>2. ASSUME NEW i \in 1..(produced - consumed)
        PROVE  buf[((head + i - 1) % CounterMod) % Cap] = consumed + i - 1
    <2>1. consumed - base \in Int /\ i - 1 \in Int /\ consumed + i - 1 \in consumed..(produced - 1)
      BY Positions
    <2>2. head = (consumed - base) % CounterMod
      BY DEF RingInv, Counters
    <2>3. (head + (i - 1)) % CounterMod = ((consumed - base) + (i - 1)) % CounterMod
      BY <2>1, <2>2, Advance
    <2>4. head \in Int
      BY CounterAssumption DEF RingInv, TypeOK, Counter
    <2>5. /\ head + (i - 1) = head + i - 1
          /\ (consumed - base) + (i - 1) = (consumed + i - 1) - base
          /\ (consumed + i - 1) - base \in Int
      BY <2>1, <2>4, Positions
    <2>6. ((head + i - 1) % CounterMod) % Cap = ((consumed + i - 1) - base) % Cap
      BY <2>3, <2>5, CounterSlot
    <2>. QED
      BY <2>1, <2>6 DEF RingInv, Published
  <1>. QED
    BY <1>1, <1>2 DEF Contents, Stream

(* The same after a step.                                                  *)
LEMMA ContentsAfter ==
    ASSUME Aligned
    PROVE  (RingInv => Contents = Stream(consumed, produced - consumed))'
  BY ContentsAreStream, PTL

(* Every step of the ring is a step of the FIFO or leaves it alone: the    *)
(* store that ends a write or a read is the whole operation, the copies    *)
(* before it are invisible.                                                *)
LEMMA FifoStep ==
    ASSUME Aligned, RingInv, RingInv', [Next]_vars
    PROVE  [Abstract!FifoNext]_(Abstract!fifoVars)
  <1>. DEFINE n == produced - consumed
  <1>1. /\ Contents = Stream(consumed, n) /\ n \in 0..Cap
        /\ n = produced - consumed /\ produced \in Nat /\ consumed \in Nat
    BY ContentsAreStream, Positions, CapAssumption
  <1>2. Contents' = Stream(consumed', produced' - consumed')
    BY ContentsAfter
  <1>. HIDE DEF n
  <1>3. CASE UNCHANGED <<produced, consumed, ret>>
    BY <1>1, <1>2, <1>3 DEF Abstract!fifoVars
  <1>4. CASE WriteEnd
    <2>1. /\ prod.n \in 1..Cap /\ produced + prod.n - consumed <= Cap
          /\ produced' = produced + prod.n /\ consumed' = consumed /\ ret' = ret
      BY <1>4, SMTT(30) DEF RingInv, WriteEnd, Writing, TypeOK, Call
    <2>2. Contents' = Contents \o Stream(produced, prod.n)
      <3>1. produced' - consumed' = n + prod.n /\ produced = consumed + n
        BY <1>1, <2>1
      <3>2. Stream(consumed, n) \o Stream(consumed + n, prod.n) = Stream(consumed, n + prod.n)
        <4>1. consumed \in Int /\ n \in Nat /\ prod.n \in Nat
          BY <1>1, <2>1
        <4>. QED
          BY <4>1, StreamConcat
      <3>. QED
        BY <1>1, <1>2, <2>1, <3>1, <3>2
    <2>3. Len(Contents) = n /\ n + prod.n <= Cap
      BY <1>1, <2>1 DEF Stream
    <2>4. Abstract!Write(prod.n)
      BY <2>1, <2>2, <2>3 DEF Abstract!Write, Stream
    <2>. QED
      BY <2>1, <2>4 DEF Abstract!FifoNext
  <1>5. CASE ReadEnd \/ PeekEnd
    <2>. DEFINE m == cons.n
    <2>1. /\ m \in 1..Cap /\ m \in 0..n
          /\ cons.k = m /\ produced' = produced /\ ret' = Returned
      BY <1>1, <1>5, SMTT(30) DEF RingInv, ReadEnd, PeekEnd, Reading, TypeOK, Call
    <2>2. Returned = Stream(consumed, m)
      <3>1. ASSUME NEW i \in 1..m
            PROVE  dst[i - 1] = consumed + i - 1
        <4>1. i - 1 \in 0..(cons.k - 1) /\ consumed + (i - 1) = consumed + i - 1
          BY <2>1
        <4>. QED
          BY <1>5, <4>1 DEF RingInv, Reading, ReadEnd, PeekEnd
      <3>. QED
        BY <3>1 DEF Returned, Stream
    <2>. HIDE DEF m
    <2>3. /\ Len(Contents) = n
          /\ Stream(consumed, m) = SubSeq(Contents, 1, m)
          /\ Stream(consumed + m, n - m) = SubSeq(Contents, m + 1, n)
      <3>1. consumed \in Int /\ n \in Nat /\ m \in 0..n
        BY <1>1, <2>1
      <3>. QED
        BY <1>1, <3>1, StreamSplit
    <2>4. CASE ReadEnd
      <3>1. Contents' = SubSeq(Contents, m + 1, n)
        <4>1. consumed' = consumed + m /\ produced' - consumed' = n - m
          BY <1>1, <2>1, <2>4 DEF ReadEnd, m
        <4>. QED
          BY <1>2, <2>3, <4>1
      <3>2. Abstract!Read(m)
        BY <2>1, <2>2, <2>3, <3>1 DEF Abstract!Read
      <3>. QED
        BY <2>1, <3>2 DEF Abstract!FifoNext
    <2>5. CASE PeekEnd
      <3>1. Contents' = Contents
        BY <1>1, <1>2, <2>5 DEF PeekEnd
      <3>2. Abstract!Peek(m)
        BY <2>1, <2>2, <2>3, <3>1 DEF Abstract!Peek
      <3>. QED
        BY <2>1, <3>2 DEF Abstract!FifoNext
    <2>. QED
      BY <1>5, <2>4, <2>5
  <1>6. CASE Clear
    <2>1. consumed' = produced /\ produced' = produced /\ ret' = ret /\ produced - produced = 0
      BY <1>6, Positions DEF Clear
    <2>2. Contents' = <<>>
      BY <1>2, <2>1 DEF Stream
    <2>. QED
      BY <2>1, <2>2 DEF Abstract!FifoNext, Abstract!Clear
  <1>7. CASE Install \/ UNCHANGED vars
    BY <1>3, <1>7 DEF Install, vars
  <1>8. CASE Producer
    BY <1>3, <1>4, <1>8 DEF Producer, WriteBegin, WriteByte
  <1>9. CASE Consumer
    BY <1>3, <1>5, <1>9 DEF Consumer, ReadBegin, ReadByte
  <1>. QED
    BY <1>6, <1>7, <1>8, <1>9 DEF Next

(* The ring, whose two ends are suspended anywhere inside their copies,    *)
(* implements the bounded FIFO queue with atomic operations, for every     *)
(* capacity that divides the counter range.                                *)
THEOREM RingImplementsFifo ==
    ASSUME Aligned
    PROVE  Spec => ImplementsFifo
  <1>1. Init => Abstract!FifoInit
    <2>. SUFFICES ASSUME Init
                  PROVE  Abstract!FifoInit
      OBVIOUS
    <2>1. Contents = Stream(0, 0 - 0)
      BY RingInit, ContentsAreStream DEF Init
    <2>. QED
      BY <2>1 DEF Init, Abstract!FifoInit, Stream
  <1>2. RingInv /\ RingInv' /\ [Next]_vars => [Abstract!FifoNext]_(Abstract!fifoVars)
    BY FifoStep
  <1>. QED
    BY <1>1, <1>2, RingInvariance, PTL DEF Spec, ImplementsFifo, Abstract!FifoSpec
=============================================================================
