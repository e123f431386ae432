-------------------------- MODULE UdpSocketProofs --------------------------
(***************************************************************************)
(* The invariants of the UDP socket for every size of the rings, of the    *)
(* chip's buffers and of the scratch buffers and for any number of         *)
(* datagrams: what is received is framed and intact whatever fails on the  *)
(* bus, what is sent is framed and conserved if every payload the          *)
(* application sends fits the scratch buffers.                             *)
(***************************************************************************)
EXTENDS UdpSocket, FiniteSetTheorems, SequenceTheorems, TLAPS

-----------------------------------------------------------------------------
(* Pieces of sequences.                                                    *)

(* The smaller of two numbers.                                             *)
LEMMA MinPair ==
    ASSUME NEW a \in Int, NEW b \in Int
    PROVE  /\ Min({a, b}) \in Int
           /\ a <= b => Min({a, b}) = a
           /\ b <= a => Min({a, b}) = b
  <1>1. \E x \in {a, b} : \A y \in {a, b} : x =< y
    OBVIOUS
  <1>2. /\ Min({a, b}) \in {a, b}
        /\ \A y \in {a, b} : Min({a, b}) =< y
    BY <1>1, Zenon DEF Min
  <1>. QED
    BY <1>2

(* The first cells of a sequence: what read and peek of a ring return.     *)
LEMMA FrontCells ==
    ASSUME NEW S, NEW s \in Seq(S), NEW n \in Nat
    PROVE  /\ Front(s, n) \in Seq(S)
           /\ Len(Front(s, n)) <= n /\ Len(Front(s, n)) <= Len(s)
           /\ n <= Len(s) => Len(Front(s, n)) = n
           /\ n >= Len(s) => Front(s, n) = s
           /\ \A i \in 1..Len(Front(s, n)) : Front(s, n)[i] = s[i]
  <1>. DEFINE m == Min({n, Len(s)})
  <1>1. Len(s) \in Nat
    BY LenProperties
  <1>2. m \in 0..Len(s) /\ m <= n /\ (n <= Len(s) => m = n) /\ (n >= Len(s) => m = Len(s))
    BY <1>1, MinPair
  <1>. HIDE DEF m
  <1>3. \A i \in 1..m : s[i] \in S
    BY <1>1, <1>2, ElementOfSeq
  <1>4. /\ SubSeq(s, 1, m) \in Seq(S) /\ Len(SubSeq(s, 1, m)) = m
        /\ \A i \in 1..m : SubSeq(s, 1, m)[i] = s[i]
    BY <1>2, <1>3, SubSeqProperties
  <1>5. Front(s, n) = SubSeq(s, 1, m)
    BY DEF Front, m
  <1>6. SubSeq(s, 1, Len(s)) = s
    BY SubSeqFull
  <1>7. n >= Len(s) => Front(s, n) = s
    BY <1>2, <1>5, <1>6
  <1>8. Len(Front(s, n)) = m
    BY <1>4, <1>5
  <1>. QED
    BY <1>1, <1>2, <1>4, <1>5, <1>7, <1>8

(* What is left of a sequence without them.                                *)
LEMMA RestCells ==
    ASSUME NEW S, NEW s \in Seq(S), NEW n \in Nat
    PROVE  /\ Rest(s, n) \in Seq(S)
           /\ n <= Len(s) => Len(Rest(s, n)) = Len(s) - n
           /\ n >= Len(s) => Rest(s, n) = <<>>
           /\ Len(Rest(s, n)) <= Len(s)
           /\ \A i \in 1..Len(Rest(s, n)) : Rest(s, n)[i] = s[n + i]
  <1>1. Len(s) \in Nat
    BY LenProperties
  <1>2. \A i \in (n + 1)..Len(s) : s[i] \in S
    BY <1>1, ElementOfSeq
  <1>3. n + 1 \in Int /\ Len(s) \in Int
    BY <1>1
  <1>4. /\ SubSeq(s, n + 1, Len(s)) \in Seq(S)
        /\ Len(SubSeq(s, n + 1, Len(s))) = IF n + 1 <= Len(s) THEN Len(s) - (n + 1) + 1 ELSE 0
        /\ \A i \in 1..(Len(s) - (n + 1) + 1) : SubSeq(s, n + 1, Len(s))[i] = s[(n + 1) + i - 1]
    BY <1>2, <1>3, SubSeqProperties
  <1>5. n >= Len(s) => SubSeq(s, n + 1, Len(s)) = <<>>
    BY <1>1, SubSeqEmpty
  <1>6. Rest(s, n) = SubSeq(s, n + 1, Len(s))
    BY DEF Rest
  <1>. HIDE DEF Rest
  <1>7. Len(Rest(s, n)) <= Len(s)
    BY <1>1, <1>4, <1>6
  <1>8. n >= Len(s) => Rest(s, n) = <<>>
    BY <1>5, <1>6
  <1>9. n <= Len(s) => Len(Rest(s, n)) = Len(s) - n
    BY <1>1, <1>4, <1>6
  <1>10. ASSUME NEW i \in 1..Len(Rest(s, n)) PROVE Rest(s, n)[i] = s[n + i]
    <2>1. i \in 1..(Len(s) - (n + 1) + 1) /\ (n + 1) + i - 1 = n + i
      BY <1>1, <1>4, <1>6
    <2>. QED
      BY <1>4, <1>6, <2>1
  <1>. QED
    BY <1>4, <1>6, <1>7, <1>8, <1>9, <1>10

(* The cells of two sequences one after the other.                         *)
LEMMA ConcatCells ==
    ASSUME NEW S, NEW a \in Seq(S), NEW b \in Seq(S)
    PROVE  /\ a \o b \in Seq(S) /\ Len(a \o b) = Len(a) + Len(b)
           /\ Len(a) \in Nat /\ Len(b) \in Nat
           /\ \A i \in 1..Len(a) : (a \o b)[i] = a[i]
           /\ \A i \in 1..Len(b) : (a \o b)[Len(a) + i] = b[i]
  <1>1. Len(a) \in Nat /\ Len(b) \in Nat
    BY LenProperties
  <1>2. /\ a \o b \in Seq(S) /\ Len(a \o b) = Len(a) + Len(b)
        /\ \A i \in 1 .. Len(a) + Len(b) : (a \o b)[i] =
                     IF i <= Len(a) THEN a[i] ELSE b[i - Len(a)]
    BY ConcatProperties
  <1>3. ASSUME NEW i \in 1..Len(b) PROVE (a \o b)[Len(a) + i] = b[i]
    <2>1. Len(a) + i \in 1..Len(a) + Len(b) /\ ~(Len(a) + i <= Len(a)) /\ Len(a) + i - Len(a) = i
      BY <1>1
    <2>. QED
      BY <1>2, <2>1
  <1>4. ASSUME NEW i \in 1..Len(a) PROVE (a \o b)[i] = a[i]
    <2>1. i \in 1..Len(a) + Len(b) /\ i <= Len(a)
      BY <1>1
    <2>. QED
      BY <1>2, <2>1
  <1>. QED
    BY <1>1, <1>2, <1>3, <1>4

(* A sequence is cut in two anywhere and put together again.               *)
LEMMA Cut ==
    ASSUME NEW S, NEW s \in Seq(S), NEW n \in 0..Len(s)
    PROVE  Front(s, n) \o Rest(s, n) = s
  <1>. DEFINE f == Front(s, n)
              r == Rest(s, n)
  <1>0. n \in Nat /\ Len(s) \in Nat
    BY LenProperties
  <1>1. /\ f \in Seq(S) /\ Len(f) = n /\ \A i \in 1..Len(f) : f[i] = s[i]
    BY <1>0, FrontCells
  <1>2. r \in Seq(S) /\ Len(r) = Len(s) - n /\ \A i \in 1..Len(r) : r[i] = s[n + i]
    BY <1>0, RestCells
  <1>. HIDE DEF f, r
  <1>3. /\ f \o r \in Seq(S) /\ Len(f \o r) = Len(s)
        /\ \A i \in 1..n : (f \o r)[i] = f[i]
        /\ \A i \in 1..(Len(s) - n) : (f \o r)[n + i] = r[i]
    <2>1. /\ f \o r \in Seq(S) /\ Len(f \o r) = Len(f) + Len(r)
          /\ \A i \in 1..Len(f) : (f \o r)[i] = f[i]
          /\ \A i \in 1..Len(r) : (f \o r)[Len(f) + i] = r[i]
      BY <1>1, <1>2, ConcatCells
    <2>2. Len(f) + Len(r) = Len(s)
      BY <1>0, <1>1, <1>2
    <2>. QED
      BY <1>1, <1>2, <2>1, <2>2
  <1>4. ASSUME NEW i \in 1..Len(s) PROVE (f \o r)[i] = s[i]
    <2>1. CASE i <= n
      BY <1>0, <1>1, <1>3, <2>1
    <2>2. CASE i > n
      <3>1. i - n \in 1..(Len(s) - n) /\ n + (i - n) = i
        BY <1>0, <2>2
      <3>. QED
        BY <1>2, <1>3, <3>1
    <2>3. i <= n \/ i > n
      BY <1>0
    <2>. QED
      BY <2>1, <2>2, <2>3
  <1>5. f \o r = s
    BY <1>3, <1>4, SeqEqual
  <1>. QED
    BY <1>5 DEF f, r

(* Taking cells from the first of two sequences.                           *)
LEMMA RestConcat ==
    ASSUME NEW S, NEW a \in Seq(S), NEW b \in Seq(S), NEW n \in 0..Len(a)
    PROVE  /\ Rest(a \o b, n) = Rest(a, n) \o b
           /\ Front(a \o b, n) = Front(a, n)
  <1>. DEFINE c == a \o b
              r == Rest(a, n)
  <1>0. n \in Nat /\ Len(a) \in Nat /\ Len(b) \in Nat
    BY LenProperties
  <1>1. /\ c \in Seq(S) /\ Len(c) = Len(a) + Len(b)
        /\ \A i \in 1..Len(a) : c[i] = a[i]
        /\ \A i \in 1..Len(b) : c[Len(a) + i] = b[i]
    BY ConcatCells
  <1>2. r \in Seq(S) /\ Len(r) = Len(a) - n /\ \A i \in 1..Len(r) : r[i] = a[n + i]
    BY <1>0, RestCells
  <1>. HIDE DEF c, r
  <1>3. /\ Rest(c, n) \in Seq(S) /\ Len(Rest(c, n)) = Len(a) + Len(b) - n
        /\ \A i \in 1..Len(Rest(c, n)) : Rest(c, n)[i] = c[n + i]
    <2>1. n <= Len(c) /\ Len(c) - n = Len(a) + Len(b) - n
      BY <1>0, <1>1
    <2>. QED
      BY <1>0, <1>1, <2>1, RestCells
  <1>4. /\ r \o b \in Seq(S) /\ Len(r \o b) = Len(a) - n + Len(b)
        /\ \A i \in 1..(Len(a) - n) : (r \o b)[i] = r[i]
        /\ \A i \in 1..Len(b) : (r \o b)[Len(a) - n + i] = b[i]
    <2>1. /\ r \o b \in Seq(S) /\ Len(r \o b) = Len(r) + Len(b)
          /\ \A i \in 1..Len(r) : (r \o b)[i] = r[i]
          /\ \A i \in 1..Len(b) : (r \o b)[Len(r) + i] = b[i]
      <3>1. r \in Seq(S) /\ b \in Seq(S)
        BY <1>2
      <3>. QED
        BY ONLY <3>1, ConcatCells
    <2>. QED
      BY <1>2, <2>1
  <1>5. ASSUME NEW i \in 1..(Len(a) + Len(b) - n) PROVE Rest(c, n)[i] = (r \o b)[i]
    <2>1. Rest(c, n)[i] = c[n + i]
      BY <1>3
    <2>2. CASE i <= Len(a) - n
      <3>1. n + i \in 1..Len(a) /\ i \in 1..(Len(a) - n)
        BY <1>0, <2>2
      <3>. QED
        BY <1>1, <1>2, <1>4, <2>1, <3>1
    <2>3. CASE i > Len(a) - n
      <3>. DEFINE j == i - (Len(a) - n)
      <3>1. j \in 1..Len(b) /\ n + i = Len(a) + j /\ Len(a) - n + j = i
        BY <1>0, <2>3
      <3>. HIDE DEF j
      <3>. QED
        BY <1>1, <1>4, <2>1, <3>1
    <2>4. i <= Len(a) - n \/ i > Len(a) - n
      BY <1>0
    <2>. QED
      BY <2>2, <2>3, <2>4
  <1>6. Rest(c, n) = r \o b
    <2>1. Len(Rest(c, n)) = Len(r \o b)
      BY <1>0, <1>3, <1>4
    <2>2. \A i \in 1..Len(Rest(c, n)) : Rest(c, n)[i] = (r \o b)[i]
      BY <1>3, <1>5
    <2>. QED
      BY <1>3, <1>4, <2>1, <2>2, SeqEqual
  <1>7. Front(c, n) = Front(a, n)
    <2>1. /\ Front(c, n) \in Seq(S) /\ Len(Front(c, n)) = n
          /\ \A i \in 1..Len(Front(c, n)) : Front(c, n)[i] = c[i]
      <3>1. n <= Len(c)
        BY <1>0, <1>1
      <3>. QED
        BY <1>0, <1>1, <3>1, FrontCells
    <2>2. /\ Front(a, n) \in Seq(S) /\ Len(Front(a, n)) = n
          /\ \A i \in 1..Len(Front(a, n)) : Front(a, n)[i] = a[i]
      BY <1>0, FrontCells
    <2>3. \A i \in 1..n : Front(c, n)[i] = Front(a, n)[i]
      BY <1>0, <1>1, <2>1, <2>2
    <2>. QED
      BY <2>1, <2>2, <2>3, SeqEqual
  <1>. QED
    BY <1>6, <1>7 DEF c, r

(* Taking cells twice.                                                     *)
LEMMA RestRest ==
    ASSUME NEW S, NEW s \in Seq(S), NEW m \in Nat, NEW n \in Nat, m + n <= Len(s)
    PROVE  Rest(Rest(s, m), n) = Rest(s, m + n)
  <1>. DEFINE r == Rest(s, m)
  <1>0. Len(s) \in Nat /\ m + n \in Nat /\ m <= Len(s)
    BY LenProperties
  <1>1. r \in Seq(S) /\ Len(r) = Len(s) - m /\ \A i \in 1..Len(r) : r[i] = s[m + i]
    BY <1>0, RestCells
  <1>. HIDE DEF r
  <1>2. /\ Rest(r, n) \in Seq(S) /\ Len(Rest(r, n)) = Len(s) - m - n
        /\ \A i \in 1..Len(Rest(r, n)) : Rest(r, n)[i] = r[n + i]
    <2>1. n <= Len(r) /\ Len(r) - n = Len(s) - m - n
      BY <1>0, <1>1
    <2>. QED
      BY <1>0, <1>1, <2>1, RestCells
  <1>3. /\ Rest(s, m + n) \in Seq(S) /\ Len(Rest(s, m + n)) = Len(s) - (m + n)
        /\ \A i \in 1..Len(Rest(s, m + n)) : Rest(s, m + n)[i] = s[(m + n) + i]
    BY <1>0, RestCells
  <1>4. ASSUME NEW i \in 1..Len(Rest(r, n)) PROVE Rest(r, n)[i] = Rest(s, m + n)[i]
    <2>1. n + i \in 1..Len(r) /\ m + (n + i) = (m + n) + i /\ i \in 1..Len(Rest(s, m + n))
      BY <1>0, <1>1, <1>2, <1>3, SMTT(30)
    <2>. QED
      BY <1>1, <1>2, <1>3, <2>1
  <1>5. Rest(r, n) = Rest(s, m + n)
    <2>1. Len(Rest(r, n)) = Len(Rest(s, m + n))
      BY <1>0, <1>2, <1>3
    <2>. QED
      BY <1>2, <1>3, <1>4, <2>1, SeqEqual
  <1>. QED
    BY <1>5 DEF r

-----------------------------------------------------------------------------
(* Frames.                                                                 *)

(* What a datagram is made of: its header, its payload, its frame.         *)
LEMMA FrameCells ==
    ASSUME NEW d \in DatagramType
    PROVE  /\ Size(d) \in Nat /\ Size(d) >= Hdr /\ d.len \in Nat /\ Hdr \in Nat \ {0}
           /\ Header(d) \in Seq(CellType) /\ Len(Header(d)) = Hdr
           /\ Payload(d) \in Seq(CellType) /\ Len(Payload(d)) = d.len
           /\ Frame(d) \in Seq(CellType) /\ Len(Frame(d)) = Size(d)
           /\ \A j \in 1..Size(d) : Frame(d)[j] = Cell(d, j)
  <1>0. /\ Hdr \in Nat \ {0} /\ d.len \in Nat /\ Size(d) \in Nat
        /\ Size(d) = Hdr + d.len
    BY HeaderAssumption DEF DatagramType, Size
  <1>1. /\ Header(d) \in Seq(CellType) /\ Len(Header(d)) = Hdr
        /\ \A j \in 1..Hdr : Header(d)[j] = Cell(d, j)
    BY <1>0 DEF Header, Cell, CellType
  <1>2. /\ Payload(d) \in Seq(CellType) /\ Len(Payload(d)) = d.len
        /\ \A j \in 1..d.len : Payload(d)[j] = Cell(d, Hdr + j)
    <2>1. \A j \in 1..d.len : Hdr + j \in Nat \ {0}
      BY <1>0
    <2>2. \A j \in 1..d.len : Cell(d, Hdr + j) \in CellType
      BY <2>1 DEF Cell, CellType
    <2>. QED
      BY <1>0, <2>2 DEF Payload
  <1>. DEFINE h == Header(d)
              p == Payload(d)
  <1>3. Frame(d) = h \o p
    BY DEF Frame
  <1>. HIDE DEF h, p
  <1>4. /\ h \o p \in Seq(CellType) /\ Len(h \o p) = Hdr + d.len
        /\ \A i \in 1..Hdr : (h \o p)[i] = h[i]
        /\ \A i \in 1..d.len : (h \o p)[Hdr + i] = p[i]
    <2>1. h \in Seq(CellType) /\ p \in Seq(CellType) /\ Len(h) = Hdr /\ Len(p) = d.len
      BY <1>1, <1>2 DEF h, p
    <2>2. /\ h \o p \in Seq(CellType) /\ Len(h \o p) = Len(h) + Len(p)
          /\ \A i \in 1..Len(h) : (h \o p)[i] = h[i]
          /\ \A i \in 1..Len(p) : (h \o p)[Len(h) + i] = p[i]
      <3>1. h \in Seq(CellType) /\ p \in Seq(CellType)
        BY <2>1
      <3>. QED
        BY ONLY <3>1, ConcatCells
    <2>. QED
      BY <2>1, <2>2
  <1>5. ASSUME NEW j \in 1..Size(d) PROVE (h \o p)[j] = Cell(d, j)
    <2>1. CASE j <= Hdr
      BY <1>0, <1>1, <1>4, <2>1 DEF h
    <2>2. CASE j > Hdr
      <3>1. j - Hdr \in 1..d.len /\ Hdr + (j - Hdr) = j
        BY <1>0, <2>2
      <3>. QED
        BY <1>2, <1>4, <3>1 DEF p
    <2>3. j <= Hdr \/ j > Hdr
      BY <1>0
    <2>. QED
      BY <2>1, <2>2, <2>3
  <1>. QED
    BY <1>0, <1>1, <1>2, <1>3, <1>4, <1>5

(* A cell has a datagram and a position.                                   *)
LEMMA CellParts ==
    ASSUME NEW s \in Seq(CellType), NEW k \in 1..Len(s)
    PROVE  /\ s[k].d \in DatagramType /\ s[k].d.id \in Nat /\ s[k].d.len \in Nat
           /\ s[k].pos \in Nat \ {0} /\ Size(s[k].d) \in Nat
  <1>1. s[k] \in CellType
    BY ElementOfSeq
  <1>2. s[k].d \in DatagramType /\ s[k].pos \in Nat \ {0}
    BY <1>1 DEF CellType
  <1>. QED
    BY <1>2, FrameCells DEF DatagramType

(* A header that is there is read as it was written.                       *)
LEMMA ParseFrame ==
    ASSUME NEW s \in Seq(CellType), NEW d \in DatagramType, Hdr <= Len(s),
           \A j \in 1..Hdr : s[j] = Cell(d, j)
    PROVE  ParseHeader(s) = d
  <1>1. Hdr \in Nat \ {0} /\ Len(s) \in Nat
    BY HeaderAssumption, LenProperties
  <1>2. s[1].d = d
    <2>1. 1 \in 1..Hdr
      BY <1>1
    <2>2. s[1] = Cell(d, 1)
      BY <2>1
    <2>. QED
      BY <2>2 DEF Cell
  <1>3. /\ Front(s, Hdr) \in Seq(CellType) /\ Len(Front(s, Hdr)) = Hdr
        /\ \A i \in 1..Len(Front(s, Hdr)) : Front(s, Hdr)[i] = s[i]
    BY <1>1, FrontCells
  <1>4. /\ Header(d) \in Seq(CellType) /\ Len(Header(d)) = Hdr
        /\ \A j \in 1..Hdr : Header(d)[j] = Cell(d, j)
    BY <1>1, FrameCells DEF Header
  <1>5. Front(s, Hdr) = Header(d)
    <2>1. \A i \in 1..Len(Front(s, Hdr)) : Front(s, Hdr)[i] = Header(d)[i]
      BY <1>3, <1>4
    <2>. QED
      BY <1>3, <1>4, <2>1, SeqEqual
  <1>. QED
    BY <1>1, <1>2, <1>5 DEF ParseHeader

(* Whatever is read as a header is a datagram, that of the first cell or   *)
(* Nobody.                                                                 *)
LEMMA ParseType ==
    ASSUME NEW s \in Seq(CellType)
    PROVE  /\ ParseHeader(s) \in DatagramType
           /\ ParseHeader(s) = Nobody \/ (s # <<>> /\ ParseHeader(s) = s[1].d)
  <1>1. Nobody \in DatagramType
    BY DEF Nobody, Datagram, DatagramType
  <1>2. CASE Len(s) >= Hdr
    <2>1. 1 \in 1..Len(s) /\ s # <<>>
      BY <1>2, HeaderAssumption, LenProperties, EmptySeq
    <2>2. s[1].d \in DatagramType
      BY <2>1, CellParts
    <2>. QED
      BY <1>1, <2>1, <2>2 DEF ParseHeader
  <1>3. CASE ~(Len(s) >= Hdr)
    BY <1>1, <1>3 DEF ParseHeader
  <1>. QED
    BY <1>2, <1>3

(* A framed sequence begins with a whole frame.                            *)
LEMMA FramedFirst ==
    ASSUME NEW s \in Seq(CellType), Framed(s), s # <<>>
    PROVE  /\ s[1].d \in DatagramType /\ s[1].pos = 1
           /\ Size(s[1].d) <= Len(s)
           /\ \A j \in 1..Size(s[1].d) : s[j] = Cell(s[1].d, j)
  <1>1. 1 \in 1..Len(s)
    BY EmptySeq
  <1>2. s[1].d \in DatagramType /\ s[1].pos \in Nat \ {0} /\ Size(s[1].d) \in Nat
    BY <1>1, CellParts
  <1>3. /\ 1 - s[1].pos >= 0 /\ (1 - s[1].pos) + Size(s[1].d) <= Len(s)
        /\ \A j \in 1..Size(s[1].d) : s[(1 - s[1].pos) + j] = Cell(s[1].d, j)
    BY <1>1 DEF Framed
  <1>4. s[1].pos = 1 /\ 1 - s[1].pos = 0
    BY <1>2, <1>3
  <1>5. Len(s) \in Nat
    BY LenProperties
  <1>6. \A j \in 1..Size(s[1].d) : s[j] = Cell(s[1].d, j)
    <2>1. \A j \in 1..Size(s[1].d) : (1 - s[1].pos) + j = j
      BY <1>2, <1>4
    <2>. QED
      BY <1>3, <2>1
  <1>. QED
    BY <1>2, <1>3, <1>4, <1>5, <1>6

(* A frame written behind whole frames.                                    *)
LEMMA FramedAppend ==
    ASSUME NEW s \in Seq(CellType), NEW d \in DatagramType, Framed(s)
    PROVE  Framed(s \o Frame(d))
  <1>. DEFINE f == Frame(d)
              t == s \o f
  <1>1. /\ f \in Seq(CellType) /\ Len(f) = Size(d) /\ Size(d) \in Nat
        /\ \A j \in 1..Size(d) : f[j] = Cell(d, j)
    BY FrameCells
  <1>. HIDE DEF f
  <1>2. /\ t \in Seq(CellType) /\ Len(t) = Len(s) + Size(d) /\ Len(s) \in Nat
        /\ \A i \in 1..Len(s) : t[i] = s[i]
        /\ \A i \in 1..Size(d) : t[Len(s) + i] = f[i]
    <2>1. s \in Seq(CellType) /\ f \in Seq(CellType)
      BY <1>1
    <2>2. /\ s \o f \in Seq(CellType) /\ Len(s \o f) = Len(s) + Len(f) /\ Len(s) \in Nat
          /\ \A i \in 1..Len(s) : (s \o f)[i] = s[i]
          /\ \A i \in 1..Len(f) : (s \o f)[Len(s) + i] = f[i]
      BY ONLY <2>1, ConcatCells
    <2>. QED
      BY <1>1, <2>2
  <1>. HIDE DEF t
  <1>3. ASSUME NEW k \in 1..Len(t)
        PROVE  LET e == t[k].d
                   b == k - t[k].pos
               IN /\ t[k].pos <= Size(e)
                  /\ b >= 0 /\ b + Size(e) <= Len(t)
                  /\ \A j \in 1..Size(e) : t[b + j] = Cell(e, j)
    <2>1. CASE k <= Len(s)
      <3>1. k \in 1..Len(s) /\ t[k] = s[k]
        BY <1>2, <2>1
      <3>. DEFINE e == s[k].d
                  b == k - s[k].pos
      <3>2. /\ s[k].pos <= Size(e) /\ b >= 0 /\ b + Size(e) <= Len(s)
            /\ \A j \in 1..Size(e) : s[b + j] = Cell(e, j)
        BY <3>1 DEF Framed
      <3>3. s[k].pos \in Nat \ {0} /\ Size(e) \in Nat
        BY <3>1, CellParts
      <3>4. b \in Nat
        BY <3>2, <3>3
      <3>. HIDE DEF e, b
      <3>5. b + Size(e) <= Len(t)
        BY <1>1, <1>2, <3>2, <3>3, <3>4
      <3>6. ASSUME NEW j \in 1..Size(e) PROVE t[b + j] = Cell(e, j)
        <4>1. b + j \in 1..Len(s)
          BY <1>2, <3>2, <3>3, <3>4
        <4>. QED
          BY <1>2, <3>2, <4>1
      <3>. QED
        BY <3>1, <3>2, <3>5, <3>6 DEF e, b
    <2>2. CASE k > Len(s)
      <3>. DEFINE i == k - Len(s)
      <3>1. i \in 1..Size(d) /\ k = Len(s) + i
        BY <1>1, <1>2, <2>2
      <3>2. t[k] = Cell(d, i)
        BY <1>1, <1>2, <3>1
      <3>3. t[k].d = d /\ t[k].pos = i
        BY <3>2 DEF Cell
      <3>4. k - i = Len(s) /\ i <= Size(d) /\ Len(s) >= 0 /\ Len(s) + Size(d) <= Len(t)
        BY <1>1, <1>2, <3>1
      <3>5. \A j \in 1..Size(d) : t[Len(s) + j] = Cell(d, j)
        BY <1>1, <1>2
      <3>. HIDE DEF i
      <3>. QED
        BY <3>3, <3>4, <3>5
    <2>3. k <= Len(s) \/ k > Len(s)
      BY <1>2
    <2>. QED
      BY <2>1, <2>2, <2>3
  <1>4. Framed(t)
    BY <1>3 DEF Framed
  <1>. QED
    BY <1>4 DEF t, f

(* Whole frames without the first one.                                     *)
LEMMA FramedRest ==
    ASSUME NEW s \in Seq(CellType), Framed(s), s # <<>>
    PROVE  Framed(Rest(s, Size(s[1].d)))
  <1>. DEFINE n == Size(s[1].d)
              t == Rest(s, n)
  <1>1. /\ s[1].d \in DatagramType /\ n <= Len(s)
        /\ \A j \in 1..n : s[j] = Cell(s[1].d, j)
    BY FramedFirst
  <1>2. n \in Nat /\ Len(s) \in Nat
    BY <1>1, FrameCells, LenProperties
  <1>. HIDE DEF n
  <1>3. t \in Seq(CellType) /\ Len(t) = Len(s) - n /\ \A i \in 1..Len(t) : t[i] = s[n + i]
    BY <1>1, <1>2, RestCells
  <1>. HIDE DEF t
  <1>4. ASSUME NEW k \in 1..Len(t)
        PROVE  LET e == t[k].d
                   b == k - t[k].pos
               IN /\ t[k].pos <= Size(e)
                  /\ b >= 0 /\ b + Size(e) <= Len(t)
                  /\ \A j \in 1..Size(e) : t[b + j] = Cell(e, j)
    <2>. DEFINE e == s[n + k].d
                p == s[n + k].pos
                b == (n + k) - p
    <2>1. n + k \in 1..Len(s) /\ t[k] = s[n + k]
      BY <1>2, <1>3
    <2>2. /\ p <= Size(e) /\ b >= 0 /\ b + Size(e) <= Len(s)
          /\ \A j \in 1..Size(e) : s[b + j] = Cell(e, j)
      <3>. DEFINE i == n + k
      <3>. HIDE DEF i
      <3>1. /\ s[i].pos <= Size(s[i].d) /\ i - s[i].pos >= 0
            /\ (i - s[i].pos) + Size(s[i].d) <= Len(s)
            /\ \A j \in 1..Size(s[i].d) : s[(i - s[i].pos) + j] = Cell(s[i].d, j)
        BY <2>1 DEF Framed, i
      <3>. QED
        BY <3>1, Zenon DEF i
    <2>3. p \in Nat \ {0} /\ Size(e) \in Nat /\ e \in DatagramType
      BY <2>1, CellParts
    <2>4. b \in Nat
      BY <1>2, <2>2, <2>3
    <2>5. b >= n
      <3>. SUFFICES ASSUME b < n PROVE FALSE
        BY <1>2, <2>4
      <3>0. (n + k) - p = b
        OBVIOUS
      <3>. HIDE DEF b, p, e
      <3>1. b + 1 \in 1..n /\ 1 \in 1..Size(e)
        BY <1>2, <2>2, <2>3, <2>4
      <3>2. s[b + 1] = Cell(e, 1) /\ s[b + 1] = Cell(s[1].d, b + 1)
        BY <1>1, <2>2, <3>1
      <3>3. b + 1 = 1 /\ e = s[1].d
        BY <3>2 DEF Cell
      <3>4. b = 0
        BY <2>4, <3>3
      <3>5. n + k = p /\ p <= n
        BY <1>2, <2>2, <2>3, <3>0, <3>3, <3>4 DEF n
      <3>. QED
        BY <1>2, <3>5
    <2>6. k - p = b - n
      BY <1>2, <2>3
    <2>. HIDE DEF e, p, b
    <2>7. b - n >= 0 /\ (b - n) + Size(e) <= Len(t)
      BY <1>2, <1>3, <2>2, <2>3, <2>4, <2>5
    <2>8. ASSUME NEW j \in 1..Size(e) PROVE t[(b - n) + j] = Cell(e, j)
      <3>1. (b - n) + j \in 1..Len(t) /\ n + ((b - n) + j) = b + j
        BY <1>2, <1>3, <2>2, <2>3, <2>4, <2>5
      <3>. QED
        BY <1>3, <2>2, <3>1
    <2>. QED
      BY <2>1, <2>2, <2>6, <2>7, <2>8 DEF e, p
  <1>5. Framed(t)
    BY <1>4 DEF Framed
  <1>. QED
    BY <1>5 DEF t, n

(* A frame begins at finitely many cells.                                  *)
LEMMA StartsFinite ==
    ASSUME NEW s \in Seq(CellType)
    PROVE  IsFiniteSet(Starts(s)) /\ Cardinality(Starts(s)) \in Nat
  <1>1. Len(s) \in Nat
    BY LenProperties
  <1>2. IsFiniteSet(1..Len(s))
    BY <1>1, FS_Interval
  <1>3. Starts(s) \in SUBSET (1..Len(s))
    BY DEF Starts
  <1>4. IsFiniteSet(Starts(s))
    BY <1>2, <1>3, FS_Subset
  <1>. QED
    BY <1>4, FS_CardinalityType

(* A frame that is written adds one to the number of frames.               *)
LEMMA WholeAppend ==
    ASSUME NEW s \in Seq(CellType), NEW d \in DatagramType, NEW n, Whole(s, n)
    PROVE  Whole(s \o Frame(d), n + 1)
  <1>. DEFINE f == Frame(d)
              t == s \o f
  <1>1. /\ f \in Seq(CellType) /\ Len(f) = Size(d) /\ Size(d) \in Nat /\ Size(d) >= 1
        /\ \A j \in 1..Size(d) : f[j] = Cell(d, j)
    <2>1. Size(d) \in Nat /\ Size(d) >= Hdr /\ Hdr \in Nat \ {0}
      BY FrameCells
    <2>2. Size(d) >= 1
      BY <2>1
    <2>. QED
      BY <2>2, FrameCells
  <1>. HIDE DEF f
  <1>2. /\ t \in Seq(CellType) /\ Len(t) = Len(s) + Size(d) /\ Len(s) \in Nat
        /\ \A i \in 1..Len(s) : t[i] = s[i]
        /\ \A i \in 1..Size(d) : t[Len(s) + i] = f[i]
    <2>1. s \in Seq(CellType) /\ f \in Seq(CellType)
      BY <1>1
    <2>2. /\ s \o f \in Seq(CellType) /\ Len(s \o f) = Len(s) + Len(f) /\ Len(s) \in Nat
          /\ \A i \in 1..Len(s) : (s \o f)[i] = s[i]
          /\ \A i \in 1..Len(f) : (s \o f)[Len(s) + i] = f[i]
      BY ONLY <2>1, ConcatCells
    <2>. QED
      BY <1>1, <2>2
  <1>. HIDE DEF t
  <1>3. Starts(t) = Starts(s) \cup {Len(s) + 1}
    <2>1. ASSUME NEW k \in 1..Len(t), k > Len(s)
          PROVE  t[k].pos = k - Len(s)
      <3>. DEFINE i == k - Len(s)
      <3>1. i \in 1..Size(d) /\ Len(s) + i = k
        BY <1>1, <1>2, <2>1
      <3>. HIDE DEF i
      <3>2. t[k] = Cell(d, i)
        BY <1>1, <1>2, <3>1
      <3>3. t[k].pos = i
        BY <3>2 DEF Cell
      <3>. QED
        BY <3>3 DEF i
    <2>2. ASSUME NEW k \in Starts(t) PROVE k \in Starts(s) \cup {Len(s) + 1}
      <3>1. k \in 1..Len(t) /\ t[k].pos = 1
        BY DEF Starts
      <3>2. CASE k <= Len(s)
        <4>1. k \in 1..Len(s)
          BY <1>2, <3>1, <3>2
        <4>. QED
          BY <1>2, <3>1, <4>1 DEF Starts
      <3>3. CASE k > Len(s)
        <4>1. 1 = k - Len(s)
          BY <2>1, <3>1, <3>3
        <4>2. k = Len(s) + 1
          BY <1>2, <3>1, <4>1
        <4>. QED
          BY <4>2
      <3>4. k <= Len(s) \/ k > Len(s)
        BY <1>2, <3>1
      <3>. QED
        BY <3>2, <3>3, <3>4
    <2>3. Len(s) + 1 \in Starts(t)
      <3>1. Len(s) + 1 \in 1..Len(t) /\ Len(s) + 1 > Len(s) /\ (Len(s) + 1) - Len(s) = 1
        BY <1>1, <1>2
      <3>2. t[Len(s) + 1].pos = 1
        BY <2>1, <3>1
      <3>. QED
        BY <3>1, <3>2 DEF Starts
    <2>4. ASSUME NEW k \in Starts(s) PROVE k \in Starts(t)
      <3>1. k \in 1..Len(s) /\ s[k].pos = 1 /\ k \in 1..Len(t)
        BY <1>1, <1>2 DEF Starts
      <3>. QED
        BY <1>2, <3>1 DEF Starts
    <2>. QED
      BY <2>2, <2>3, <2>4
  <1>4. Len(s) + 1 \notin Starts(s)
    BY <1>2 DEF Starts
  <1>5. IsFiniteSet(Starts(s)) /\ n = Cardinality(Starts(s))
    BY StartsFinite DEF Whole
  <1>6. Cardinality(Starts(t)) = n + 1
    BY <1>3, <1>4, <1>5, FS_AddElement
  <1>7. Framed(t)
    BY FramedAppend DEF Whole, t, f
  <1>. QED
    BY <1>6, <1>7 DEF Whole, t, f

(* If frames are counted the first one is there, and taking it leaves one  *)
(* less.                                                                   *)
LEMMA WholeFirst ==
    ASSUME NEW s \in Seq(CellType), NEW n \in Int, n > 0, Whole(s, n)
    PROVE  /\ s # <<>> /\ s[1].d \in DatagramType /\ s[1].pos = 1
           /\ Size(s[1].d) <= Len(s)
           /\ \A j \in 1..Size(s[1].d) : s[j] = Cell(s[1].d, j)
           /\ ParseHeader(s) = s[1].d
           /\ Whole(Rest(s, Size(s[1].d)), n - 1)
  <1>1. Framed(s) /\ n = Cardinality(Starts(s))
    BY DEF Whole
  <1>2. s # <<>>
    <2>. SUFFICES ASSUME s = <<>> PROVE FALSE
      OBVIOUS
    <2>1. Starts(s) = {}
      BY DEF Starts
    <2>. QED
      BY <1>1, <2>1, FS_EmptySet
  <1>. DEFINE d == s[1].d
              m == Size(d)
              t == Rest(s, m)
  <1>3. /\ d \in DatagramType /\ s[1].pos = 1 /\ m <= Len(s)
        /\ \A j \in 1..m : s[j] = Cell(d, j)
    BY <1>1, <1>2, FramedFirst
  <1>4. m \in Nat /\ Hdr \in Nat \ {0} /\ Hdr <= m /\ Len(s) \in Nat
    BY <1>3, FrameCells, LenProperties
  <1>. HIDE DEF d, m
  <1>5. ParseHeader(s) = d
    <2>1. \A j \in 1..Hdr : s[j] = Cell(d, j)
      BY <1>3, <1>4
    <2>2. Hdr <= Len(s)
      BY <1>3, <1>4
    <2>. QED
      BY <1>3, <2>1, <2>2, ParseFrame
  <1>6. t \in Seq(CellType) /\ Len(t) = Len(s) - m /\ \A i \in 1..Len(t) : t[i] = s[m + i]
    BY <1>3, <1>4, RestCells
  <1>. HIDE DEF t
  <1>7. Framed(t)
    BY <1>1, <1>2, FramedRest DEF t, m, d
  <1>8. Cardinality(Starts(t)) = n - 1
    <2>. DEFINE g == [k \in Starts(t) |-> m + k]
                U == Starts(s) \ {1}
    <2>0. Starts(t) \subseteq Int
      BY <1>6 DEF Starts
    <2>1. ASSUME NEW k \in Starts(t) PROVE m + k \in U
      <3>1. k \in 1..Len(t) /\ t[k].pos = 1
        BY DEF Starts
      <3>2. m + k \in 1..Len(s) /\ m + k # 1
        BY <1>4, <1>6, <3>1
      <3>3. s[m + k].pos = 1
        BY <1>6, <3>1
      <3>. QED
        BY <3>2, <3>3 DEF Starts
    <2>2. ASSUME NEW k \in U PROVE \E i \in Starts(t) : m + i = k
      <3>1. k \in 1..Len(s) /\ s[k].pos = 1 /\ k # 1
        BY DEF Starts
      <3>2. k > m
        <4>. SUFFICES ASSUME k \in 1..m PROVE FALSE
          BY <1>4, <3>1
        <4>1. s[k] = Cell(d, k)
          BY <1>3
        <4>2. s[k].pos = k
          BY <4>1 DEF Cell
        <4>. QED
          BY <3>1, <4>2
      <3>. DEFINE i == k - m
      <3>3. i \in 1..Len(t) /\ m + i = k
        BY <1>4, <1>6, <3>1, <3>2
      <3>. HIDE DEF i
      <3>4. t[i].pos = 1
        BY <1>6, <3>1, <3>3
      <3>. QED
        BY <3>3, <3>4 DEF Starts
    <2>3. g \in [Starts(t) -> U]
      BY <2>1
    <2>4. \A k, i \in Starts(t) : g[k] = g[i] => k = i
      BY <1>4, <2>0
    <2>5. \A k \in U : \E i \in Starts(t) : g[i] = k
      BY <2>2
    <2>. HIDE DEF g
    <2>6. ExistsBijection(Starts(t), U)
      BY <2>3, <2>4, <2>5 DEF ExistsBijection, Bijection, Injection, Surjection, IsInjective
    <2>7. Cardinality(U) = Cardinality(Starts(t))
      BY <1>6, <2>6, StartsFinite, FS_Bijection
    <2>8. 1 \in Starts(s)
      BY <1>2, <1>3, EmptySeq DEF Starts
    <2>9. Cardinality(U) = Cardinality(Starts(s)) - 1
      BY <2>8, StartsFinite, FS_RemoveElement
    <2>. QED
      BY <1>1, <2>7, <2>9
  <1>9. Whole(t, n - 1)
    BY <1>7, <1>8 DEF Whole
  <1>. QED
    BY <1>2, <1>3, <1>5, <1>9 DEF t, m, d

(* Nothing is no frames, and the number of frames is a number.             *)
LEMMA WholeNone == Whole(<<>>, 0)
  <1>1. Starts(<<>>) = {}
    BY DEF Starts
  <1>2. Cardinality(Starts(<<>>)) = 0
    BY <1>1, FS_EmptySet
  <1>3. Framed(<<>>)
    BY DEF Framed
  <1>. QED
    BY <1>2, <1>3 DEF Whole

LEMMA WholeCount ==
    ASSUME NEW s \in Seq(CellType), NEW n, Whole(s, n)
    PROVE  n \in Nat
  BY StartsFinite DEF Whole

-----------------------------------------------------------------------------
(* Rings and pointers.                                                     *)

(* What the ring keeps of a write: no more than fits, and all that fits.   *)
LEMMA RingWriteKeeps ==
    ASSUME NEW s \in Seq(CellType), NEW t \in Seq(CellType), Len(s) <= RingCap
    PROVE  /\ RingWrite(s, t) \in Seq(CellType)
           /\ Len(RingWrite(s, t)) <= RingCap
           /\ Len(t) <= Free(s) => RingWrite(s, t) = s \o t
  <1>1. Len(s) \in Nat /\ Len(t) \in Nat /\ RingCap \in Nat /\ Free(s) \in Nat
        /\ Free(s) = RingCap - Len(s)
    BY LenProperties, SizesAssumption DEF Free
  <1>. DEFINE f == Front(t, Free(s))
  <1>2. /\ f \in Seq(CellType) /\ Len(f) <= Free(s)
        /\ Len(t) <= Free(s) => f = t
    BY <1>1, FrontCells
  <1>. HIDE DEF f
  <1>3. s \o f \in Seq(CellType) /\ Len(s \o f) = Len(s) + Len(f) /\ Len(f) \in Nat
    BY <1>2, ConcatCells
  <1>4. Len(s \o f) <= RingCap
    BY <1>1, <1>2, <1>3
  <1>5. RingWrite(s, t) = s \o f
    BY DEF RingWrite, f
  <1>. QED
    BY <1>2, <1>3, <1>4, <1>5

(* What % does near the modulus, for Sn_RX_RD.                             *)
LEMMA ModNear ==
    ASSUME NEW m \in Nat \ {0}, NEW a \in Int
    PROVE  /\ a % m \in 0..(m - 1)
           /\ 0 <= a /\ a < m => a % m = a
           /\ m <= a /\ a < m + m => a % m = a - m
           /\ a < 0 /\ -m <= a => a % m = a + m
  <1>. DEFINE q == a \div m
              r == a % m
  <1>1. r \in 0..(m - 1) /\ q \in Int /\ a = m * q + r
    OBVIOUS
  <1>. HIDE DEF q, r
  <1>2. /\ q >= 2 => m * q >= m + m
        /\ q <= -2 => m * q <= -(m + m)
        /\ m * 0 = 0 /\ m * 1 = m /\ m * (-1) = -m
    <2>1. ASSUME NEW z \in Int PROVE m * z >= 0 <=> z >= 0
      OBVIOUS
    <2>2. m * (q - 2) = m * q - (m + m) /\ m * (-2 - q) = -(m + m) - m * q
      BY <1>1
    <2>3. q >= 2 => m * (q - 2) >= 0
      BY <1>1, <2>1
    <2>4. q <= -2 => m * (-2 - q) >= 0
      BY <1>1, <2>1
    <2>5. m * q \in Int /\ m * 0 = 0 /\ m * 1 = m /\ m * (-1) = -m
      BY <1>1
    <2>. QED
      BY <2>2, <2>3, <2>4, <2>5
  <1>3. \/ q >= 2 \/ q <= -2
        \/ q = 0 \/ q = 1 \/ q = -1
    BY <1>1
  <1>. DEFINE x == m * q
  <1>4. /\ x \in Int /\ a = x + r
        /\ x >= m + m \/ x <= -(m + m) \/ x = 0 \/ x = m \/ x = -m
    BY <1>1, <1>2, <1>3
  <1>. HIDE DEF x
  <1>5. /\ 0 <= a /\ a < m => r = a
        /\ m <= a /\ a < m + m => r = a - m
        /\ a < 0 /\ -m <= a => r = a + m
    BY <1>1, <1>4
  <1>. QED
    BY <1>1, <1>5 DEF r

(* The pointer advanced by n frees n bytes.                                *)
LEMMA PointerMove ==
    ASSUME NEW p \in 0..(PtrMod - 1), NEW n \in Nat, n < PtrMod
    PROVE  /\ (p + n) % PtrMod \in 0..(PtrMod - 1)
           /\ (((p + n) % PtrMod) - p) % PtrMod = n
           /\ \A h, l \in Nat : h + l = n =>
                (((p + h) % PtrMod) + l) % PtrMod = (p + n) % PtrMod
  <1>1. PtrMod \in Nat \ {0} /\ p + n \in Int
    BY PointerAssumption, SizesAssumption
  <1>. DEFINE x == (p + n) % PtrMod
  <1>2. (x = p + n /\ p + n < PtrMod) \/ (x = (p + n) - PtrMod /\ p + n >= PtrMod)
    <2>. DEFINE a == p + n
    <2>1. a \in Int /\ 0 <= a /\ a < PtrMod + PtrMod /\ (a < PtrMod \/ PtrMod <= a)
      BY <1>1
    <2>. HIDE DEF a
    <2>2. (a % PtrMod = a /\ a < PtrMod) \/ (a % PtrMod = a - PtrMod /\ a >= PtrMod)
      <3>1. CASE a < PtrMod
        <4>1. a % PtrMod = a
          BY <1>1, <2>1, <3>1, ModNear
        <4>. QED
          BY <3>1, <4>1
      <3>2. CASE PtrMod <= a
        BY <1>1, <2>1, <3>2, ModNear
      <3>. QED
        BY <2>1, <3>1, <3>2
    <2>. QED
      BY <2>2 DEF a
  <1>3. x \in 0..(PtrMod - 1)
    BY <1>1, ModNear
  <1>. HIDE DEF x
  <1>4. (x - p) % PtrMod = n
    <2>1. CASE x - p = n
      BY <1>1, <2>1, ModNear
    <2>2. CASE x - p = n - PtrMod
      <3>1. x - p < 0 /\ -PtrMod <= x - p /\ (x - p) + PtrMod = n /\ x - p \in Int
        BY <1>1, <2>2
      <3>. DEFINE y == x - p
      <3>. HIDE DEF y
      <3>2. y \in Int /\ y < 0 /\ -PtrMod <= y
        BY <3>1 DEF y
      <3>3. y % PtrMod = y + PtrMod
        BY <1>1, <3>2, ModNear
      <3>. QED
        BY <3>1, <3>3 DEF y
    <2>. QED
      BY <1>1, <1>2, <1>3, <2>1, <2>2
  <1>5. ASSUME NEW h \in Nat, NEW l \in Nat, h + l = n
        PROVE  (((p + h) % PtrMod) + l) % PtrMod = x
    <2>. DEFINE y == (p + h) % PtrMod
    <2>0. p + h \in Int /\ p + h < PtrMod + PtrMod /\ 0 <= p + h
      BY <1>1, <1>5
    <2>1. (y = p + h /\ p + h < PtrMod) \/ (y = (p + h) - PtrMod /\ p + h >= PtrMod)
      <3>. DEFINE a == p + h
      <3>1. a \in Int /\ 0 <= a /\ a < PtrMod + PtrMod /\ (a < PtrMod \/ PtrMod <= a)
        BY <1>1, <2>0
      <3>. HIDE DEF a
      <3>2. (a % PtrMod = a /\ a < PtrMod) \/ (a % PtrMod = a - PtrMod /\ a >= PtrMod)
        <4>1. CASE a < PtrMod
          <5>1. a % PtrMod = a
            BY <1>1, <3>1, <4>1, ModNear
          <5>. QED
            BY <4>1, <5>1
        <4>2. CASE PtrMod <= a
          BY <1>1, <3>1, <4>2, ModNear
        <4>. QED
          BY <3>1, <4>1, <4>2
      <3>. QED
        BY <3>2 DEF a
    <2>2. y \in 0..(PtrMod - 1)
      BY <1>1, <2>0, ModNear
    <2>. HIDE DEF y
    <2>. DEFINE z == y + l
    <2>3. /\ z \in Int /\ 0 <= z /\ z < PtrMod + PtrMod
          /\ (z = x /\ z < PtrMod) \/ z = x + PtrMod
      BY <1>1, <1>2, <1>3, <1>5, <2>1, <2>2
    <2>. HIDE DEF z
    <2>4. z % PtrMod = x
      BY <1>1, <1>3, <2>3, ModNear
    <2>. QED
      BY <2>4 DEF z, y
  <1>. QED
    BY <1>3, <1>4, <1>5 DEF x

-----------------------------------------------------------------------------
(* Order.                                                                  *)

(* Cells taken out of a sequence leave the others in order.                *)
LEMMA OrderOfSome ==
    ASSUME NEW ids, NEW s \in Seq(CellType), NEW t \in Seq(CellType), InOrder(ids, s),
           NEW m \in [1..Len(t) -> 1..Len(s)],
           \A k \in 1..Len(t) : t[k] = s[m[k]],
           \A j, k \in 1..Len(t) : j < k => m[j] < m[k]
    PROVE  InOrder(ids, t)
  <1>1. ASSUME NEW k \in Starts(t)
        PROVE  /\ \A i \in 1..Len(ids) : ids[i] < t[k].d.id
               /\ \A j \in 1..(k - 1) : t[j].d.id < t[k].d.id
    <2>1. k \in 1..Len(t) /\ m[k] \in 1..Len(s) /\ t[k] = s[m[k]]
      BY DEF Starts
    <2>2. m[k] \in Starts(s)
      BY <2>1 DEF Starts
    <2>3. /\ \A i \in 1..Len(ids) : ids[i] < s[m[k]].d.id
          /\ \A j \in 1..(m[k] - 1) : s[j].d.id < s[m[k]].d.id
      BY <2>2 DEF InOrder
    <2>4. ASSUME NEW j \in 1..(k - 1) PROVE t[j].d.id < t[k].d.id
      <3>1. j \in 1..Len(t) /\ j < k
        BY <2>1, LenProperties
      <3>2. m[j] \in 1..Len(s) /\ m[j] < m[k] /\ t[j] = s[m[j]]
        BY <2>1, <3>1
      <3>3. m[j] \in 1..(m[k] - 1)
        BY <2>1, <3>2, LenProperties
      <3>. QED
        BY <2>1, <2>3, <3>2, <3>3
    <2>. QED
      BY <2>1, <2>3, <2>4
  <1>. QED
    BY <1>1 DEF InOrder

(* In particular a piece cut out, from the front or from the middle.       *)
LEMMA OrderDrop ==
    ASSUME NEW ids, NEW a \in Seq(CellType), NEW b \in Seq(CellType), NEW c \in Seq(CellType),
           InOrder(ids, a \o (b \o c))
    PROVE  InOrder(ids, a \o c)
  <1>. DEFINE u == b \o c
              s == a \o u
              t == a \o c
              x == Len(a)
              y == Len(b)
              z == Len(c)
  <1>1. /\ u \in Seq(CellType) /\ Len(u) = y + z /\ y \in Nat /\ z \in Nat
        /\ \A i \in 1..z : u[y + i] = c[i]
    BY ConcatCells
  <1>. HIDE DEF u
  <1>2. /\ s \in Seq(CellType) /\ Len(s) = x + Len(u) /\ x \in Nat
        /\ \A i \in 1..x : s[i] = a[i]
        /\ \A i \in 1..Len(u) : s[x + i] = u[i]
    <2>1. u \in Seq(CellType)
      BY <1>1
    <2>. QED
      BY <2>1, ConcatCells
  <1>3. /\ t \in Seq(CellType) /\ Len(t) = x + z
        /\ \A i \in 1..x : t[i] = a[i]
        /\ \A i \in 1..z : t[x + i] = c[i]
    BY ConcatCells
  <1>4. InOrder(ids, s)
    BY DEF s, u
  <1>. HIDE DEF s, t, x, y, z
  <1>. DEFINE m == [k \in 1..Len(t) |-> IF k <= x THEN k ELSE k + y]
  <1>5. m \in [1..Len(t) -> 1..Len(s)]
    BY <1>1, <1>2, <1>3
  <1>6. ASSUME NEW j \in 1..Len(t), NEW k \in 1..Len(t), j < k PROVE m[j] < m[k]
    <2>1. j \in Nat /\ k \in Nat
      BY <1>1, <1>2, <1>3
    <2>2. m[j] = (IF j <= x THEN j ELSE j + y) /\ m[k] = (IF k <= x THEN k ELSE k + y)
      OBVIOUS
    <2>. HIDE DEF m
    <2>. QED
      BY <1>1, <1>2, <1>6, <2>1, <2>2
  <1>7. ASSUME NEW k \in 1..Len(t) PROVE t[k] = s[m[k]]
    <2>1. CASE k <= x
      <3>1. k \in 1..x /\ m[k] = k
        BY <1>2, <1>3, <2>1
      <3>. QED
        BY <1>2, <1>3, <3>1
    <2>2. CASE k > x
      <3>. DEFINE i == k - x
      <3>1. i \in 1..z /\ k = x + i /\ m[k] = x + (y + i) /\ y + i \in 1..Len(u)
        BY <1>1, <1>2, <1>3, <2>2
      <3>. HIDE DEF i, m
      <3>2. t[k] = c[i]
        BY <1>3, <3>1
      <3>3. s[x + (y + i)] = u[y + i]
        BY <1>2, <3>1
      <3>. QED
        BY <1>1, <3>1, <3>2, <3>3
    <2>3. k <= x \/ k > x
      BY <1>2, <1>3
    <2>. QED
      BY <2>1, <2>2, <2>3
  <1>. HIDE DEF m
  <1>8. InOrder(ids, t)
    BY <1>2, <1>3, <1>4, <1>5, <1>6, <1>7, OrderOfSome
  <1>. QED
    BY <1>8 DEF t

(* The first n cells read.                                                 *)
LEMMA OrderRest ==
    ASSUME NEW ids, NEW s \in Seq(CellType), NEW n \in 0..Len(s), InOrder(ids, s)
    PROVE  InOrder(ids, Rest(s, n))
  <1>. DEFINE t == Rest(s, n)
              m == [k \in 1..Len(t) |-> n + k]
  <1>1. n \in Nat /\ Len(s) \in Nat
    BY LenProperties
  <1>2. t \in Seq(CellType) /\ Len(t) = Len(s) - n /\ \A i \in 1..Len(t) : t[i] = s[n + i]
    BY <1>1, RestCells
  <1>. HIDE DEF t
  <1>3. m \in [1..Len(t) -> 1..Len(s)]
    BY <1>1, <1>2
  <1>4. \A j, k \in 1..Len(t) : j < k => m[j] < m[k]
    BY <1>1, <1>2
  <1>5. \A k \in 1..Len(t) : t[k] = s[m[k]]
    BY <1>2
  <1>. HIDE DEF m
  <1>6. InOrder(ids, t)
    BY <1>2, <1>3, <1>4, <1>5, OrderOfSome
  <1>. QED
    BY <1>6 DEF t

(* Cells that begin at most one frame, a later one than all before.        *)
LEMMA OrderAppend ==
    ASSUME NEW ids, NEW s \in Seq(CellType), NEW t \in Seq(CellType), InOrder(ids, s),
           \A k \in Starts(t) :
             /\ k = 1
             /\ \A i \in 1..Len(ids) : ids[i] < t[k].d.id
             /\ \A j \in 1..Len(s) : s[j].d.id < t[k].d.id
    PROVE  InOrder(ids, s \o t)
  <1>. DEFINE u == s \o t
  <1>1. /\ u \in Seq(CellType) /\ Len(u) = Len(s) + Len(t) /\ Len(s) \in Nat /\ Len(t) \in Nat
        /\ \A i \in 1..Len(s) : u[i] = s[i]
        /\ \A i \in 1..Len(t) : u[Len(s) + i] = t[i]
    BY ConcatCells
  <1>. HIDE DEF u
  <1>2. ASSUME NEW k \in Starts(u)
        PROVE  /\ \A i \in 1..Len(ids) : ids[i] < u[k].d.id
               /\ \A j \in 1..(k - 1) : u[j].d.id < u[k].d.id
    <2>0. k \in 1..Len(u) /\ u[k].pos = 1
      BY DEF Starts
    <2>1. CASE k <= Len(s)
      <3>1. k \in 1..Len(s) /\ u[k] = s[k]
        BY <1>1, <2>0, <2>1
      <3>2. k \in Starts(s)
        BY <2>0, <3>1 DEF Starts
      <3>3. /\ \A i \in 1..Len(ids) : ids[i] < s[k].d.id
            /\ \A j \in 1..(k - 1) : s[j].d.id < s[k].d.id
        BY <3>2 DEF InOrder
      <3>4. \A j \in 1..(k - 1) : j \in 1..Len(s)
        BY <1>1, <3>1
      <3>. QED
        BY <1>1, <3>1, <3>3, <3>4
    <2>2. CASE k > Len(s)
      <3>. DEFINE i == k - Len(s)
      <3>1. i \in 1..Len(t) /\ k = Len(s) + i
        BY <1>1, <2>0, <2>2
      <3>. HIDE DEF i
      <3>2. u[k] = t[i]
        BY <1>1, <3>1
      <3>3. i \in Starts(t)
        BY <2>0, <3>1, <3>2 DEF Starts
      <3>4. i = 1 /\ k - 1 = Len(s)
        BY <1>1, <3>1, <3>3
      <3>. QED
        BY <1>1, <3>2, <3>3, <3>4
    <2>3. k <= Len(s) \/ k > Len(s)
      BY <1>1, <2>0
    <2>. QED
      BY <2>1, <2>2, <2>3
  <1>3. InOrder(ids, u)
    BY <1>2 DEF InOrder
  <1>. QED
    BY <1>3 DEF u

(* The first datagram taken out of the cells is the next one in order.     *)
LEMMA OrderTake ==
    ASSUME NEW ids \in Seq(Nat), NEW s \in Seq(CellType), NEW n \in 1..Len(s),
           InOrder(ids, s), s[1].pos = 1
    PROVE  InOrder(Append(ids, s[1].d.id), Rest(s, n))
  <1>. DEFINE x == s[1].d.id
              w == Append(ids, x)
              t == Rest(s, n)
  <1>1. n \in Nat /\ n >= 1 /\ Len(s) \in Nat /\ Len(ids) \in Nat /\ 1 \in 1..Len(s)
    BY LenProperties
  <1>2. x \in Nat /\ 1 \in Starts(s)
    BY <1>1, CellParts DEF Starts
  <1>3. /\ \A i, j \in 1..Len(ids) : i < j => ids[i] < ids[j]
        /\ \A i \in 1..Len(ids) : ids[i] < x
        /\ \A k \in Starts(s) :
             /\ \A i \in 1..Len(ids) : ids[i] < s[k].d.id
             /\ \A j \in 1..(k - 1) : s[j].d.id < s[k].d.id
    BY <1>2 DEF InOrder
  <1>. HIDE DEF x
  <1>4. /\ Len(w) = Len(ids) + 1 /\ w[Len(ids) + 1] = x
        /\ \A i \in 1..Len(ids) : w[i] = ids[i]
    BY <1>2, AppendProperties
  <1>. HIDE DEF w
  <1>5. t \in Seq(CellType) /\ Len(t) = Len(s) - n /\ \A i \in 1..Len(t) : t[i] = s[n + i]
    BY <1>1, RestCells
  <1>. HIDE DEF t
  <1>6. ASSUME NEW i \in 1..Len(w), NEW j \in 1..Len(w), i < j PROVE w[i] < w[j]
    <2>1. i \in 1..Len(ids) /\ (j \in 1..Len(ids) \/ j = Len(ids) + 1)
      BY <1>1, <1>4, <1>6, SMTT(30)
    <2>. QED
      BY <1>3, <1>4, <1>6, <2>1
  <1>7. ASSUME NEW k \in Starts(t)
        PROVE  /\ \A i \in 1..Len(w) : w[i] < t[k].d.id
               /\ \A j \in 1..(k - 1) : t[j].d.id < t[k].d.id
    <2>1. k \in 1..Len(t) /\ t[k].pos = 1 /\ t[k] = s[n + k] /\ n + k \in 1..Len(s)
      BY <1>1, <1>5 DEF Starts
    <2>2. n + k \in Starts(s)
      BY <2>1 DEF Starts
    <2>3. /\ \A i \in 1..Len(ids) : ids[i] < t[k].d.id
          /\ \A j \in 1..(n + k - 1) : s[j].d.id < t[k].d.id
      BY <1>3, <2>1, <2>2
    <2>4. x < t[k].d.id
      <3>1. 1 \in 1..(n + k - 1)
        BY <1>1, <1>5, <2>1
      <3>. QED
        BY <2>3, <3>1 DEF x
    <2>5. ASSUME NEW i \in 1..Len(w) PROVE w[i] < t[k].d.id
      <3>1. i \in 1..Len(ids) \/ i = Len(ids) + 1
        BY <1>1, <1>4
      <3>. QED
        BY <1>4, <2>3, <2>4, <3>1
    <2>6. ASSUME NEW j \in 1..(k - 1) PROVE t[j].d.id < t[k].d.id
      <3>1. j \in 1..Len(t) /\ n + j \in 1..(n + k - 1)
        BY <1>1, <1>5, <2>1
      <3>. QED
        BY <1>5, <2>3, <3>1
    <2>. QED
      BY <2>5, <2>6
  <1>8. InOrder(w, t)
    BY <1>6, <1>7 DEF InOrder
  <1>. QED
    BY <1>8 DEF w, t, x

(* A datagram that is forgotten leaves the others in order.                *)
LEMMA OrderForget ==
    ASSUME NEW a \in Seq(Nat), NEW b \in Seq(Nat), NEW c \in Seq(Nat), NEW s,
           InOrder(a \o (b \o c), s)
    PROVE  InOrder(a \o c, s)
  <1>. DEFINE u == b \o c
              v == a \o u
              t == a \o c
              x == Len(a)
              y == Len(b)
              z == Len(c)
  <1>1. /\ u \in Seq(Nat) /\ Len(u) = y + z /\ y \in Nat /\ z \in Nat
        /\ \A i \in 1..z : u[y + i] = c[i]
    BY ConcatCells
  <1>. HIDE DEF u
  <1>2. /\ v \in Seq(Nat) /\ Len(v) = x + Len(u) /\ x \in Nat
        /\ \A i \in 1..x : v[i] = a[i]
        /\ \A i \in 1..Len(u) : v[x + i] = u[i]
    <2>1. u \in Seq(Nat)
      BY <1>1
    <2>. QED
      BY <2>1, ConcatCells
  <1>3. /\ t \in Seq(Nat) /\ Len(t) = x + z
        /\ \A i \in 1..x : t[i] = a[i]
        /\ \A i \in 1..z : t[x + i] = c[i]
    BY ConcatCells
  <1>4. /\ \A i, j \in 1..Len(v) : i < j => v[i] < v[j]
        /\ \A k \in Starts(s) :
             /\ \A i \in 1..Len(v) : v[i] < s[k].d.id
             /\ \A j \in 1..(k - 1) : s[j].d.id < s[k].d.id
    BY DEF InOrder, v, u
  <1>. HIDE DEF v, t, x, y, z
  <1>. DEFINE m == [k \in 1..Len(t) |-> IF k <= x THEN k ELSE k + y]
  <1>5. m \in [1..Len(t) -> 1..Len(v)]
    BY <1>1, <1>2, <1>3, SMTT(30)
  <1>6. ASSUME NEW j \in 1..Len(t), NEW k \in 1..Len(t), j < k PROVE m[j] < m[k]
    <2>1. j \in Nat /\ k \in Nat
      BY <1>1, <1>2, <1>3
    <2>2. m[j] = (IF j <= x THEN j ELSE j + y) /\ m[k] = (IF k <= x THEN k ELSE k + y)
      OBVIOUS
    <2>. HIDE DEF m
    <2>. QED
      BY <1>1, <1>2, <1>6, <2>1, <2>2
  <1>7. ASSUME NEW k \in 1..Len(t) PROVE t[k] = v[m[k]]
    <2>1. CASE k <= x
      <3>1. k \in 1..x /\ m[k] = k
        BY <1>2, <1>3, <2>1
      <3>. QED
        BY <1>2, <1>3, <3>1
    <2>2. CASE k > x
      <3>. DEFINE i == k - x
      <3>1. i \in 1..z /\ k = x + i /\ m[k] = x + (y + i) /\ y + i \in 1..Len(u)
        BY <1>1, <1>2, <1>3, <2>2
      <3>. HIDE DEF i, m
      <3>2. t[k] = c[i]
        BY <1>3, <3>1
      <3>3. v[x + (y + i)] = u[y + i]
        BY <1>2, <3>1
      <3>. QED
        BY <1>1, <3>1, <3>2, <3>3
    <2>3. k <= x \/ k > x
      BY <1>2, <1>3
    <2>. QED
      BY <2>1, <2>2, <2>3
  <1>. HIDE DEF m
  <1>8. /\ \A i, j \in 1..Len(t) : i < j => t[i] < t[j]
        /\ \A k \in Starts(s) : \A i \in 1..Len(t) : t[i] < s[k].d.id
    BY <1>4, <1>5, <1>6, <1>7, ZenonT(30)
  <1>9. InOrder(t, s)
    BY <1>4, <1>8 DEF InOrder
  <1>. QED
    BY <1>9 DEF t

-----------------------------------------------------------------------------
(* The steps, and what they leave alone.                                   *)

\* The received data, and the data to send.
rxView == <<rx, rxFrames, chipRx, rd, arriving, sent, got, goneIn>>
txView == <<tx, txFrames, dst, chipTx, wire, fsr, accepted, peerGot, goneOut>>

\* The parts of TypeOK.
ControlType ==
    /\ st \in Status \cup {"Free"}
    /\ err \in BOOLEAN /\ close \in BOOLEAN /\ release \in BOOLEAN /\ timeout \in BOOLEAN
    /\ link \in BOOLEAN /\ pc \in {"idle", "service", "run", "tx"}
    /\ sr \in {"Closed", "Udp"} /\ cr \in {"none", "OPEN", "CLOSE"}
    /\ faults \in 0..MaxFaults /\ upsets \in 0..MaxUpsets

BulkType ==
    bulk \in [kind : {"None", "ReceiveDatagram", "Transmit"}, d : DatagramType,
              data : Seq(CellType), pointer : 0..(PtrMod - 1)]

CallType ==
    call \in [op : {"none", "recv", "header", "payload"}, d : DatagramType,
              dst : Nat, left : Nat, data : Seq(CellType)]

RxType ==
    /\ rx \in Seq(CellType) /\ Len(rx) <= RingCap /\ rxFrames \in Nat
    /\ chipRx \in Seq(CellType) /\ arriving \in Seq(CellType)
    /\ Len(chipRx) + Len(arriving) <= RxCap /\ rd \in 0..(PtrMod - 1)
    /\ got \in Seq(MessageType)
    /\ sent \in Seq([id : Nat, len : InLens]) /\ Len(sent) <= MaxIn

TxType ==
    /\ tx \in Seq(CellType) /\ Len(tx) <= RingCap /\ txFrames \in Nat
    /\ dst \in DatagramType /\ chipTx \in Seq(CellType) /\ fsr \in Nat
    /\ wire \in Seq(MessageType) /\ peerGot \in Seq(MessageType)
    /\ accepted \in Seq([id : Nat, len : OutLens]) /\ Len(accepted) <= MaxOut

LEMMA TypeParts == TypeOK <=> ControlType /\ BulkType /\ CallType /\ RxType /\ TxType
  BY DEF TypeOK, ControlType, BulkType, CallType, RxType, TxType

\* The steps that move no data.
Quiet ==
    \/ Close \/ Drop \/ Service \/ HandleClose \/ HandleInit \/ HandleOpening
    \/ HandleClosing \/ RunIdle \/ ReceiveNone \/ TransmitNone \/ UNCHANGED vars

(* What these steps leave alone.                                           *)
LEMMA QuietKeeps == Quiet => UNCHANGED <<rxView, txView, bulk, call, faults>>
  <1>. USE DEF vars, rxView, txView, drvVars, rxVars, txVars, chipRxVars, chipTxVars,
               regVars, inVars, outVars, bounds
  <1>1. Close \/ Drop \/ Service \/ UNCHANGED vars => UNCHANGED <<rxView, txView, bulk, call, faults>>
    BY DEF Close, Drop, Service, Upset
  <1>2. HandleClose \/ HandleInit \/ HandleOpening \/ HandleClosing \/ RunIdle
          => UNCHANGED <<rxView, txView, bulk, call, faults>>
    BY DEF HandleClose, HandleInit, HandleOpening, HandleClosing, RunIdle, Answer
  <1>3. ReceiveNone \/ TransmitNone => UNCHANGED <<rxView, txView, bulk, call, faults>>
    BY DEF ReceiveNone, TransmitNone, ThenTransmit
  <1>. QED
    BY <1>1, <1>2, <1>3 DEF Quiet

(* Every step is one of these or moves data.                               *)
LEMMA NextCases ==
    ASSUME [Next]_vars
    PROVE  \/ Quiet
           \/ \E n \in InLens : \E k \in {1, Hdr, Hdr + n} : PeerSends(n, k)
           \/ PeerFinishes \/ ChipCommand
           \/ \E answered \in BOOLEAN : ChipSends(answered)
           \/ Open \/ Reconnect \/ LinkReset
           \/ \E n \in DstLens : RecvBegin(n)
           \/ RecvRead \/ RecvEnd
           \/ \E n \in OutLens : SendBegin(n)
           \/ SendPayload \/ SendCommit
           \/ ReceiveDrop \/ ReceiveEmpty \/ ReceiveStart \/ ReceiveFails
           \/ TransmitEmpty \/ TransmitStart
           \/ \E staged \in BOOLEAN : TransmitFails(staged)
           \/ \E ok \in BOOLEAN : DmaReceived(ok)
           \/ \E ok \in BOOLEAN : DmaSent(ok)
  BY Zenon DEF Next, Peer, Chip, RecvFrom, SendTo, Tick, DmaComplete, Quiet

(* A tick that moves no data ends in a proper status and command.          *)
LEMMA AnswerType ==
    ASSUME ControlType, NEW s \in Status \cup {"Free"},
           NEW c \in {"none", "OPEN", "CLOSE"}, Answer(s, c)
    PROVE  /\ st' \in Status \cup {"Free"} /\ cr' \in {"none", "OPEN", "CLOSE"}
           /\ release' \in BOOLEAN /\ err' \in BOOLEAN
           /\ sr' \in {"Closed", "Udp"} /\ pc' = "idle" /\ cr' = c
           /\ st' = s \/ st' = "Free"
           /\ UNCHANGED <<link, bulk, call, faults, upsets>>
           /\ release' \/ st' = "Free" => release \/ s = "Free"
  <1>1. /\ st' \in Status \cup {"Free"} /\ cr' \in {"none", "OPEN", "CLOSE"}
        /\ sr' \in {"Closed", "Udp"} /\ pc' = "idle" /\ cr' = c
        /\ st' = s \/ st' = "Free"
        /\ UNCHANGED <<link, bulk, call, faults, upsets>>
    BY DEF Answer, Settle, ControlType, bounds
  <1>2. release' \in BOOLEAN /\ (release' \/ st' = "Free" => release \/ s = "Free")
    BY Zenon DEF Answer, Settle, ControlType
  <1>3. err' \in BOOLEAN
    BY Zenon DEF Answer, ControlType
  <1>. QED
    BY <1>1, <1>2, <1>3

\* What the control part establishes at every step.
ControlPart == ControlType /\ Handlers /\ CallHeld

(* The ticks that only answer.                                             *)
LEMMA AnswerStep ==
    ASSUME RxInv, pc = "run",
           NEW s \in Status \cup {"Free"}, NEW c \in {"none", "OPEN", "CLOSE"}, Answer(s, c),
           s = "Free" => st = "Free", s = "Established" => c = "none",
           close' \in BOOLEAN, timeout' \in BOOLEAN
    PROVE  ControlPart'
  <1>1. ControlType /\ Handlers /\ CallHeld
    BY TypeParts DEF RxInv
  <1>2. /\ st' \in Status \cup {"Free"} /\ cr' \in {"none", "OPEN", "CLOSE"}
        /\ release' \in BOOLEAN /\ err' \in BOOLEAN
        /\ sr' \in {"Closed", "Udp"} /\ pc' = "idle" /\ cr' = c
        /\ st' = s \/ st' = "Free"
        /\ UNCHANGED <<link, bulk, call, faults, upsets>>
        /\ release' \/ st' = "Free" => release \/ s = "Free"
    BY <1>1, AnswerType
  <1>3. ControlType'
    BY <1>1, <1>2 DEF ControlType
  <1>4. bulk = NoBulk
    BY <1>1 DEF Handlers
  <1>5. Handlers'
    BY <1>2, <1>4 DEF Handlers
  <1>6. release' \/ st' = "Free" => call = NoCall
    BY <1>1, <1>2 DEF CallHeld
  <1>7. CallHeld'
    BY <1>1, <1>2, <1>6 DEF CallHeld
  <1>. QED
    BY <1>3, <1>5, <1>7 DEF ControlPart

(* Every step keeps status, flags, registers and the ownership of calls    *)
(* and transfers.                                                          *)
LEMMA ControlStep == RxInv /\ [Next]_vars => ControlPart'
  <1>. SUFFICES ASSUME RxInv, [Next]_vars PROVE ControlPart'
    OBVIOUS
  <1>0. ControlType /\ Handlers /\ CallHeld
    BY TypeParts DEF RxInv
  <1>. USE DEF Status, Closing, Terminal
  <1>1. CASE Close \/ Drop \/ Service \/ UNCHANGED vars
    <2>. USE DEF drvVars, regVars, bounds, Upset, ControlPart, ControlType, Handlers, CallHeld
    <2>1. CASE Close
      BY <1>0, <2>1, LimitsAssumption DEF Close, AppFree, AppRuns
    <2>2. CASE Drop
      BY <1>0, <2>2, LimitsAssumption DEF Drop, AppFree, AppRuns
    <2>3. CASE Service
      BY <1>0, <2>3 DEF Service
    <2>4. CASE UNCHANGED vars
      BY <1>0, <2>4 DEF vars
    <2>. QED
      BY <1>1, <2>1, <2>2, <2>3, <2>4
  <1>2. CASE HandleClose \/ HandleInit \/ HandleOpening \/ HandleClosing \/ RunIdle
    <2>0. close \in BOOLEAN /\ timeout \in BOOLEAN /\ cr \in {"none", "OPEN", "CLOSE"}
          /\ st \in Status \cup {"Free"}
      BY <1>0 DEF ControlType
    <2>1. CASE HandleClose
      <3>1. CASE st \in Closing \cup Terminal
        BY <2>0, <2>1, <3>1, AnswerStep DEF HandleClose
      <3>2. CASE st \notin Closing \cup Terminal
        BY <2>0, <2>1, <3>2, AnswerStep DEF HandleClose
      <3>. QED
        BY <3>1, <3>2
    <2>2. CASE HandleInit
      BY <2>0, <2>2, AnswerStep DEF HandleInit, Ticking, ClearInterrupts
    <2>3. CASE HandleOpening
      <3>1. CASE cr # "none" \/ sr = "Closed"
        BY <2>0, <2>3, <3>1, AnswerStep DEF HandleOpening, Ticking
      <3>2. CASE cr = "none" /\ sr = "Udp"
        BY <2>0, <2>3, <3>2, AnswerStep DEF HandleOpening, Ticking
      <3>3. sr \in {"Closed", "Udp"}
        BY <1>0 DEF ControlType
      <3>. QED
        BY <3>1, <3>2, <3>3
    <2>4. CASE HandleClosing
      BY <2>0, <2>4, AnswerStep DEF HandleClosing
    <2>5. CASE RunIdle
      BY <2>0, <2>5, AnswerStep DEF RunIdle
    <2>. QED
      BY <1>2, <2>1, <2>2, <2>3, <2>4, <2>5
  <1>. USE DEF drvVars, regVars, bounds
  <1>3. CASE ReceiveNone \/ ReceiveDrop \/ ReceiveEmpty \/ TransmitNone
    <2>. USE DEF ControlPart, ControlType, Handlers, CallHeld
    <2>1. CASE TransmitNone
      BY <1>0, <2>1 DEF TransmitNone, Transmitting
    <2>2. CASE ReceiveNone \/ ReceiveDrop \/ ReceiveEmpty
      <3>1. Receiving /\ ThenTransmit
        BY <2>2 DEF ReceiveNone, ReceiveDrop, ReceiveEmpty
      <3>. QED
        BY <1>0, <3>1 DEF Receiving, ThenTransmit, Ticking, ClearInterrupts
    <2>. QED
      BY <1>3, <2>1, <2>2
  <1>. USE DEF ControlPart, ControlType, Handlers, CallHeld, NoBulk, NoCall
  <1>4. CASE ReceiveStart
    <2>1. /\ pc = "run" /\ pc' = "idle" /\ st = "Established" /\ timeout' = FALSE
          /\ UNCHANGED <<st, close, release, link, call, sr, cr, faults, upsets>>
      BY <1>4 DEF ReceiveStart, Receiving, Ticking, ClearInterrupts
    <2>2. err' \in BOOLEAN
      BY <1>0, <1>4 DEF ReceiveStart
    <2>3. bulk = NoBulk
      BY <1>0, <2>1
    <2>4. bulk' = NoBulk \/ bulk'.kind = "ReceiveDatagram"
      BY <1>4, <2>3 DEF ReceiveStart
    <2>. QED
      BY <1>0, <2>1, <2>2, <2>4
  <1>5. CASE TransmitEmpty \/ TransmitStart \/ \E staged \in BOOLEAN : TransmitFails(staged)
    <2>1. CASE TransmitEmpty
      BY <1>0, <2>1 DEF TransmitEmpty, Transmitting
    <2>2. CASE TransmitStart
      <3>1. /\ pc = "tx" /\ pc' = "idle"
            /\ UNCHANGED <<st, close, release, link, call, sr, cr, timeout, faults, upsets>>
        BY <2>2 DEF TransmitStart, Transmitting
      <3>2. err' \in BOOLEAN
        BY <1>0, <2>2 DEF TransmitStart
      <3>3. bulk = NoBulk
        BY <1>0, <3>1
      <3>4. bulk' = NoBulk \/ bulk'.kind = "Transmit"
        BY <2>2, <3>3 DEF TransmitStart
      <3>. QED
        BY <1>0, <3>1, <3>2, <3>4
    <2>3. ASSUME NEW staged \in BOOLEAN, TransmitFails(staged) PROVE ControlPart'
      BY <1>0, <2>3, LimitsAssumption DEF TransmitFails, Transmitting
    <2>. QED
      BY <1>5, <2>1, <2>2, <2>3
  <1>6. CASE \E n \in InLens : \E k \in {1, Hdr, Hdr + n} : PeerSends(n, k)
    BY <1>0, <1>6 DEF PeerSends
  <1>7. CASE PeerFinishes
    BY <1>0, <1>7 DEF PeerFinishes
  <1>8. CASE ChipCommand
    BY <1>0, <1>8 DEF ChipCommand
  <1>9. ASSUME NEW answered \in BOOLEAN, ChipSends(answered) PROVE ControlPart'
    <2>1. timeout' \in BOOLEAN
      BY <1>0, <1>9, Zenon DEF ChipSends
    <2>. QED
      BY <1>0, <1>9, <2>1 DEF ChipSends
  <1>10. CASE Open
    BY <1>0, <1>10 DEF Open
  <1>11. CASE Reconnect
    <2>1. /\ st' = "Init" /\ err' = FALSE /\ close' = FALSE /\ call = NoCall
          /\ UNCHANGED <<release, link, bulk, pc, call, sr, cr, timeout, faults>>
      BY <1>11 DEF Reconnect, Upset, AppFree
    <2>2. upsets' \in 0..MaxUpsets
      BY <1>0, <1>11, LimitsAssumption DEF Reconnect, Upset
    <2>. QED
      BY <1>0, <2>1, <2>2
  <1>12. CASE LinkReset
    <2>1. /\ st' = (IF release \/ st = "Free" THEN "Free" ELSE "Init")
          /\ err' = FALSE /\ close' = FALSE /\ release' = FALSE
          /\ sr' = "Closed" /\ cr' = "none" /\ timeout' = FALSE
          /\ pc' = "idle" /\ link' = FALSE /\ UNCHANGED <<bulk, call, faults>>
      BY <1>12 DEF LinkReset, Upset
    <2>2. upsets' \in 0..MaxUpsets
      BY <1>0, <1>12, LimitsAssumption DEF LinkReset, Upset
    <2>. QED
      BY <1>0, <2>1, <2>2
  <1>13. CASE \E n \in DstLens : RecvBegin(n)
    BY <1>0, <1>13 DEF RecvBegin, AppFree, AppRuns
  <1>14. CASE RecvRead
    BY <1>0, <1>14 DEF RecvRead, AppRuns
  <1>15. CASE RecvEnd
    BY <1>0, <1>15 DEF RecvEnd, AppRuns
  <1>16. CASE \E n \in OutLens : SendBegin(n)
    BY <1>0, <1>16 DEF SendBegin, AppFree, AppRuns
  <1>17. CASE SendPayload
    BY <1>0, <1>17 DEF SendPayload, AppRuns
  <1>18. CASE SendCommit
    BY <1>0, <1>18 DEF SendCommit, AppRuns
  <1>19. ASSUME NEW ok \in BOOLEAN, Completing(ok) PROVE ControlPart'
    BY <1>0, <1>19, LimitsAssumption DEF Completing
  <1>20. ASSUME NEW ok \in BOOLEAN, DmaReceived(ok) \/ DmaSent(ok) PROVE Completing(ok)
    BY <1>20 DEF DmaReceived, DmaSent
  <1>21. CASE Quiet
    BY <1>1, <1>2, <1>3, <1>21 DEF Quiet
  <1>22. CASE ReceiveFails
    <2>1. /\ pc = "run" /\ pc' = "idle" /\ st = "Established"
          /\ timeout' = FALSE /\ err' = TRUE
          /\ UNCHANGED <<st, close, release, link, bulk, call, sr, cr, upsets>>
      BY <1>22 DEF ReceiveFails, Receiving, Ticking, ClearInterrupts
    <2>2. faults' \in 0..MaxFaults
      BY <1>0, <1>22, LimitsAssumption DEF ReceiveFails
    <2>. QED
      BY <1>0, <2>1, <2>2
  <1>. QED
    BY <1>3, <1>4, <1>5, <1>6, <1>7, <1>8, <1>9, <1>10, <1>11, <1>12, <1>13, <1>14,
       <1>15, <1>16, <1>17, <1>18, <1>19, <1>20, <1>21, <1>22, NextCases

-----------------------------------------------------------------------------
(* The way in.                                                             *)

\* What the way in establishes at every step.
RxPart == RxType /\ CallRecv /\ Received /\ InFlight /\ RxFramed /\ RxIntact

(* RxInv is these parts.                                                   *)
LEMMA RxInvParts ==
    RxInv <=> /\ ControlPart /\ RxPart
              /\ BulkType /\ CallType /\ TxType /\ Room /\ CallSend
  BY TypeParts DEF RxInv, ControlPart, RxPart

(* The end of a frame is what remains of it after its first cells.         *)
LEMMA Remains ==
    ASSUME NEW s \in Seq(CellType), NEW d \in DatagramType, NEW n \in Nat, n <= Size(d)
    PROVE  Front(s, n) = Rest(Frame(d), Size(d) - n)
             <=> /\ n <= Len(s)
                 /\ \A i \in 1..n : s[i] = Cell(d, (Size(d) - n) + i)
  <1>. DEFINE m == Size(d) - n
              f == Front(s, n)
              r == Rest(Frame(d), m)
  <1>1. Size(d) \in Nat /\ m \in Nat /\ m <= Size(d) /\ Size(d) - m = n /\ Len(s) \in Nat
    BY FrameCells, LenProperties
  <1>2. /\ Frame(d) \in Seq(CellType) /\ Len(Frame(d)) = Size(d)
        /\ \A j \in 1..Size(d) : Frame(d)[j] = Cell(d, j)
    BY FrameCells
  <1>. HIDE DEF m
  <1>3. /\ f \in Seq(CellType) /\ Len(f) <= Len(s) /\ (n <= Len(s) => Len(f) = n)
        /\ \A i \in 1..Len(f) : f[i] = s[i]
    BY FrontCells
  <1>4. /\ r \in Seq(CellType) /\ Len(r) = n /\ \A i \in 1..Len(r) : r[i] = Frame(d)[m + i]
    BY <1>1, <1>2, RestCells
  <1>5. \A i \in 1..n : r[i] = Cell(d, m + i)
    <2>1. \A i \in 1..n : m + i \in 1..Size(d)
      BY <1>1
    <2>. QED
      BY <1>2, <1>4, <2>1
  <1>. HIDE DEF f, r
  <1>6. ASSUME f = r PROVE n <= Len(s) /\ \A i \in 1..n : s[i] = Cell(d, m + i)
    BY <1>1, <1>3, <1>4, <1>5, <1>6
  <1>7. ASSUME n <= Len(s), \A i \in 1..n : s[i] = Cell(d, m + i) PROVE f = r
    <2>1. Len(f) = Len(r) /\ \A i \in 1..Len(f) : f[i] = r[i]
      BY <1>3, <1>4, <1>5, <1>7
    <2>. QED
      BY <1>3, <1>4, <2>1, SeqEqual
  <1>. QED
    BY <1>6, <1>7 DEF m, f, r

(* A recv_from in progress finds the rest of its frame in the ring.        *)
LEMMA RecvState ==
    ASSUME RxInv, call.op = "recv"
    PROVE  /\ call.d \in DatagramType /\ call.left \in Nat /\ call.left <= call.d.len
           /\ call.d.len \in Nat /\ Size(call.d) = Hdr + call.d.len /\ Hdr \in Nat
           /\ call.left <= Size(call.d) /\ call.left <= Len(rx) /\ Len(rx) \in Nat
           /\ \A i \in 1..call.left : rx[i] = Cell(call.d, (Size(call.d) - call.left) + i)
           /\ Whole(Rest(rx, call.left), rxFrames - 1)
  <1>1. CallType /\ RxType /\ CallRecv /\ RxFramed
    BY RxInvParts DEF RxPart
  <1>2. call.d \in DatagramType /\ call.left \in Nat /\ rx \in Seq(CellType) /\ Len(rx) \in Nat
    BY <1>1, LenProperties DEF CallType, RxType
  <1>3. call.left <= call.d.len
    BY <1>1 DEF CallRecv
  <1>4. call.d.len \in Nat /\ Size(call.d) = Hdr + call.d.len /\ Hdr \in Nat
    BY <1>2, FrameCells DEF Size
  <1>5. call.left <= Size(call.d)
    BY <1>2, <1>3, <1>4
  <1>6. /\ Front(rx, call.left) = Rest(Frame(call.d), Size(call.d) - call.left)
        /\ Whole(Rest(rx, call.left), rxFrames - 1)
    BY <1>1 DEF RxFramed
  <1>. QED
    BY <1>2, <1>3, <1>4, <1>5, <1>6, Remains

(* Steps that do not touch what is received.                               *)
LEMMA RxQuiet ==
    ASSUME RxInv, UNCHANGED rxView,
           call' = call \/ (call.op # "recv" /\ call'.op # "recv"),
           bulk' = bulk \/ bulk'.kind # "ReceiveDatagram"
    PROVE  RxPart'
  <1>0. RxPart
    BY RxInvParts
  <1>. USE DEF RxPart, rxView
  <1>1. RxType'
    BY <1>0 DEF RxType
  <1>2. CallRecv'
    BY <1>0 DEF CallRecv, ToCopy
  <1>3. Received'
    BY <1>0 DEF Received, OnChip
  <1>4. InFlight'
    BY <1>0 DEF InFlight
  <1>5. RxFramed'
    BY <1>0 DEF RxFramed
  <1>6. RxIntact'
    BY <1>0 DEF RxIntact
  <1>. QED
    BY <1>1, <1>2, <1>3, <1>4, <1>5, <1>6

(* The numbers of the datagrams sent.                                      *)
LEMMA SentIds ==
    ASSUME RxInv, NEW d \in InSeq(sent)
    PROVE  /\ d \in DatagramType /\ d.id \in 1..Len(sent) /\ sent[d.id] = d
           /\ d.len \in InLens
  <1>1. sent \in Seq([id : Nat, len : InLens]) /\ Received
    BY RxInvParts DEF RxPart, RxType
  <1>2. PICK i \in 1..Len(sent) : sent[i] = d
    BY DEF InSeq
  <1>3. d \in [id : Nat, len : InLens]
    BY <1>1, <1>2, ElementOfSeq
  <1>4. d.id = i
    BY <1>1, <1>2 DEF Received
  <1>5. d \in DatagramType
    BY <1>3, LensAssumption DEF DatagramType
  <1>. QED
    BY <1>2, <1>3, <1>4, <1>5

(* What was sent stays sent.                                               *)
LEMMA SentGrows ==
    ASSUME NEW S, NEW s \in Seq(S), NEW e \in S
    PROVE  InSeq(Append(s, e)) = InSeq(s) \cup {e}
  <1>. DEFINE t == Append(s, e)
  <1>1. /\ Len(t) = Len(s) + 1 /\ t[Len(s) + 1] = e /\ Len(s) \in Nat
        /\ \A i \in 1..Len(s) : t[i] = s[i]
    BY AppendProperties, LenProperties
  <1>. HIDE DEF t
  <1>2. 1..Len(t) = 1..Len(s) \cup {Len(s) + 1}
    BY <1>1
  <1>3. InSeq(t) = InSeq(s) \cup {e}
    BY <1>1, <1>2 DEF InSeq
  <1>. QED
    BY <1>3 DEF t

(* A datagram arrives, whole or in part.                                   *)
LEMMA RxPeerSends ==
    ASSUME RxInv, NEW n \in InLens, NEW k \in {1, Hdr, Hdr + n}, PeerSends(n, k)
    PROVE  /\ RxPart'
           /\ LET d == Datagram(Len(sent) + 1, n)
              IN /\ d \in DatagramType /\ OnChip' = OnChip \o Frame(d)
                 /\ InSeq(sent') = InSeq(sent) \cup {d}
                 /\ d.id = Len(sent) + 1
  <1>0. RxPart /\ CallType /\ BulkType
    BY RxInvParts
  <1>. DEFINE d == Datagram(Len(sent) + 1, n)
              f == Frame(d)
  <1>1. /\ rx \in Seq(CellType) /\ chipRx \in Seq(CellType) /\ Len(chipRx) \in Nat
        /\ sent \in Seq([id : Nat, len : InLens]) /\ Len(sent) \in Nat
    BY <1>0, LenProperties DEF RxPart, RxType
  <1>2. /\ arriving = <<>> /\ Len(sent) < MaxIn
        /\ Len(chipRx) + Size(d) <= RxCap /\ sent' = Append(sent, d)
        /\ chipRx' = chipRx \o Front(f, k) /\ arriving' = Rest(f, k)
        /\ UNCHANGED <<rx, rxFrames, rd, got, bulk, call>>
    BY DEF PeerSends, rxVars
  <1>3. n \in Nat /\ d \in DatagramType /\ d \in [id : Nat, len : InLens] /\ d.id = Len(sent) + 1
        /\ d.len = n
    BY <1>1, LensAssumption DEF Datagram, DatagramType
  <1>. HIDE DEF d
  <1>4. /\ f \in Seq(CellType) /\ Len(f) = Size(d) /\ Size(d) \in Nat
        /\ \A j \in 1..Size(d) : f[j] = Cell(d, j)
    BY <1>3, FrameCells
  <1>. HIDE DEF f
  <1>5. k \in 0..Len(f) /\ k \in Nat
    BY <1>3, <1>4, HeaderAssumption DEF Size
  <1>. DEFINE a == Front(f, k)
              b == Rest(f, k)
  <1>6. a \in Seq(CellType) /\ b \in Seq(CellType) /\ a \o b = f
    BY <1>4, <1>5, FrontCells, RestCells, Cut
  <1>7. Len(f) = Len(a) + Len(b) /\ Len(a) \in Nat /\ Len(b) \in Nat
    BY <1>6, ConcatCells
  <1>. HIDE DEF a, b
  <1>8. /\ chipRx \o a \in Seq(CellType) /\ Len(chipRx \o a) = Len(chipRx) + Len(a)
        /\ \A i \in 1..Len(chipRx) : (chipRx \o a)[i] = chipRx[i]
    BY <1>1, <1>6, ConcatCells
  <1>9. chipRx' = chipRx \o a /\ arriving' = b
    BY <1>2 DEF a, b
  <1>10. OnChip = chipRx /\ OnChip' = OnChip \o f
    <2>1. chipRx \o <<>> = chipRx
      BY <1>1, ConcatEmptySeq
    <2>2. (chipRx \o a) \o b = chipRx \o (a \o b)
      <3>1. chipRx \in Seq(CellType) /\ a \in Seq(CellType) /\ b \in Seq(CellType)
        BY <1>1, <1>6
      <3>. QED
        BY ONLY <3>1, ConcatAssociative
    <2>. QED
      BY <1>2, <1>6, <1>9, <2>1, <2>2 DEF OnChip
  <1>11. /\ sent' \in Seq([id : Nat, len : InLens]) /\ Len(sent') = Len(sent) + 1
         /\ sent'[Len(sent) + 1] = d /\ \A i \in 1..Len(sent) : sent'[i] = sent[i]
    BY <1>1, <1>2, <1>3, AppendProperties
  <1>12. InSeq(sent') = InSeq(sent) \cup {d}
    <2>. DEFINE T == [id : Nat, len : InLens]
    <2>1. sent \in Seq(T) /\ d \in T
      BY <1>1, <1>3
    <2>. HIDE DEF T
    <2>2. InSeq(Append(sent, d)) = InSeq(sent) \cup {d}
      BY ONLY <2>1, SentGrows
    <2>. QED
      BY <1>2, <2>2
  <1>13. RxType'
    <2>1. Len(chipRx') + Len(arriving') <= RxCap
      BY <1>1, <1>2, <1>4, <1>7, <1>8, <1>9, SizesAssumption
    <2>2. Len(sent') <= MaxIn
      BY <1>1, <1>2, <1>11, LimitsAssumption
    <2>. QED
      BY <1>0, <1>2, <1>6, <1>8, <1>9, <1>11, <2>1, <2>2 DEF RxPart, RxType
  <1>14. CallRecv'
    BY <1>0, <1>2, <1>12 DEF RxPart, CallRecv, ToCopy
  <1>15. Received'
    <2>1. \A i \in 1..Len(sent') : sent'[i].id = i
      <3>1. \A i \in 1..Len(sent') : i \in 1..Len(sent) \/ i = Len(sent) + 1
        BY <1>1, <1>11
      <3>. QED
        BY <1>0, <1>3, <1>11, <3>1 DEF RxPart, Received
    <2>2. \A i \in 1..Len(rx') : rx'[i].d \in InSeq(sent')
      BY <1>0, <1>2, <1>12 DEF RxPart, Received
    <2>3. Framed(OnChip')
      BY <1>0, <1>1, <1>3, <1>10, FramedAppend DEF RxPart, Received, f
    <2>4. ASSUME NEW i \in 1..Len(OnChip') PROVE OnChip'[i].d \in InSeq(sent')
      <3>1. /\ Len(OnChip') = Len(chipRx) + Len(f)
            /\ \A j \in 1..Len(chipRx) : OnChip'[j] = chipRx[j]
            /\ \A j \in 1..Len(f) : OnChip'[Len(chipRx) + j] = f[j]
        <4>1. chipRx \in Seq(CellType) /\ f \in Seq(CellType)
          BY <1>1, <1>4
        <4>2. /\ Len(chipRx \o f) = Len(chipRx) + Len(f)
              /\ \A j \in 1..Len(chipRx) : (chipRx \o f)[j] = chipRx[j]
              /\ \A j \in 1..Len(f) : (chipRx \o f)[Len(chipRx) + j] = f[j]
          BY ONLY <4>1, ConcatCells
        <4>. QED
          BY <1>10, <4>2
      <3>2. CASE i <= Len(chipRx)
        <4>1. i \in 1..Len(chipRx)
          BY <1>1, <3>1, <3>2
        <4>2. OnChip[i].d \in InSeq(sent)
          BY <1>0, <1>10, <4>1 DEF RxPart, Received
        <4>. QED
          BY <1>10, <1>12, <3>1, <4>1, <4>2
      <3>3. CASE i > Len(chipRx)
        <4>. DEFINE j == i - Len(chipRx)
        <4>1. j \in 1..Len(f) /\ i = Len(chipRx) + j
          BY <1>1, <1>4, <3>1, <3>3
        <4>. HIDE DEF j
        <4>2. OnChip'[i] = Cell(d, j)
          BY <1>4, <3>1, <4>1
        <4>3. OnChip'[i].d = d
          BY <4>2 DEF Cell
        <4>. QED
          BY <1>12, <4>3
      <3>4. i <= Len(chipRx) \/ i > Len(chipRx)
        BY <1>1, <1>4, <3>1
      <3>. QED
        BY <3>2, <3>3, <3>4
    <2>. QED
      BY <2>1, <2>2, <2>3, <2>4 DEF Received
  <1>16. InFlight'
    <2>. SUFFICES ASSUME bulk.kind = "ReceiveDatagram" PROVE InFlight'
      BY <1>2 DEF InFlight
    <2>1. /\ Size(bulk.d) <= Len(chipRx)
          /\ \A j \in 1..Size(bulk.d) : chipRx[j] = Cell(bulk.d, j)
          /\ bulk.data = Payload(bulk.d) /\ bulk.pointer = (rd + Hdr) % PtrMod
          /\ Size(bulk.d) <= Free(rx)
      BY <1>0 DEF RxPart, InFlight
    <2>2. Size(bulk.d) \in Nat
      BY <1>0, FrameCells DEF BulkType
    <2>3. /\ Size(bulk.d) <= Len(chipRx')
          /\ \A j \in 1..Size(bulk.d) : chipRx'[j] = Cell(bulk.d, j)
      <3>1. \A j \in 1..Size(bulk.d) : j \in 1..Len(chipRx)
        BY <1>1, <2>1, <2>2
      <3>2. Size(bulk.d) <= Len(chipRx) + Len(a)
        BY <1>1, <1>7, <2>1, <2>2
      <3>. QED
        BY <1>8, <1>9, <2>1, <3>1, <3>2
    <2>. QED
      BY <1>2, <2>1, <2>3 DEF InFlight
  <1>17. RxFramed' /\ RxIntact'
    BY <1>0, <1>2, <1>12 DEF RxPart, RxFramed, RxIntact
  <1>18. RxPart'
    BY <1>13, <1>14, <1>15, <1>16, <1>17 DEF RxPart
  <1>. QED
    BY <1>3, <1>10, <1>12, <1>18 DEF d, f

(* The rest of a datagram arrives.                                         *)
LEMMA RxPeerFinishes ==
    ASSUME RxInv, PeerFinishes
    PROVE  RxPart'
  <1>0. RxPart /\ CallType /\ BulkType
    BY RxInvParts
  <1>1. /\ chipRx' = OnChip /\ arriving' = <<>>
        /\ UNCHANGED <<rx, rxFrames, rd, got, bulk, call, sent>>
    BY DEF PeerFinishes, rxVars, inVars, OnChip
  <1>2. chipRx \in Seq(CellType) /\ arriving \in Seq(CellType)
    BY <1>0 DEF RxPart, RxType
  <1>3. /\ OnChip \in Seq(CellType) /\ Len(OnChip) = Len(chipRx) + Len(arriving)
        /\ Len(chipRx) \in Nat /\ Len(arriving) \in Nat
        /\ \A i \in 1..Len(chipRx) : OnChip[i] = chipRx[i]
    BY <1>2, ConcatCells DEF OnChip
  <1>4. OnChip' = OnChip
    <2>1. OnChip' = OnChip \o <<>>
      BY <1>1 DEF OnChip
    <2>2. OnChip \o <<>> = OnChip
      BY <1>3, ConcatEmptySeq
    <2>. QED
      BY <2>1, <2>2
  <1>5. RxType'
    <2>1. Len(<<>>) = 0 /\ <<>> \in Seq(CellType)
      BY EmptySeq
    <2>2. Len(chipRx') + Len(arriving') <= RxCap
      BY <1>0, <1>1, <1>3, <2>1 DEF RxPart, RxType
    <2>. QED
      BY <1>0, <1>1, <1>3, <2>1, <2>2 DEF RxPart, RxType
  <1>6. CallRecv' /\ RxFramed' /\ RxIntact'
    BY <1>0, <1>1 DEF RxPart, CallRecv, ToCopy, RxFramed, RxIntact
  <1>7. Received'
    BY <1>0, <1>1, <1>4 DEF RxPart, Received
  <1>8. InFlight'
    <2>. SUFFICES ASSUME bulk.kind = "ReceiveDatagram" PROVE InFlight'
      BY <1>1 DEF InFlight
    <2>1. /\ Size(bulk.d) <= Len(chipRx)
          /\ \A j \in 1..Size(bulk.d) : chipRx[j] = Cell(bulk.d, j)
          /\ bulk.data = Payload(bulk.d) /\ bulk.pointer = (rd + Hdr) % PtrMod
          /\ Size(bulk.d) <= Free(rx)
      BY <1>0 DEF RxPart, InFlight
    <2>2. Size(bulk.d) \in Nat
      BY <1>0, FrameCells DEF BulkType
    <2>3. /\ Size(bulk.d) <= Len(chipRx')
          /\ \A j \in 1..Size(bulk.d) : chipRx'[j] = Cell(bulk.d, j)
      <3>1. \A j \in 1..Size(bulk.d) : j \in 1..Len(chipRx)
        BY <1>3, <2>1, <2>2
      <3>2. Size(bulk.d) <= Len(chipRx) + Len(arriving)
        BY <1>3, <2>1, <2>2
      <3>. QED
        BY <1>1, <1>3, <2>1, <3>1, <3>2
    <2>. QED
      BY <1>1, <2>1, <2>3 DEF InFlight
  <1>. QED
    BY <1>5, <1>6, <1>7, <1>8 DEF RxPart

(* The chip's buffers are emptied, between transfers.                      *)
LEMMA RxWipe ==
    ASSUME RxInv, WipeBuffers, bulk = NoBulk, UNCHANGED <<rxVars, bulk, call>>
    PROVE  RxPart'
  <1>0. RxPart
    BY RxInvParts
  <1>1. chipRx' = <<>> /\ arriving' = <<>> /\ UNCHANGED <<rx, rxFrames, rd, got, sent, bulk, call>>
    BY DEF WipeBuffers, rxVars
  <1>2. <<>> \in Seq(CellType) /\ Len(<<>>) = 0
    BY EmptySeq
  <1>3. OnChip' = <<>>
    <2>1. <<>> \o <<>> = <<>>
      BY <1>2, ConcatEmptySeq
    <2>. QED
      BY <1>1, <2>1 DEF OnChip
  <1>4. RxType'
    <2>1. Len(chipRx') + Len(arriving') <= RxCap
      BY <1>1, <1>2, SizesAssumption
    <2>. QED
      BY <1>0, <1>1, <1>2, <2>1 DEF RxPart, RxType
  <1>5. CallRecv' /\ RxFramed' /\ RxIntact'
    BY <1>0, <1>1 DEF RxPart, CallRecv, ToCopy, RxFramed, RxIntact
  <1>6. Received'
    <2>1. Framed(<<>>) /\ \A k \in 1..Len(<<>>) : <<>>[k].d \in InSeq(sent')
      BY <1>2, WholeNone DEF Whole
    <2>. QED
      BY <1>0, <1>1, <1>3, <2>1 DEF RxPart, Received
  <1>7. InFlight'
    BY <1>1 DEF InFlight, NoBulk
  <1>. QED
    BY <1>4, <1>5, <1>6, <1>7 DEF RxPart

(* The rings are emptied, between calls.                                   *)
LEMMA RxEmpty ==
    ASSUME RxInv, EmptyRings, call = NoCall, UNCHANGED <<chipRxVars, bulk, call>>
    PROVE  RxPart'
  <1>0. RxPart
    BY RxInvParts
  <1>1. rx' = <<>> /\ rxFrames' = 0 /\ UNCHANGED <<chipRx, arriving, rd, got, sent, bulk, call>>
    BY DEF EmptyRings, chipRxVars
  <1>2. <<>> \in Seq(CellType) /\ Len(<<>>) = 0 /\ Len(rx) \in Nat
    BY <1>0, EmptySeq, LenProperties DEF RxPart, RxType
  <1>3. RxType'
    BY <1>0, <1>1, <1>2, SizesAssumption DEF RxPart, RxType
  <1>4. CallRecv' /\ RxIntact'
    BY <1>0, <1>1 DEF RxPart, CallRecv, ToCopy, RxIntact
  <1>5. Received'
    BY <1>0, <1>1, <1>2 DEF RxPart, Received, OnChip
  <1>6. InFlight'
    <2>1. Free(rx) = RingCap - Len(rx) /\ Free(rx') = RingCap - 0 /\ RingCap \in Nat
      BY <1>1, <1>2, SizesAssumption DEF Free
    <2>2. Size(bulk.d) \in Nat
      BY RxInvParts, FrameCells DEF BulkType
    <2>3. Size(bulk.d) <= Free(rx) => Size(bulk.d) <= Free(rx')
      BY <1>2, <2>1, <2>2
    <2>. QED
      BY <1>0, <1>1, <2>3 DEF RxPart, InFlight
  <1>7. RxFramed'
    BY <1>1, WholeNone DEF RxFramed, NoCall
  <1>. QED
    BY <1>3, <1>4, <1>5, <1>6, <1>7 DEF RxPart

(* recv_from reads a header: the first frame of the ring.                  *)
LEMMA RxRecvBegin ==
    ASSUME RxInv, NEW n \in DstLens, RecvBegin(n)
    PROVE  RxPart' /\ CallType'
  <1>0. RxPart /\ BulkType
    BY RxInvParts
  <1>1. /\ call = NoCall /\ rxFrames > 0 /\ rx' = Rest(rx, Hdr)
        /\ call' = [op |-> "recv", d |-> ParseHeader(rx), dst |-> n,
                    left |-> ParseHeader(rx).len, data |-> <<>>]
        /\ UNCHANGED <<rxFrames, chipRx, arriving, rd, got, sent, bulk>>
    BY DEF RecvBegin, AppFree, chipRxVars, inVars
  <1>2. rx \in Seq(CellType) /\ rxFrames \in Nat /\ Len(rx) \in Nat /\ n \in Nat
    BY <1>0, LensAssumption, LenProperties DEF RxPart, RxType
  <1>3. Whole(rx, rxFrames)
    BY <1>0, <1>1 DEF RxPart, RxFramed, NoCall
  <1>. DEFINE d == rx[1].d
  <1>4. /\ rx # <<>> /\ d \in DatagramType /\ Size(d) <= Len(rx)
        /\ \A j \in 1..Size(d) : rx[j] = Cell(d, j)
        /\ ParseHeader(rx) = d
        /\ Whole(Rest(rx, Size(d)), rxFrames - 1)
    BY <1>1, <1>2, <1>3, WholeFirst
  <1>5. d \in InSeq(sent)
    <2>1. 1 \in 1..Len(rx)
      BY <1>2, <1>4, EmptySeq
    <2>. QED
      BY <1>0, <2>1 DEF RxPart, Received
  <1>. HIDE DEF d
  <1>6. /\ d.len \in Nat /\ Size(d) = Hdr + d.len /\ Hdr \in Nat /\ Size(d) - d.len = Hdr
        /\ d.len <= Size(d) /\ Hdr <= Len(rx) /\ Size(d) \in Nat
    <2>1. Size(d) = Hdr + d.len
      BY DEF Size
    <2>2. d.len \in Nat /\ Hdr \in Nat
      BY <1>4, FrameCells
    <2>. QED
      BY <1>2, <1>4, <2>1, <2>2
  <1>7. /\ rx' \in Seq(CellType) /\ Len(rx') = Len(rx) - Hdr
        /\ \A i \in 1..Len(rx') : rx'[i] = rx[Hdr + i]
    BY <1>1, <1>2, <1>6, RestCells
  <1>8. /\ call'.op = "recv" /\ call'.d = d /\ call'.dst = n /\ call'.left = d.len
        /\ call'.data = <<>> /\ CallType'
    BY <1>1, <1>2, <1>4, <1>6, EmptySeq DEF CallType
  <1>9. RxType'
    BY <1>0, <1>1, <1>2, <1>6, <1>7, SizesAssumption DEF RxPart, RxType
  <1>10. CallRecv'
    <2>1. Min({d.len, n}) \in Int /\ Min({d.len, n}) >= 0
      <3>. DEFINE l == d.len
      <3>1. l \in Int /\ n \in Int /\ l >= 0 /\ n >= 0 /\ (l <= n \/ n <= l)
        BY <1>2, <1>6
      <3>. HIDE DEF l
      <3>2. Min({l, n}) \in Int /\ (Min({l, n}) = l \/ Min({l, n}) = n)
        BY <3>1, MinPair
      <3>. QED
        BY <3>1, <3>2 DEF l
    <2>2. Len(call'.data) = 0 /\ call'.left = d.len - Len(call'.data)
      BY <1>6, <1>8, EmptySeq
    <2>3. ToCopy' >= 0
      BY <1>8, <2>1, <2>2 DEF ToCopy
    <2>. QED
      BY <1>1, <1>5, <1>6, <1>8, <2>2, <2>3 DEF CallRecv
  <1>11. Received'
    <2>1. \A i \in 1..Len(rx') : Hdr + i \in 1..Len(rx)
      BY <1>2, <1>6, <1>7
    <2>. QED
      BY <1>0, <1>1, <1>7, <2>1 DEF RxPart, Received, OnChip
  <1>12. InFlight'
    <2>1. Free(rx) = RingCap - Len(rx) /\ Free(rx') = RingCap - Len(rx') /\ RingCap \in Nat
      BY SizesAssumption DEF Free
    <2>2. Size(bulk.d) \in Nat
      BY <1>0, FrameCells DEF BulkType
    <2>3. Size(bulk.d) <= Free(rx) => Size(bulk.d) <= Free(rx')
      BY <1>2, <1>6, <1>7, <2>1, <2>2
    <2>. QED
      BY <1>0, <1>1, <2>3 DEF RxPart, InFlight
  <1>13. RxFramed'
    <2>1. d.len <= Len(rx') /\ \A i \in 1..d.len : rx'[i] = Cell(d, (Size(d) - d.len) + i)
      <3>1. d.len <= Len(rx')
        BY <1>2, <1>4, <1>6, <1>7
      <3>2. \A i \in 1..d.len : i \in 1..Len(rx') /\ Hdr + i \in 1..Size(d)
        BY <1>2, <1>6, <1>7, <3>1
      <3>. QED
        BY <1>4, <1>6, <1>7, <3>1, <3>2
    <2>2. Front(rx', d.len) = Rest(Frame(d), Size(d) - d.len)
      BY <1>4, <1>6, <1>7, <2>1, Remains
    <2>3. Rest(Rest(rx, Hdr), d.len) = Rest(rx, Hdr + d.len)
      <3>1. Hdr + d.len <= Len(rx)
        BY <1>4, <1>6
      <3>. QED
        BY <1>2, <1>6, <3>1, RestRest
    <2>4. Whole(Rest(rx', d.len), rxFrames - 1)
      BY <1>1, <1>4, <1>6, <2>3
    <2>. QED
      BY <1>1, <1>8, <2>2, <2>4 DEF RxFramed
  <1>14. RxIntact'
    BY <1>0, <1>1 DEF RxPart, RxIntact
  <1>. QED
    BY <1>8, <1>9, <1>10, <1>11, <1>12, <1>13, <1>14 DEF RxPart

(* What a read of recv_from takes: all it asks for.                        *)
LEMMA RecvAmount ==
    ASSUME RxInv, call.op = "recv", call.left > 0
    PROVE  /\ ToCopy \in Nat /\ ToDiscard \in Nat
           /\ Len(call.data) \in Nat /\ ToCopy + Len(call.data) <= call.d.len
           /\ ToCopy > 0 => ToCopy <= call.left /\ call.left = call.d.len - Len(call.data)
           /\ ToCopy = 0 => ToDiscard = call.left
  <1>1. CallType /\ CallRecv
    BY RxInvParts DEF RxPart
  <1>2. call.left \in Nat /\ call.d.len \in Nat /\ call.dst \in Nat /\ Len(call.data) \in Nat
    <2>1. call.d \in DatagramType /\ call.left \in Nat /\ call.dst \in Nat
          /\ call.data \in Seq(CellType)
      BY <1>1 DEF CallType
    <2>. QED
      BY <2>1, LenProperties DEF DatagramType
  <1>. DEFINE m == Min({call.d.len, call.dst})
  <1>3. m \in Int /\ m <= call.d.len
    BY <1>2, MinPair
  <1>4. ToCopy = m - Len(call.data) /\ ToDiscard = call.left - ToCopy
    BY DEF ToCopy, ToDiscard
  <1>5. ToCopy >= 0 /\ (ToCopy > 0 => call.left = call.d.len - Len(call.data))
    BY <1>1 DEF CallRecv
  <1>. HIDE DEF m
  <1>6. ToCopy \in Nat
    BY <1>2, <1>3, <1>4, <1>5
  <1>. QED
    BY <1>2, <1>3, <1>4, <1>5, <1>6

(* recv_from reads a part of the payload, to keep it or to drop it.        *)
LEMMA RxRecvRead ==
    ASSUME RxInv, RecvRead
    PROVE  /\ RxPart' /\ CallType'
           /\ call.op = "recv" /\ call'.op = "recv" /\ call'.d = call.d
           /\ \E n \in 0..call.left : rx' = Rest(rx, n)
  <1>0. RxPart /\ BulkType /\ CallType
    BY RxInvParts
  <1>. DEFINE c == IF ToCopy > 0 THEN ToCopy ELSE ToDiscard
              part == Front(rx, c)
  <1>1. /\ call.op = "recv" /\ call.left > 0
        /\ rx' = Rest(rx, Len(part))
        /\ call' = [call EXCEPT !.left = @ - Len(part),
                                !.data = IF ToCopy > 0 THEN @ \o part ELSE @]
        /\ UNCHANGED <<rxFrames, chipRx, arriving, rd, got, sent, bulk>>
    BY DEF RecvRead, chipRxVars, inVars
  <1>2. /\ call.d \in DatagramType /\ call.left \in Nat /\ call.left <= call.d.len
        /\ call.d.len \in Nat /\ Size(call.d) = Hdr + call.d.len /\ Hdr \in Nat
        /\ call.left <= Size(call.d) /\ call.left <= Len(rx) /\ Len(rx) \in Nat
        /\ \A i \in 1..call.left : rx[i] = Cell(call.d, (Size(call.d) - call.left) + i)
        /\ Whole(Rest(rx, call.left), rxFrames - 1)
    BY <1>1, RecvState
  <1>3. /\ ToCopy \in Nat /\ Len(call.data) \in Nat /\ ToCopy + Len(call.data) <= call.d.len
        /\ ToCopy > 0 => ToCopy <= call.left /\ call.left = call.d.len - Len(call.data)
        /\ ToCopy = 0 => ToDiscard = call.left
    BY <1>1, RecvAmount
  <1>4. /\ c \in Nat /\ c <= call.left /\ c <= Len(rx)
        /\ ToCopy > 0 => c = ToCopy
        /\ ToCopy = 0 => c = call.left
    BY <1>2, <1>3
  <1>. HIDE DEF c
  <1>5. rx \in Seq(CellType) /\ rxFrames \in Nat
    BY <1>0 DEF RxPart, RxType
  <1>6. part \in Seq(CellType) /\ Len(part) = c /\ \A i \in 1..c : part[i] = rx[i]
    BY <1>4, <1>5, FrontCells
  <1>. HIDE DEF part
  <1>7. /\ rx' \in Seq(CellType) /\ Len(rx') = Len(rx) - c
        /\ \A i \in 1..Len(rx') : rx'[i] = rx[c + i]
    BY <1>1, <1>4, <1>5, <1>6, RestCells
  <1>. DEFINE data == IF ToCopy > 0 THEN call.data \o part ELSE call.data
              left == call.left - c
  <1>8. /\ call.data \in Seq(CellType) /\ call.data \o part \in Seq(CellType)
        /\ Len(call.data \o part) = Len(call.data) + c
        /\ \A i \in 1..Len(call.data) : (call.data \o part)[i] = call.data[i]
        /\ \A i \in 1..c : (call.data \o part)[Len(call.data) + i] = part[i]
    <2>1. call.data \in Seq(CellType) /\ part \in Seq(CellType)
      BY <1>0, <1>6 DEF CallType
    <2>. DEFINE e == call.data
    <2>. HIDE DEF e
    <2>2. /\ e \o part \in Seq(CellType) /\ Len(e \o part) = Len(e) + Len(part)
          /\ \A i \in 1..Len(e) : (e \o part)[i] = e[i]
          /\ \A i \in 1..Len(part) : (e \o part)[Len(e) + i] = part[i]
      <3>1. e \in Seq(CellType) /\ part \in Seq(CellType)
        BY <2>1 DEF e
      <3>. QED
        BY ONLY <3>1, ConcatCells
    <2>. QED
      BY <1>6, <2>1, <2>2 DEF e
  <1>9. data \in Seq(CellType) /\ left \in Nat
    BY <1>2, <1>4, <1>8
  <1>10. /\ call'.op = "recv" /\ call'.d = call.d /\ call'.dst = call.dst
         /\ call'.left = left /\ call'.data = data
    BY <1>0, <1>1, <1>6 DEF CallType
  <1>11. CallType'
    BY <1>0, <1>1, <1>6, <1>9 DEF CallType
  <1>12. RxType'
    BY <1>0, <1>1, <1>2, <1>4, <1>7, SizesAssumption, SMTT(30) DEF RxPart, RxType
  <1>13. CallRecv'
    <2>1. CallRecv
      BY <1>0 DEF RxPart
    <2>2. call.d \in InSeq(sent) /\ call.dst \in DstLens
      BY <1>1, <2>1 DEF CallRecv
    <2>3. ToCopy' = ToCopy - (Len(data) - Len(call.data))
      <3>1. Min({call.d.len, call.dst}) = ToCopy + Len(call.data) /\ Len(data) \in Nat
        <4>1. call.dst \in Int /\ call.d.len \in Int
          BY <1>0, <1>2 DEF CallType
        <4>2. Min({call.d.len, call.dst}) \in Int
          BY <4>1, MinPair
        <4>3. ToCopy = Min({call.d.len, call.dst}) - Len(call.data)
          BY DEF ToCopy
        <4>4. Len(data) \in Nat
          BY <1>9, LenProperties
        <4>. QED
          BY <1>3, <4>2, <4>3, <4>4
      <3>2. ToCopy' = Min({call.d.len, call.dst}) - Len(data)
        BY <1>10 DEF ToCopy
      <3>. HIDE DEF data
      <3>. QED
        BY <1>3, <3>1, <3>2
    <2>4. ToCopy' = 0
      <3>1. CASE ToCopy > 0
        BY <1>3, <1>4, <1>8, <2>3, <3>1
      <3>2. CASE ToCopy = 0
        BY <1>3, <2>3, <3>2
      <3>. QED
        BY <1>3, <3>1, <3>2
    <2>5. left <= call.d.len
      BY <1>2, <1>4
    <2>6. ASSUME NEW i \in 1..Len(data) PROVE data[i] = Cell(call.d, Hdr + i)
      <3>0. \A j \in 1..Len(call.data) : call.data[j] = Cell(call.d, Hdr + j)
        BY <1>1, <2>1 DEF CallRecv
      <3>1. CASE i \in 1..Len(call.data)
        BY <1>8, <3>0, <3>1
      <3>2. CASE ToCopy > 0 /\ i > Len(call.data)
        <4>. DEFINE j == i - Len(call.data)
        <4>1. j \in 1..c /\ i = Len(call.data) + j /\ j \in 1..call.left
          BY <1>2, <1>3, <1>4, <1>8, <3>2, SMTT(30)
        <4>2. (Size(call.d) - call.left) + j = Hdr + i
          BY <1>2, <1>3, <3>2, <4>1, SMTT(30)
        <4>. HIDE DEF j
        <4>3. (call.data \o part)[i] = part[j]
          BY <1>8, <4>1
        <4>4. part[j] = Cell(call.d, Hdr + i)
          BY <1>2, <1>6, <4>1, <4>2
        <4>. QED
          BY <3>2, <4>3, <4>4
      <3>3. i \in 1..Len(call.data) \/ (ToCopy > 0 /\ i > Len(call.data))
        BY <1>3, <1>4, <1>8
      <3>. QED
        BY <3>1, <3>2, <3>3
    <2>. HIDE DEF data, left
    <2>. QED
      BY <1>1, <1>10, <2>2, <2>4, <2>5, <2>6 DEF CallRecv
  <1>. HIDE DEF data
  <1>14. Received'
    <2>1. \A i \in 1..Len(rx') : c + i \in 1..Len(rx)
      BY <1>2, <1>4, <1>7
    <2>. QED
      BY <1>0, <1>1, <1>7, <2>1 DEF RxPart, Received, OnChip
  <1>15. InFlight'
    <2>1. Free(rx) = RingCap - Len(rx) /\ Free(rx') = RingCap - Len(rx') /\ RingCap \in Nat
      BY SizesAssumption DEF Free
    <2>2. Size(bulk.d) \in Nat
      BY <1>0, FrameCells DEF BulkType
    <2>3. Size(bulk.d) <= Free(rx) => Size(bulk.d) <= Free(rx')
      BY <1>2, <1>4, <1>7, <2>1, <2>2
    <2>. QED
      BY <1>0, <1>1, <2>3 DEF RxPart, InFlight
  <1>16. RxFramed'
    <2>1. left <= Len(rx') /\ \A i \in 1..left : rx'[i] = Cell(call.d, (Size(call.d) - left) + i)
      <3>1. left <= Len(rx')
        BY <1>2, <1>4, <1>7
      <3>2. ASSUME NEW i \in 1..left PROVE rx'[i] = Cell(call.d, (Size(call.d) - left) + i)
        <4>1. /\ i \in 1..Len(rx') /\ c + i \in 1..call.left
              /\ (Size(call.d) - call.left) + (c + i) = (Size(call.d) - left) + i
          BY <1>2, <1>4, <1>7, <3>1, SMTT(30)
        <4>. HIDE DEF left
        <4>. QED
          BY <1>2, <1>7, <4>1
      <3>. QED
        BY <3>1, <3>2
    <2>2. Front(rx', left) = Rest(Frame(call.d), Size(call.d) - left)
      <3>1. left <= Size(call.d)
        BY <1>2, <1>4
      <3>. HIDE DEF left
      <3>. QED
        BY <1>2, <1>7, <1>9, <2>1, <3>1, Remains
    <2>3. Rest(Rest(rx, c), left) = Rest(rx, call.left)
      <3>1. c + left <= Len(rx) /\ c + left = call.left
        BY <1>2, <1>4
      <3>. HIDE DEF left
      <3>2. Rest(Rest(rx, c), left) = Rest(rx, c + left)
        BY <1>4, <1>5, <1>9, <3>1, RestRest
      <3>. QED
        BY <3>1, <3>2
    <2>4. Whole(Rest(rx', left), rxFrames - 1)
      BY <1>1, <1>2, <1>6, <2>3
    <2>. HIDE DEF left
    <2>. QED
      BY <1>1, <1>10, <2>2, <2>4 DEF RxFramed
  <1>17. RxIntact'
    BY <1>0, <1>1 DEF RxPart, RxIntact
  <1>18. \E n \in 0..call.left : rx' = Rest(rx, n)
    <2>1. c \in 0..call.left /\ rx' = Rest(rx, c)
      BY <1>1, <1>2, <1>4, <1>6
    <2>. QED
      BY <2>1
  <1>. QED
    BY <1>1, <1>10, <1>11, <1>12, <1>13, <1>14, <1>15, <1>16, <1>17, <1>18 DEF RxPart

(* recv_from releases the frame and returns what fitted the buffer.        *)
LEMMA RxRecvEnd ==
    ASSUME RxInv, RecvEnd
    PROVE  RxPart' /\ CallType'
  <1>0. RxPart /\ BulkType /\ CallType
    BY RxInvParts
  <1>. DEFINE m == [d |-> call.d, data |-> call.data]
  <1>1. /\ call.op = "recv" /\ call.left = 0 /\ call' = NoCall
        /\ rxFrames' = rxFrames - 1 /\ got' = Append(got, m)
        /\ UNCHANGED <<rx, chipRx, arriving, rd, sent, bulk>>
    BY DEF RecvEnd, chipRxVars
  <1>2. /\ call.d \in DatagramType /\ call.d.len \in Nat /\ Size(call.d) = Hdr + call.d.len
        /\ Hdr \in Nat /\ Len(rx) \in Nat
        /\ Whole(Rest(rx, 0), rxFrames - 1)
    BY <1>1, RecvState
  <1>3. rx \in Seq(CellType) /\ got \in Seq(MessageType)
    BY <1>0 DEF RxPart, RxType
  <1>4. Rest(rx, 0) = rx
    <2>1. Rest(rx, 0) = SubSeq(rx, 1, Len(rx))
      BY DEF Rest
    <2>. QED
      BY <1>3, <2>1, SubSeqFull
  <1>5. Whole(rx, rxFrames - 1) /\ rxFrames - 1 \in Nat
    BY <1>2, <1>3, <1>4, WholeCount
  <1>6. call.data \in Seq(CellType) /\ call.dst \in Nat /\ m \in MessageType
    BY <1>0 DEF CallType, MessageType
  <1>7. CallType'
    <2>1. Nobody \in DatagramType /\ <<>> \in Seq(CellType)
      BY EmptySeq DEF Nobody, Datagram, DatagramType
    <2>. QED
      BY <1>1, <2>1 DEF CallType, NoCall
  <1>8. /\ got' \in Seq(MessageType) /\ Len(got') = Len(got) + 1 /\ Len(got) \in Nat
        /\ got'[Len(got) + 1] = m /\ \A i \in 1..Len(got) : got'[i] = got[i]
    <2>. HIDE DEF m
    <2>. QED
      BY <1>1, <1>3, <1>6, AppendProperties, LenProperties
  <1>9. RxType'
    BY <1>0, <1>1, <1>5, <1>8 DEF RxPart, RxType
  <1>10. CallRecv' /\ RxFramed'
    BY <1>1, <1>5 DEF CallRecv, RxFramed, NoCall
  <1>11. Received'
    BY <1>0, <1>1 DEF RxPart, Received, OnChip
  <1>12. InFlight'
    BY <1>0, <1>1 DEF RxPart, InFlight
  <1>13. call.d \in InSeq(sent) /\ call.dst \in DstLens
    BY <1>0, <1>1 DEF RxPart, CallRecv
  <1>14. call.data = Front(Payload(call.d), call.dst)
    <2>. DEFINE x == Len(call.data)
                p == Payload(call.d)
                f == Front(p, call.dst)
                y == Min({call.d.len, call.dst})
    <2>0. x \in Nat /\ call.d.len \in Int /\ call.dst \in Int
      BY <1>2, <1>6, LenProperties
    <2>1. /\ ToCopy >= 0 /\ (ToCopy > 0 => call.left = call.d.len - x)
          /\ \A i \in 1..x : call.data[i] = Cell(call.d, Hdr + i)
      BY <1>0, <1>1 DEF RxPart, CallRecv
    <2>2. /\ y \in Int /\ (call.d.len <= call.dst => y = call.d.len)
          /\ (call.dst <= call.d.len => y = call.dst)
      BY <2>0, MinPair
    <2>3. ToCopy = y - x
      BY DEF ToCopy
    <2>. HIDE DEF y
    <2>4. x = y
      <3>1. y <= call.d.len
        BY <2>0, <2>2
      <3>. QED
        BY <1>1, <1>2, <2>0, <2>1, <2>2, <2>3, <3>1
    <2>5. /\ p \in Seq(CellType) /\ Len(p) = call.d.len
          /\ \A i \in 1..call.d.len : p[i] = Cell(call.d, Hdr + i)
      BY <1>2, FrameCells DEF Payload
    <2>. HIDE DEF p
    <2>6. f \in Seq(CellType) /\ Len(f) = y /\ \A i \in 1..Len(f) : f[i] = p[i]
      <3>. DEFINE n == call.dst
      <3>1. p \in Seq(CellType) /\ n \in Nat
        BY <1>6, <2>5
      <3>. HIDE DEF n
      <3>2. /\ Front(p, n) \in Seq(CellType)
            /\ n <= Len(p) => Len(Front(p, n)) = n
            /\ n >= Len(p) => Front(p, n) = p
            /\ \A i \in 1..Len(Front(p, n)) : Front(p, n)[i] = p[i]
        BY ONLY <3>1, FrontCells
      <3>3. f = Front(p, n)
        BY DEF n
      <3>. HIDE DEF f
      <3>4. Len(f) = y
        <4>1. CASE n <= call.d.len
          BY <2>2, <2>5, <3>2, <3>3, <4>1 DEF n
        <4>2. CASE call.d.len <= n
          <5>1. n >= Len(p)
            BY <2>0, <2>5, <3>1, <4>2
          <5>. QED
            BY <2>2, <2>5, <3>2, <3>3, <4>2, <5>1 DEF n
        <4>. QED
          BY <2>0, <3>1, <4>1, <4>2
      <3>. QED
        BY <3>2, <3>3, <3>4
    <2>. HIDE DEF f
    <2>7. \A i \in 1..x : i \in 1..call.d.len
      BY <2>0, <2>2, <2>4
    <2>8. \A i \in 1..x : call.data[i] = f[i]
      BY <2>1, <2>4, <2>5, <2>6, <2>7
    <2>9. call.data = f
      BY <1>6, <2>4, <2>6, <2>8, SeqEqual
    <2>. QED
      BY <2>9 DEF f, p
  <1>15. RxIntact'
    <2>1. ASSUME NEW k \in 1..Len(got')
          PROVE  /\ got'[k].d \in InSeq(sent')
                 /\ \E n \in DstLens : got'[k].data = Front(Payload(got'[k].d), n)
      <3>1. CASE k \in 1..Len(got)
        BY <1>0, <1>1, <1>8, <3>1 DEF RxPart, RxIntact
      <3>2. CASE k = Len(got) + 1
        <4>1. got'[k].d = call.d /\ got'[k].data = call.data
          BY <1>8, <3>2
        <4>. QED
          BY <1>1, <1>13, <1>14, <4>1
      <3>3. k \in 1..Len(got) \/ k = Len(got) + 1
        BY <1>8
      <3>. QED
        BY <3>1, <3>2, <3>3
    <2>. QED
      BY <2>1 DEF RxIntact
  <1>. QED
    BY <1>7, <1>9, <1>10, <1>11, <1>12, <1>15 DEF RxPart

(* A datagram that is whole at the head of the chip's buffer is one that   *)
(* a peer sent, and behind it are whole datagrams.                         *)
LEMMA FirstOnChip ==
    ASSUME RxInv, NEW d \in DatagramType, Size(d) <= Len(chipRx),
           \A j \in 1..Size(d) : chipRx[j] = Cell(d, j)
    PROVE  /\ Size(d) \in Nat /\ Size(d) < PtrMod /\ d \in InSeq(sent)
           /\ chipRx = Frame(d) \o Rest(chipRx, Size(d))
           /\ Rest(chipRx, Size(d)) \in Seq(CellType)
           /\ Len(Rest(chipRx, Size(d))) <= Len(chipRx)
           /\ Rest(OnChip, Size(d)) = Rest(chipRx, Size(d)) \o arriving
           /\ Framed(Rest(OnChip, Size(d)))
           /\ \A k \in 1..Len(Rest(OnChip, Size(d))) : Rest(OnChip, Size(d))[k].d \in InSeq(sent)
  <1>0. RxPart
    BY RxInvParts
  <1>1. /\ chipRx \in Seq(CellType) /\ arriving \in Seq(CellType)
        /\ Len(chipRx) \in Nat /\ Len(arriving) \in Nat /\ Len(chipRx) + Len(arriving) <= RxCap
    BY <1>0, LenProperties DEF RxPart, RxType
  <1>2. Size(d) \in Nat /\ Size(d) >= Hdr /\ Hdr \in Nat \ {0}
    BY FrameCells
  <1>3. Size(d) < PtrMod
    BY <1>1, <1>2, PointerAssumption, SizesAssumption
  <1>4. /\ OnChip \in Seq(CellType) /\ Len(OnChip) = Len(chipRx) + Len(arriving)
        /\ \A i \in 1..Len(chipRx) : OnChip[i] = chipRx[i]
    BY <1>1, ConcatCells DEF OnChip
  <1>5. 1 \in 1..Len(chipRx) /\ 1 \in 1..Len(OnChip) /\ 1 \in 1..Size(d) /\ OnChip # <<>>
    BY <1>1, <1>2, <1>4, EmptySeq
  <1>6. OnChip[1].d = d
    <2>1. OnChip[1] = Cell(d, 1)
      BY <1>4, <1>5
    <2>. QED
      BY <2>1 DEF Cell
  <1>7. d \in InSeq(sent)
    BY <1>0, <1>5, <1>6 DEF RxPart, Received
  <1>8. Framed(Rest(OnChip, Size(d)))
    BY <1>0, <1>4, <1>5, <1>6, FramedRest DEF RxPart, Received
  <1>9. Rest(OnChip, Size(d)) = Rest(chipRx, Size(d)) \o arriving
    <2>1. Size(d) \in 0..Len(chipRx)
      BY <1>1, <1>2
    <2>. QED
      BY <1>1, <2>1, RestConcat DEF OnChip
  <1>10. Rest(chipRx, Size(d)) \in Seq(CellType) /\ Len(Rest(chipRx, Size(d))) <= Len(chipRx)
    BY <1>1, <1>2, RestCells
  <1>11. Front(chipRx, Size(d)) = Frame(d)
    <2>. DEFINE f == Front(chipRx, Size(d))
    <2>1. f \in Seq(CellType) /\ Len(f) = Size(d) /\ \A i \in 1..Len(f) : f[i] = chipRx[i]
      BY <1>1, <1>2, FrontCells
    <2>2. /\ Frame(d) \in Seq(CellType) /\ Len(Frame(d)) = Size(d)
          /\ \A j \in 1..Size(d) : Frame(d)[j] = Cell(d, j)
      BY FrameCells
    <2>. HIDE DEF f
    <2>3. f = Frame(d)
      BY <2>1, <2>2, SeqEqual
    <2>. QED
      BY <2>3 DEF f
  <1>12. chipRx = Frame(d) \o Rest(chipRx, Size(d))
    <2>1. Size(d) \in 0..Len(chipRx)
      BY <1>1, <1>2
    <2>. QED
      BY <1>1, <1>11, <2>1, Cut
  <1>13. ASSUME NEW k \in 1..Len(Rest(OnChip, Size(d)))
         PROVE  Rest(OnChip, Size(d))[k].d \in InSeq(sent)
    <2>. DEFINE t == Rest(OnChip, Size(d))
    <2>0. Size(d) <= Len(OnChip)
      BY <1>1, <1>2, <1>4
    <2>1. Len(t) = Len(OnChip) - Size(d) /\ \A i \in 1..Len(t) : t[i] = OnChip[Size(d) + i]
      <3>. DEFINE n == Size(d)
      <3>1. OnChip \in Seq(CellType) /\ n \in Nat /\ n <= Len(OnChip)
        BY <1>2, <1>4, <2>0
      <3>. HIDE DEF n
      <3>2. /\ Len(Rest(OnChip, n)) = Len(OnChip) - n
            /\ \A i \in 1..Len(Rest(OnChip, n)) : Rest(OnChip, n)[i] = OnChip[n + i]
        BY ONLY <3>1, RestCells
      <3>. QED
        BY <3>2 DEF n
    <2>2. k \in 1..Len(t)
      OBVIOUS
    <2>. HIDE DEF t
    <2>3. Size(d) + k \in 1..Len(OnChip)
      BY <1>1, <1>2, <1>4, <2>1, <2>2
    <2>4. t[k].d \in InSeq(sent)
      BY <1>0, <2>1, <2>2, <2>3 DEF RxPart, Received
    <2>. QED
      BY <2>4 DEF t
  <1>. QED
    BY <1>2, <1>3, <1>7, <1>8, <1>9, <1>10, <1>12, <1>13

(* What receive finds by PACKINFO is such a datagram.                      *)
LEMMA IncomingFirst ==
    ASSUME RxInv, Arrived
    PROVE  /\ Incoming \in DatagramType /\ Size(Incoming) <= Len(chipRx)
           /\ \A j \in 1..Size(Incoming) : chipRx[j] = Cell(Incoming, j)
  <1>0. RxPart
    BY RxInvParts
  <1>1. /\ chipRx \in Seq(CellType) /\ arriving \in Seq(CellType)
        /\ Len(chipRx) \in Nat /\ Len(arriving) \in Nat
    BY <1>0, LenProperties DEF RxPart, RxType
  <1>2. Len(chipRx) >= Hdr /\ Len(chipRx) >= Size(Incoming) /\ Hdr \in Nat \ {0}
    BY HeaderAssumption DEF Arrived
  <1>3. /\ OnChip \in Seq(CellType) /\ Len(OnChip) = Len(chipRx) + Len(arriving)
        /\ \A i \in 1..Len(chipRx) : OnChip[i] = chipRx[i]
    BY <1>1, ConcatCells DEF OnChip
  <1>4. OnChip # <<>> /\ 1 \in 1..Len(chipRx)
    BY <1>1, <1>2, <1>3, EmptySeq
  <1>. DEFINE d == OnChip[1].d
  <1>5. d \in DatagramType /\ \A j \in 1..Size(d) : OnChip[j] = Cell(d, j)
    BY <1>0, <1>3, <1>4, FramedFirst DEF RxPart, Received
  <1>6. Size(d) \in Nat /\ Size(d) >= Hdr
    BY <1>5, FrameCells
  <1>. HIDE DEF d
  <1>7. \A j \in 1..Hdr : chipRx[j] = Cell(d, j)
    <2>1. \A j \in 1..Hdr : j \in 1..Size(d) /\ j \in 1..Len(chipRx)
      BY <1>1, <1>2, <1>6
    <2>. QED
      BY <1>3, <1>5, <2>1
  <1>8. Incoming = d
    BY <1>1, <1>2, <1>5, <1>7, ParseFrame DEF Incoming
  <1>9. \A j \in 1..Size(d) : chipRx[j] = Cell(d, j)
    <2>1. \A j \in 1..Size(d) : j \in 1..Len(chipRx)
      BY <1>1, <1>2, <1>6, <1>8
    <2>. QED
      BY <1>3, <1>5, <2>1
  <1>. QED
    BY <1>1, <1>2, <1>5, <1>6, <1>8, <1>9

(* The pointer moved past a datagram takes exactly that datagram off the   *)
(* chip.                                                                   *)
LEMMA RxSkip ==
    ASSUME RxInv, NEW d \in DatagramType, Size(d) <= Len(chipRx),
           \A j \in 1..Size(d) : chipRx[j] = Cell(d, j),
           SetRxReadPointer((rd + Size(d)) % PtrMod)
    PROVE  /\ chipRx' = Rest(chipRx, Size(d)) /\ arriving' = arriving
           /\ rd' \in 0..(PtrMod - 1)
  <1>1. Size(d) \in Nat /\ Size(d) < PtrMod
    BY FirstOnChip
  <1>2. rd \in 0..(PtrMod - 1)
    BY RxInvParts DEF RxPart, RxType
  <1>3. /\ (rd + Size(d)) % PtrMod \in 0..(PtrMod - 1)
        /\ (((rd + Size(d)) % PtrMod) - rd) % PtrMod = Size(d)
    <2>. DEFINE n == Size(d)
    <2>. HIDE DEF n
    <2>1. n \in Nat /\ n < PtrMod
      BY <1>1 DEF n
    <2>2. (rd + n) % PtrMod \in 0..(PtrMod - 1) /\ (((rd + n) % PtrMod) - rd) % PtrMod = n
      BY <1>2, <2>1, PointerMove
    <2>. QED
      BY <2>2 DEF n
  <1>. QED
    BY <1>3 DEF SetRxReadPointer

(* What is left on the chip then.                                          *)
LEMMA ChipAfterSkip ==
    ASSUME RxInv, NEW d \in DatagramType, Size(d) <= Len(chipRx),
           \A j \in 1..Size(d) : chipRx[j] = Cell(d, j),
           chipRx' = Rest(chipRx, Size(d)), arriving' = arriving, sent' = sent
    PROVE  /\ chipRx' \in Seq(CellType) /\ arriving' \in Seq(CellType)
           /\ Len(chipRx') + Len(arriving') <= RxCap
           /\ Framed(OnChip') /\ \A k \in 1..Len(OnChip') : OnChip'[k].d \in InSeq(sent')
  <1>1. /\ Rest(chipRx, Size(d)) \in Seq(CellType)
        /\ Len(Rest(chipRx, Size(d))) <= Len(chipRx)
        /\ Rest(OnChip, Size(d)) = Rest(chipRx, Size(d)) \o arriving
        /\ Framed(Rest(OnChip, Size(d)))
        /\ \A k \in 1..Len(Rest(OnChip, Size(d))) : Rest(OnChip, Size(d))[k].d \in InSeq(sent)
    BY FirstOnChip
  <1>2. OnChip' = Rest(OnChip, Size(d))
    BY <1>1 DEF OnChip
  <1>3. /\ chipRx \in Seq(CellType) /\ arriving \in Seq(CellType)
        /\ Len(chipRx) + Len(arriving) <= RxCap
    BY RxInvParts DEF RxPart, RxType
  <1>4. Len(chipRx') + Len(arriving') <= RxCap
    <2>1. Len(chipRx) \in Nat /\ Len(arriving) \in Nat /\ Len(Rest(chipRx, Size(d))) \in Nat
      BY <1>1, <1>3, LenProperties
    <2>. QED
      BY <1>1, <1>3, <2>1, SizesAssumption
  <1>. QED
    BY <1>1, <1>2, <1>3, <1>4

(* A frame put in the rx ring and counted.                                 *)
LEMMA RxEnqueue ==
    ASSUME RxInv, NEW d \in DatagramType, d \in InSeq(sent), Size(d) <= Free(rx),
           rx' = rx \o Frame(d), rxFrames' = rxFrames + 1, UNCHANGED <<sent, call>>
    PROVE  /\ rx' \in Seq(CellType) /\ Len(rx') <= RingCap /\ rxFrames' \in Nat
           /\ \A k \in 1..Len(rx') : rx'[k].d \in InSeq(sent')
           /\ RxFramed'
  <1>0. RxPart
    BY RxInvParts
  <1>. DEFINE f == Frame(d)
  <1>1. rx \in Seq(CellType) /\ Len(rx) \in Nat /\ rxFrames \in Nat
    BY <1>0, LenProperties DEF RxPart, RxType
  <1>2. /\ f \in Seq(CellType) /\ Len(f) = Size(d) /\ Size(d) \in Nat
        /\ \A j \in 1..Size(d) : f[j] = Cell(d, j)
    BY FrameCells
  <1>. HIDE DEF f
  <1>3. rx' = rx \o f
    BY DEF f
  <1>4. /\ rx \o f \in Seq(CellType) /\ Len(rx \o f) = Len(rx) + Len(f)
        /\ \A i \in 1..Len(rx) : (rx \o f)[i] = rx[i]
        /\ \A i \in 1..Len(f) : (rx \o f)[Len(rx) + i] = f[i]
    <2>1. rx \in Seq(CellType) /\ f \in Seq(CellType)
      BY <1>1, <1>2
    <2>. QED
      BY ONLY <2>1, ConcatCells
  <1>5. Len(rx') <= RingCap
    BY <1>1, <1>2, <1>3, <1>4, SizesAssumption DEF Free
  <1>6. ASSUME NEW k \in 1..Len(rx') PROVE rx'[k].d \in InSeq(sent')
    <2>1. CASE k <= Len(rx)
      <3>1. k \in 1..Len(rx)
        BY <1>1, <1>2, <1>3, <1>4, <2>1
      <3>. QED
        BY <1>0, <1>3, <1>4, <3>1 DEF RxPart, Received
    <2>2. CASE k > Len(rx)
      <3>. DEFINE j == k - Len(rx)
      <3>1. j \in 1..Len(f) /\ k = Len(rx) + j
        BY <1>1, <1>2, <1>3, <1>4, <2>2
      <3>. HIDE DEF j
      <3>2. rx'[k] = Cell(d, j)
        BY <1>2, <1>3, <1>4, <3>1
      <3>. QED
        BY <3>2 DEF Cell
    <2>3. k <= Len(rx) \/ k > Len(rx)
      BY <1>1, <1>2, <1>3, <1>4
    <2>. QED
      BY <2>1, <2>2, <2>3
  <1>7. RxFramed'
    <2>1. CASE call.op = "recv"
      <3>1. /\ call.left \in Nat /\ call.left <= Len(rx) /\ Whole(Rest(rx, call.left), rxFrames - 1)
        BY <2>1, RecvState
      <3>2. Front(rx, call.left) = Rest(Frame(call.d), Size(call.d) - call.left)
        BY <1>0, <2>1 DEF RxPart, RxFramed
      <3>3. Rest(rx', call.left) = Rest(rx, call.left) \o f /\ Front(rx', call.left) = Front(rx, call.left)
        <4>1. call.left \in 0..Len(rx)
          BY <1>1, <3>1
        <4>. QED
          BY <1>1, <1>2, <1>3, <4>1, RestConcat, ZenonT(30)
      <3>4. Rest(rx, call.left) \in Seq(CellType)
        BY <1>1, <3>1, RestCells
      <3>5. Whole(Rest(rx, call.left) \o f, (rxFrames - 1) + 1)
        BY <3>1, <3>4, WholeAppend DEF f
      <3>6. (rxFrames - 1) + 1 = rxFrames' - 1
        BY <1>1
      <3>. QED
        BY <2>1, <3>2, <3>3, <3>5, <3>6 DEF RxFramed
    <2>2. CASE call.op # "recv"
      <3>1. Whole(rx, rxFrames)
        BY <1>0, <2>2 DEF RxPart, RxFramed
      <3>2. Whole(rx \o f, rxFrames + 1)
        BY <1>1, <3>1, WholeAppend DEF f
      <3>. QED
        BY <1>3, <2>2, <3>2 DEF RxFramed
    <2>. QED
      BY <2>1, <2>2
  <1>. QED
    BY <1>1, <1>3, <1>4, <1>5, <1>6, <1>7

(* A frame written in two parts when there is room for all of it.          *)
LEMMA FrameWritten ==
    ASSUME NEW s \in Seq(CellType), NEW d \in DatagramType, Len(s) <= RingCap,
           Size(d) <= Free(s)
    PROVE  /\ RingWrite(s, Header(d)) = s \o Header(d)
           /\ s \o Header(d) \in Seq(CellType) /\ Len(s \o Header(d)) = Len(s) + Hdr
           /\ Len(s \o Header(d)) <= RingCap /\ d.len <= Free(s \o Header(d))
           /\ RingWrite(RingWrite(s, Header(d)), Payload(d)) = s \o Frame(d)
           /\ d.len = 0 => RingWrite(s, Header(d)) = s \o Frame(d)
  <1>. DEFINE h == Header(d)
              p == Payload(d)
  <1>1. /\ h \in Seq(CellType) /\ Len(h) = Hdr /\ Hdr \in Nat
        /\ p \in Seq(CellType) /\ Len(p) = d.len /\ d.len \in Nat
    BY FrameCells
  <1>2. Frame(d) = h \o p /\ Size(d) = Hdr + d.len
    BY DEF Frame, Size
  <1>. HIDE DEF h, p
  <1>3. /\ Len(s) \in Nat /\ RingCap \in Nat /\ Free(s) = RingCap - Len(s)
        /\ Free(s \o h) = RingCap - Len(s \o h)
    BY LenProperties, SizesAssumption DEF Free
  <1>4. s \o h \in Seq(CellType) /\ Len(s \o h) = Len(s) + Len(h)
    <2>1. h \in Seq(CellType)
      BY <1>1
    <2>. QED
      BY <2>1, ConcatCells
  <1>5. Len(s \o h) <= RingCap /\ d.len <= Free(s \o h) /\ Len(h) <= Free(s)
    BY <1>1, <1>2, <1>3, <1>4
  <1>6. RingWrite(s, h) = s \o h
    BY <1>1, <1>5, RingWriteKeeps
  <1>7. RingWrite(s \o h, p) = (s \o h) \o p
    BY <1>1, <1>4, <1>5, RingWriteKeeps
  <1>8. (s \o h) \o p = s \o (h \o p)
    <2>1. s \in Seq(CellType) /\ h \in Seq(CellType) /\ p \in Seq(CellType)
      BY <1>1
    <2>. QED
      BY ONLY <2>1, ConcatAssociative
  <1>9. d.len = 0 => s \o h = s \o (h \o p)
    <2>1. d.len = 0 => p = <<>>
      BY <1>1, EmptySeq
    <2>2. h \o <<>> = h
      BY <1>1, ConcatEmptySeq
    <2>. QED
      BY <2>1, <2>2
  <1>. QED
    BY <1>1, <1>2, <1>4, <1>5, <1>6, <1>7, <1>8, <1>9 DEF h, p

(* No transfer is left, and chip and ring hold what they should.           *)
LEMMA RxPassed ==
    ASSUME RxInv, UNCHANGED <<sent, got, call>>, bulk' = NoBulk,
           rx' \in Seq(CellType), Len(rx') <= RingCap, rxFrames' \in Nat,
           \A k \in 1..Len(rx') : rx'[k].d \in InSeq(sent'), RxFramed',
           chipRx' \in Seq(CellType), arriving' \in Seq(CellType),
           Len(chipRx') + Len(arriving') <= RxCap, rd' \in 0..(PtrMod - 1),
           Framed(OnChip'), \A k \in 1..Len(OnChip') : OnChip'[k].d \in InSeq(sent')
    PROVE  RxPart'
  <1>0. RxPart
    BY RxInvParts
  <1>1. RxType'
    BY <1>0 DEF RxPart, RxType
  <1>2. CallRecv' /\ RxIntact'
    BY <1>0 DEF RxPart, CallRecv, ToCopy, RxIntact
  <1>3. Received'
    BY <1>0 DEF RxPart, Received
  <1>4. InFlight'
    BY DEF InFlight, NoBulk
  <1>. QED
    BY <1>1, <1>2, <1>3, <1>4 DEF RxPart

(* A handler that runs finds no transfer in flight.                        *)
LEMMA RunsAlone ==
    ASSUME RxInv, pc # "idle"
    PROVE  bulk = NoBulk /\ NoBulk.kind = "None"
  BY RxInvParts DEF ControlPart, Handlers, NoBulk

(* A datagram is skipped without being framed.                             *)
LEMMA RxDropped ==
    ASSUME RxInv, Arrived, SetRxReadPointer((rd + Size(Incoming)) % PtrMod), pc = "run",
           UNCHANGED <<rx, rxFrames, bulk, call, sent, got>>
    PROVE  RxPart'
  <1>0. RxPart
    BY RxInvParts
  <1>1. /\ Arrived /\ SetRxReadPointer((rd + Size(Incoming)) % PtrMod) /\ pc = "run"
        /\ UNCHANGED <<rx, rxFrames, bulk, call, sent, got>>
    OBVIOUS
  <1>. DEFINE d == Incoming
  <1>2. /\ d \in DatagramType /\ Size(d) <= Len(chipRx)
        /\ \A j \in 1..Size(d) : chipRx[j] = Cell(d, j)
    BY <1>1, IncomingFirst
  <1>. HIDE DEF d
  <1>3. /\ chipRx' = Rest(chipRx, Size(d)) /\ arriving' = arriving
        /\ rd' \in 0..(PtrMod - 1)
    BY <1>1, <1>2, RxSkip DEF d
  <1>4. /\ chipRx' \in Seq(CellType) /\ arriving' \in Seq(CellType)
        /\ Len(chipRx') + Len(arriving') <= RxCap
        /\ Framed(OnChip') /\ \A k \in 1..Len(OnChip') : OnChip'[k].d \in InSeq(sent')
    BY <1>1, <1>2, <1>3, ChipAfterSkip
  <1>5. bulk' = NoBulk
    BY <1>1, RunsAlone
  <1>6. RxFramed'
    BY <1>0, <1>1 DEF RxPart, RxFramed
  <1>7. /\ rx' \in Seq(CellType) /\ Len(rx') <= RingCap /\ rxFrames' \in Nat
        /\ \A k \in 1..Len(rx') : rx'[k].d \in InSeq(sent')
    BY <1>0, <1>1 DEF RxPart, RxType, Received
  <1>. QED
    BY <1>1, <1>3, <1>4, <1>5, <1>6, <1>7, RxPassed

(* One larger than the ring is.                                            *)
LEMMA RxReceiveDrop ==
    ASSUME RxInv, ReceiveDrop
    PROVE  RxPart'
  <1>1. /\ Arrived /\ SetRxReadPointer((rd + Size(Incoming)) % PtrMod) /\ pc = "run"
        /\ UNCHANGED <<rx, rxFrames, bulk, call, sent, got>>
    BY DEF ReceiveDrop, Receiving, Ticking, ThenTransmit, rxVars, inVars
  <1>. QED
    BY <1>1, RxDropped

(* An empty datagram is framed.                                            *)
LEMMA EmptyFramed ==
    ASSUME RxInv, Arrived, pc = "run", Incoming.len = 0, Free(rx) >= Size(Incoming),
           rx' = RingWrite(rx, Header(Incoming))
    PROVE  /\ Incoming \in DatagramType /\ Size(Incoming) <= Len(chipRx)
           /\ \A j \in 1..Size(Incoming) : chipRx[j] = Cell(Incoming, j)
           /\ Size(Incoming) <= Free(rx) /\ Size(Incoming) = Hdr
           /\ rx' = rx \o Frame(Incoming) /\ bulk = NoBulk
  <1>0. RxPart
    BY RxInvParts
  <1>. DEFINE d == Incoming
  <1>1. /\ d.len = 0 /\ Free(rx) >= Size(d) /\ rx' = RingWrite(rx, Header(d))
    OBVIOUS
  <1>2. /\ d \in DatagramType /\ Size(d) <= Len(chipRx)
        /\ \A j \in 1..Size(d) : chipRx[j] = Cell(d, j)
    BY IncomingFirst
  <1>. HIDE DEF d
  <1>3. Size(d) = Hdr /\ Hdr \in Nat
    BY <1>1, HeaderAssumption DEF Size
  <1>4. rx \in Seq(CellType) /\ Len(rx) \in Nat /\ Len(rx) <= RingCap /\ Free(rx) \in Int
    BY <1>0, LenProperties, SizesAssumption DEF RxPart, RxType, Free
  <1>5. Size(d) <= Free(rx)
    BY <1>1, <1>3, <1>4
  <1>6. rx' = rx \o Frame(d)
    BY <1>1, <1>2, <1>4, <1>5, FrameWritten
  <1>7. bulk = NoBulk
    BY RunsAlone
  <1>. QED
    BY <1>2, <1>3, <1>5, <1>6, <1>7 DEF d

(* What an empty datagram does to ring and chip.                           *)
LEMMA EmptyMoved ==
    ASSUME RxInv, ReceiveEmpty
    PROVE  /\ Incoming \in DatagramType /\ Size(Incoming) <= Len(chipRx)
           /\ \A j \in 1..Size(Incoming) : chipRx[j] = Cell(Incoming, j)
           /\ Size(Incoming) <= Free(rx)
           /\ rx' = rx \o Frame(Incoming) /\ rxFrames' = rxFrames + 1
           /\ chipRx' = Rest(chipRx, Size(Incoming)) /\ arriving' = arriving
           /\ rd' \in 0..(PtrMod - 1)
           /\ UNCHANGED <<bulk, call, inVars, faults>> /\ bulk = NoBulk
  <1>. DEFINE d == Incoming
  <1>1. /\ Arrived /\ SetRxReadPointer((rd + Hdr) % PtrMod) /\ pc = "run"
        /\ d.len = 0 /\ Free(rx) >= Size(d)
        /\ rx' = RingWrite(rx, Header(d)) /\ rxFrames' = rxFrames + 1
        /\ UNCHANGED <<bulk, call, inVars, faults>>
    BY DEF ReceiveEmpty, Receiving, Ticking, ThenTransmit, bounds
  <1>2. /\ d \in DatagramType /\ Size(d) <= Len(chipRx)
        /\ \A j \in 1..Size(d) : chipRx[j] = Cell(d, j)
        /\ Size(d) <= Free(rx) /\ Size(d) = Hdr
        /\ rx' = rx \o Frame(d) /\ bulk = NoBulk
    BY <1>1, EmptyFramed
  <1>. HIDE DEF d
  <1>3. /\ chipRx' = Rest(chipRx, Size(d)) /\ arriving' = arriving
        /\ rd' \in 0..(PtrMod - 1)
    BY <1>1, <1>2, RxSkip
  <1>. QED
    BY <1>1, <1>2, <1>3 DEF d

(* An empty datagram is framed and taken off the chip.                     *)
LEMMA RxReceiveEmpty ==
    ASSUME RxInv, ReceiveEmpty
    PROVE  RxPart'
  <1>. DEFINE d == Incoming
  <1>1. /\ d \in DatagramType /\ Size(d) <= Len(chipRx)
        /\ \A j \in 1..Size(d) : chipRx[j] = Cell(d, j)
        /\ Size(d) <= Free(rx)
        /\ rx' = rx \o Frame(d) /\ rxFrames' = rxFrames + 1
        /\ chipRx' = Rest(chipRx, Size(d)) /\ arriving' = arriving
        /\ rd' \in 0..(PtrMod - 1)
        /\ UNCHANGED <<bulk, call, inVars>> /\ bulk = NoBulk
    BY EmptyMoved
  <1>. HIDE DEF d
  <1>2. UNCHANGED <<sent, got>>
    BY <1>1 DEF inVars
  <1>3. d \in InSeq(sent)
    BY <1>1, FirstOnChip
  <1>4. /\ rx' \in Seq(CellType) /\ Len(rx') <= RingCap /\ rxFrames' \in Nat
        /\ \A k \in 1..Len(rx') : rx'[k].d \in InSeq(sent')
        /\ RxFramed'
    BY <1>1, <1>2, <1>3, RxEnqueue
  <1>5. /\ chipRx' \in Seq(CellType) /\ arriving' \in Seq(CellType)
        /\ Len(chipRx') + Len(arriving') <= RxCap
        /\ Framed(OnChip') /\ \A k \in 1..Len(OnChip') : OnChip'[k].d \in InSeq(sent')
    BY <1>1, <1>2, ChipAfterSkip
  <1>. QED
    BY <1>1, <1>2, <1>4, <1>5, RxPassed

(* The bus fails under receive: what was framed by then is framed whole,   *)
(* and what was skipped is skipped whole.                                  *)
LEMMA RxReceiveFails ==
    ASSUME RxInv, ReceiveFails
    PROVE  RxPart'
  <1>0. RxPart
    BY RxInvParts
  <1>. USE DEF rxVars, chipRxVars, inVars
  <1>1. pc = "run" /\ UNCHANGED <<bulk, call, sent, got, goneIn>>
    BY DEF ReceiveFails, Receiving, Ticking
  <1>. DEFINE d == Incoming
              framed == /\ Arrived /\ d.len = 0 /\ Free(rx) >= Size(d)
                        /\ rx' = RingWrite(rx, Header(d)) /\ rxFrames' = rxFrames + 1
                        /\ SetRxReadPointer((rd + Hdr) % PtrMod) \/ UNCHANGED chipRxVars
  <1>2. \/ UNCHANGED <<rxVars, chipRxVars>>
        \/ Arrived /\ SetRxReadPointer((rd + Size(Incoming)) % PtrMod) /\ UNCHANGED rxVars
        \/ framed
    BY DEF ReceiveFails
  <1>3. CASE UNCHANGED <<rxVars, chipRxVars>>
    BY <1>1, <1>3, RxQuiet DEF rxView
  <1>4. CASE Arrived /\ SetRxReadPointer((rd + Size(Incoming)) % PtrMod) /\ UNCHANGED rxVars
    BY <1>1, <1>4, RxDropped
  <1>5. CASE framed
    <2>1. /\ d \in DatagramType /\ Size(d) <= Len(chipRx)
          /\ \A j \in 1..Size(d) : chipRx[j] = Cell(d, j)
          /\ Size(d) <= Free(rx) /\ Size(d) = Hdr
          /\ rx' = rx \o Frame(d) /\ bulk = NoBulk
      BY <1>1, <1>5, EmptyFramed
    <2>2. rxFrames' = rxFrames + 1 /\ (SetRxReadPointer((rd + Hdr) % PtrMod) \/ UNCHANGED chipRxVars)
      BY <1>5
    <2>. HIDE DEF d, framed
    <2>3. d \in InSeq(sent)
      BY <2>1, FirstOnChip
    <2>4. /\ rx' \in Seq(CellType) /\ Len(rx') <= RingCap /\ rxFrames' \in Nat
          /\ \A k \in 1..Len(rx') : rx'[k].d \in InSeq(sent')
          /\ RxFramed'
      BY <1>1, <2>1, <2>2, <2>3, RxEnqueue
    <2>5. /\ chipRx' \in Seq(CellType) /\ arriving' \in Seq(CellType)
          /\ Len(chipRx') + Len(arriving') <= RxCap /\ rd' \in 0..(PtrMod - 1)
          /\ Framed(OnChip') /\ \A k \in 1..Len(OnChip') : OnChip'[k].d \in InSeq(sent')
      <3>1. CASE SetRxReadPointer((rd + Hdr) % PtrMod)
        <4>1. /\ chipRx' = Rest(chipRx, Size(d)) /\ arriving' = arriving
              /\ rd' \in 0..(PtrMod - 1)
          BY <2>1, <3>1, RxSkip
        <4>. QED
          BY <1>1, <2>1, <4>1, ChipAfterSkip
      <3>2. CASE UNCHANGED chipRxVars
        BY <1>0, <1>1, <3>2 DEF RxPart, RxType, Received, OnChip
      <3>. QED
        BY <2>2, <3>1, <3>2
    <2>. QED
      BY <1>1, <2>1, <2>4, <2>5, RxPassed
  <1>. QED
    BY <1>2, <1>3, <1>4, <1>5

(* A transfer is started: of the payload of the first datagram on the chip. *)
LEMMA RxReceiveStart ==
    ASSUME RxInv, ReceiveStart
    PROVE  RxPart' /\ BulkType'
  <1>0. RxPart /\ BulkType
    BY RxInvParts
  <1>. DEFINE d == Incoming
  <1>1. /\ Arrived /\ pc = "run" /\ Free(rx) >= Size(d)
        /\ UNCHANGED <<call, rxView>>
    BY DEF ReceiveStart, Receiving, Ticking, rxVars, inVars, chipRxVars, rxView
  <1>2. CASE bulk' = bulk
    <2>1. BulkType'
      BY <1>0, <1>2 DEF BulkType
    <2>. QED
      BY <1>1, <1>2, <2>1, RxQuiet
  <1>3. CASE bulk' # bulk
    <2>1. bulk' = [kind |-> "ReceiveDatagram", d |-> d,
                   data |-> Front(Rest(chipRx, Hdr), d.len), pointer |-> (rd + Hdr) % PtrMod]
      BY <1>3 DEF ReceiveStart
    <2>2. /\ d \in DatagramType /\ Size(d) <= Len(chipRx)
          /\ \A j \in 1..Size(d) : chipRx[j] = Cell(d, j)
      BY <1>1, IncomingFirst
    <2>. HIDE DEF d
    <2>3. /\ chipRx \in Seq(CellType) /\ Len(chipRx) \in Nat /\ rd \in 0..(PtrMod - 1)
          /\ rx \in Seq(CellType) /\ Len(rx) \in Nat /\ Free(rx) \in Int
      BY <1>0, LenProperties, SizesAssumption DEF RxPart, RxType, Free
    <2>4. /\ Hdr \in Nat /\ d.len \in Nat /\ Size(d) = Hdr + d.len /\ Size(d) \in Nat
          /\ Payload(d) \in Seq(CellType) /\ Len(Payload(d)) = d.len
      BY <2>2, FrameCells DEF Size
    <2>5. \A i \in 1..d.len : Payload(d)[i] = Cell(d, Hdr + i)
      BY DEF Payload
    <2>. DEFINE r == Rest(chipRx, Hdr)
                f == Front(r, d.len)
    <2>6. Hdr <= Len(chipRx)
      BY <2>2, <2>3, <2>4
    <2>7. r \in Seq(CellType) /\ Len(r) = Len(chipRx) - Hdr /\ \A i \in 1..Len(r) : r[i] = chipRx[Hdr + i]
      BY <2>3, <2>4, <2>6, RestCells
    <2>. HIDE DEF r
    <2>8. d.len <= Len(r)
      BY <2>2, <2>3, <2>4, <2>7
    <2>9. f \in Seq(CellType) /\ Len(f) = d.len /\ \A i \in 1..Len(f) : f[i] = r[i]
      <3>. DEFINE n == d.len
      <3>1. r \in Seq(CellType) /\ n \in Nat /\ n <= Len(r)
        BY <2>4, <2>7, <2>8
      <3>. HIDE DEF n
      <3>2. /\ Front(r, n) \in Seq(CellType) /\ Len(Front(r, n)) = n
            /\ \A i \in 1..Len(Front(r, n)) : Front(r, n)[i] = r[i]
        BY ONLY <3>1, FrontCells
      <3>. QED
        BY <3>2 DEF n
    <2>. HIDE DEF f
    <2>10. f = Payload(d)
      <3>1. ASSUME NEW i \in 1..d.len PROVE f[i] = Payload(d)[i]
        <4>1. i \in 1..Len(r) /\ Hdr + i \in 1..Size(d)
          BY <2>3, <2>4, <2>7, <2>8
        <4>. QED
          BY <2>2, <2>5, <2>7, <2>9, <4>1
      <3>. QED
        BY <2>4, <2>9, <3>1, SeqEqual
    <2>11. bulk' = [kind |-> "ReceiveDatagram", d |-> d,
                    data |-> Payload(d), pointer |-> (rd + Hdr) % PtrMod]
      BY <2>1, <2>10 DEF f, r
    <2>12. (rd + Hdr) % PtrMod \in 0..(PtrMod - 1)
      <3>. DEFINE a == rd + Hdr
      <3>1. a \in Int /\ PtrMod \in Nat \ {0}
        BY <2>3, <2>4, PointerAssumption, SizesAssumption
      <3>. HIDE DEF a
      <3>2. a % PtrMod \in 0..(PtrMod - 1)
        BY <3>1, ModNear
      <3>. QED
        BY <3>2 DEF a
    <2>13. BulkType'
      BY <2>2, <2>4, <2>11, <2>12 DEF BulkType
    <2>14. InFlight'
      <3>1. Size(d) <= Free(rx)
        BY <1>1, <2>3, <2>4 DEF d
      <3>. QED
        BY <1>1, <2>2, <2>11, <3>1 DEF InFlight, rxView
    <2>15. RxType' /\ CallRecv' /\ Received' /\ RxFramed' /\ RxIntact'
      BY <1>0, <1>1 DEF RxPart, rxView, RxType, CallRecv, ToCopy, Received, OnChip, RxFramed,
                        RxIntact
    <2>. QED
      BY <2>13, <2>14, <2>15 DEF RxPart
  <1>. QED
    BY <1>2, <1>3

(* What the end of a transfer does to ring and chip.                       *)
LEMMA DatagramMoved ==
    ASSUME RxInv, NEW ok \in BOOLEAN, DmaReceived(ok)
    PROVE  /\ bulk.d \in DatagramType /\ Size(bulk.d) <= Len(chipRx)
           /\ \A j \in 1..Size(bulk.d) : chipRx[j] = Cell(bulk.d, j)
           /\ Size(bulk.d) <= Free(rx)
           /\ rx' = rx \o Frame(bulk.d) /\ rxFrames' = rxFrames + 1
           /\ \/ chipRx' = Rest(chipRx, Size(bulk.d)) /\ rd' \in 0..(PtrMod - 1)
              \/ ~ok /\ UNCHANGED <<chipRx, rd>>
           /\ bulk' = NoBulk
           /\ faults' = IF ok THEN faults ELSE faults + 1
           /\ UNCHANGED <<arriving, call, inVars>>
  <1>0. RxPart /\ BulkType
    BY RxInvParts
  <1>. DEFINE d == bulk.d
              e == Datagram(bulk.d.id, Len(bulk.data))
  <1>1. /\ bulk.kind = "ReceiveDatagram"
        /\ rx' = RingWrite(RingWrite(rx, Header(e)), bulk.data) /\ rxFrames' = rxFrames + 1
        /\ \/ SetRxReadPointer((bulk.pointer + Len(bulk.data)) % PtrMod)
           \/ ~ok /\ UNCHANGED <<chipRx, rd, arriving>>
        /\ bulk' = NoBulk /\ faults' = (IF ok THEN faults ELSE faults + 1)
        /\ UNCHANGED <<call, inVars>>
    BY DEF DmaReceived, Completing, chipRxVars
  <1>2. /\ Size(d) <= Len(chipRx) /\ \A j \in 1..Size(d) : chipRx[j] = Cell(d, j)
        /\ bulk.data = Payload(d) /\ bulk.pointer = (rd + Hdr) % PtrMod
        /\ Size(d) <= Free(rx)
    BY <1>0, <1>1 DEF RxPart, InFlight
  <1>3. d \in DatagramType
    BY <1>0 DEF BulkType
  <1>4. Len(Payload(d)) = d.len /\ Hdr \in Nat /\ d.len \in Nat /\ Size(d) = Hdr + d.len
    BY <1>3, FrameCells DEF Size
  <1>5. e = d
    <2>1. e = [id |-> d.id, len |-> d.len]
      BY <1>2, <1>4 DEF Datagram
    <2>. QED
      BY <1>3, <2>1 DEF DatagramType
  <1>6. rx \in Seq(CellType) /\ Len(rx) <= RingCap /\ rd \in 0..(PtrMod - 1)
    BY <1>0 DEF RxPart, RxType
  <1>7. rx' = rx \o Frame(d)
    <2>1. rx' = RingWrite(RingWrite(rx, Header(d)), Payload(d))
      BY <1>1, <1>2, <1>5
    <2>. QED
      BY <1>2, <1>3, <1>6, <2>1, FrameWritten
  <1>. HIDE DEF d, e
  <1>8. ASSUME SetRxReadPointer((bulk.pointer + Len(bulk.data)) % PtrMod)
        PROVE  chipRx' = Rest(chipRx, Size(d)) /\ rd' \in 0..(PtrMod - 1) /\ arriving' = arriving
    <2>1. Size(d) \in Nat /\ Size(d) < PtrMod
      BY <1>2, <1>3, FirstOnChip
    <2>2. (((rd + Hdr) % PtrMod) + d.len) % PtrMod = (rd + Size(d)) % PtrMod
      <3>. DEFINE n == Size(d)
                  l == d.len
      <3>1. n \in Nat /\ n < PtrMod /\ Hdr + l = n /\ l \in Nat
        BY <1>4, <2>1
      <3>. HIDE DEF n, l
      <3>2. \A h, i \in Nat : h + i = n => (((rd + h) % PtrMod) + i) % PtrMod = (rd + n) % PtrMod
        BY <1>6, <3>1, PointerMove
      <3>3. (((rd + Hdr) % PtrMod) + l) % PtrMod = (rd + n) % PtrMod
        BY <1>4, <3>1, <3>2
      <3>. QED
        BY <3>3 DEF n, l
    <2>3. SetRxReadPointer((((rd + Hdr) % PtrMod) + d.len) % PtrMod)
      BY <1>2, <1>4, <1>8
    <2>4. SetRxReadPointer((rd + Size(d)) % PtrMod)
      BY <2>2, <2>3
    <2>. QED
      BY <1>2, <1>3, <2>4, RxSkip
  <1>. QED
    BY <1>1, <1>2, <1>3, <1>7, <1>8 DEF d

(* A transfer ends: its datagram is framed, and skipped unless the bus     *)
(* failed before that.                                                     *)
LEMMA RxDmaReceived ==
    ASSUME RxInv, NEW ok \in BOOLEAN, DmaReceived(ok)
    PROVE  RxPart'
  <1>0. RxPart
    BY RxInvParts
  <1>. DEFINE d == bulk.d
  <1>1. /\ d \in DatagramType /\ Size(d) <= Len(chipRx)
        /\ \A j \in 1..Size(d) : chipRx[j] = Cell(d, j)
        /\ Size(d) <= Free(rx)
        /\ rx' = rx \o Frame(d) /\ rxFrames' = rxFrames + 1
        /\ \/ chipRx' = Rest(chipRx, Size(d)) /\ rd' \in 0..(PtrMod - 1)
           \/ UNCHANGED <<chipRx, rd>>
        /\ bulk' = NoBulk
        /\ UNCHANGED <<arriving, call, inVars>>
    BY DatagramMoved
  <1>. HIDE DEF d
  <1>2. UNCHANGED <<sent, got>>
    BY <1>1 DEF inVars
  <1>3. d \in InSeq(sent)
    BY <1>1, FirstOnChip
  <1>4. /\ rx' \in Seq(CellType) /\ Len(rx') <= RingCap /\ rxFrames' \in Nat
        /\ \A k \in 1..Len(rx') : rx'[k].d \in InSeq(sent')
        /\ RxFramed'
    BY <1>1, <1>2, <1>3, RxEnqueue
  <1>5. /\ chipRx' \in Seq(CellType) /\ arriving' \in Seq(CellType)
        /\ Len(chipRx') + Len(arriving') <= RxCap /\ rd' \in 0..(PtrMod - 1)
        /\ Framed(OnChip') /\ \A k \in 1..Len(OnChip') : OnChip'[k].d \in InSeq(sent')
    <2>1. CASE chipRx' = Rest(chipRx, Size(d)) /\ rd' \in 0..(PtrMod - 1)
      BY <1>1, <1>2, <2>1, ChipAfterSkip
    <2>2. CASE UNCHANGED <<chipRx, rd>>
      BY <1>0, <1>1, <1>2, <2>2 DEF RxPart, RxType, Received, OnChip
    <2>. QED
      BY <1>1, <2>1, <2>2
  <1>. QED
    BY <1>1, <1>2, <1>4, <1>5, RxPassed

(* Every step keeps what is received framed and intact.                    *)
LEMMA RxStep == RxInv /\ [Next]_vars => RxPart'
  <1>. SUFFICES ASSUME RxInv, [Next]_vars PROVE RxPart'
    OBVIOUS
  <1>0. ControlPart
    BY RxInvParts
  <1>1. CASE Quiet
    <2>1. UNCHANGED <<rxView, bulk, call>>
      BY <1>1, QuietKeeps
    <2>. QED
      BY <2>1, RxQuiet
  <1>. USE DEF rxView, rxVars, chipRxVars, inVars
  <1>2. ASSUME NEW answered \in BOOLEAN, ChipSends(answered) PROVE RxPart'
    <2>1. UNCHANGED <<rxView, bulk, call>>
      BY <1>2 DEF ChipSends
    <2>. QED
      BY <2>1, RxQuiet
  <1>3. ASSUME NEW n \in OutLens, SendBegin(n) PROVE RxPart'
    <2>1. UNCHANGED <<rxView, bulk>> /\ call.op # "recv" /\ call'.op # "recv"
      BY <1>3 DEF SendBegin, AppFree, NoCall
    <2>. QED
      BY <2>1, RxQuiet
  <1>4. CASE SendPayload
    <2>1. UNCHANGED <<rxView, bulk>> /\ call.op # "recv"
      BY <1>4 DEF SendPayload
    <2>2. call'.op = "payload"
      BY <1>4, RxInvParts DEF SendPayload, CallType
    <2>. QED
      BY <2>1, <2>2, RxQuiet
  <1>5. CASE SendCommit
    <2>1. UNCHANGED <<rxView, bulk>> /\ call.op # "recv" /\ call'.op # "recv"
      BY <1>5 DEF SendCommit, NoCall
    <2>. QED
      BY <2>1, RxQuiet
  <1>6. CASE TransmitEmpty
    <2>1. UNCHANGED <<rxView, bulk, call>>
      BY <1>6 DEF TransmitEmpty
    <2>. QED
      BY <2>1, RxQuiet
  <1>7. CASE TransmitStart
    <2>1. UNCHANGED <<rxView, call>> /\ (bulk' = bulk \/ bulk'.kind # "ReceiveDatagram")
      BY <1>7 DEF TransmitStart
    <2>. QED
      BY <2>1, RxQuiet
  <1>8. ASSUME NEW staged \in BOOLEAN, TransmitFails(staged) PROVE RxPart'
    <2>1. UNCHANGED <<rxView, bulk, call>>
      BY <1>8 DEF TransmitFails
    <2>. QED
      BY <2>1, RxQuiet
  <1>9. ASSUME NEW ok \in BOOLEAN, DmaSent(ok) PROVE RxPart'
    <2>1. UNCHANGED <<rxView, call>> /\ bulk'.kind # "ReceiveDatagram"
      BY <1>9 DEF DmaSent, Completing, NoBulk
    <2>. QED
      BY <2>1, RxQuiet
  <1>10. CASE ChipCommand
    <2>1. WipeBuffers /\ cr # "none" /\ UNCHANGED <<rxVars, bulk, call>>
      BY <1>10 DEF ChipCommand
    <2>2. bulk = NoBulk
      BY <1>0, <2>1 DEF ControlPart, Handlers
    <2>. QED
      BY <2>1, <2>2, RxWipe
  <1>11. CASE LinkReset
    <2>1. WipeBuffers /\ bulk = NoBulk /\ UNCHANGED <<rxVars, bulk, call>>
      BY <1>11 DEF LinkReset
    <2>. QED
      BY <2>1, RxWipe
  <1>12. CASE Open
    <2>1. EmptyRings /\ st = "Free" /\ UNCHANGED <<chipRxVars, bulk, call>>
      BY <1>12 DEF Open
    <2>2. call = NoCall
      BY <1>0, <2>1 DEF ControlPart, CallHeld
    <2>. QED
      BY <2>1, <2>2, RxEmpty
  <1>13. CASE Reconnect
    <2>1. EmptyRings /\ call = NoCall /\ UNCHANGED <<chipRxVars, bulk, call>>
      BY <1>13 DEF Reconnect, AppFree
    <2>. QED
      BY <2>1, RxEmpty
  <1>. QED
    BY <1>1, <1>2, <1>3, <1>4, <1>5, <1>6, <1>7, <1>8, <1>9, <1>10, <1>11, <1>12, <1>13,
       RxPeerSends, RxPeerFinishes, RxRecvBegin, RxRecvRead, RxRecvEnd, RxReceiveDrop,
       RxReceiveEmpty, RxReceiveStart, RxReceiveFails, RxDmaReceived, NextCases

-----------------------------------------------------------------------------
(* Types, and the room in the TX buffer.                                   *)

\* What the way out establishes at every step, whatever the bus does.
TxPart == TxType /\ Room /\ CallSend

\* A send_to is in progress.
InSend == call.op \in {"header", "payload"}

(* Nothing is of every type.                                               *)
LEMMA NoneTypes ==
    /\ Nobody \in DatagramType /\ <<>> \in Seq(CellType) /\ Len(<<>>) = 0
    /\ <<>> \in Seq(MessageType)
    /\ NoBulk \in [kind : {"None", "ReceiveDatagram", "Transmit"}, d : DatagramType,
                   data : Seq(CellType), pointer : 0..(PtrMod - 1)]
    /\ NoCall \in [op : {"none", "recv", "header", "payload"}, d : DatagramType,
                   dst : Nat, left : Nat, data : Seq(CellType)]
  <1>1. /\ Nobody \in DatagramType /\ <<>> \in Seq(CellType) /\ Len(<<>>) = 0
        /\ <<>> \in Seq(MessageType)
    BY EmptySeq DEF Nobody, Datagram, DatagramType
  <1>2. 0 \in 0..(PtrMod - 1)
    BY PointerAssumption, SizesAssumption
  <1>. QED
    BY <1>1, <1>2 DEF NoBulk, NoCall

(* Steps that do not touch what is sent.                                   *)
LEMMA TxQuiet ==
    ASSUME RxInv, UNCHANGED txView, call' = call \/ ~(InSend'),
           bulk' = bulk \/ bulk'.kind # "Transmit"
    PROVE  TxPart'
  <1>0. TxType /\ Room /\ CallSend
    BY RxInvParts
  <1>. USE DEF txView
  <1>1. TxType'
    BY <1>0 DEF TxType
  <1>2. Room'
    BY <1>0 DEF Room
  <1>3. CallSend'
    BY <1>0 DEF CallSend, InSend
  <1>. QED
    BY <1>1, <1>2, <1>3 DEF TxPart

(* Cells taken out of the tx ring leave more room in it.                   *)
LEMMA TxTaken ==
    ASSUME RxInv, NEW n \in Nat, tx' = Rest(tx, n), UNCHANGED <<call, accepted>>
    PROVE  tx' \in Seq(CellType) /\ Len(tx') <= RingCap /\ CallSend'
  <1>1. tx \in Seq(CellType) /\ Len(tx) <= RingCap /\ CallSend /\ CallType
    BY RxInvParts DEF TxType
  <1>2. tx' \in Seq(CellType) /\ Len(tx') <= Len(tx)
    BY <1>1, RestCells
  <1>3. Len(tx) \in Nat /\ Len(tx') \in Nat /\ RingCap \in Nat
    BY <1>1, <1>2, LenProperties, SizesAssumption
  <1>4. call.d.len \in Nat
    BY <1>1 DEF CallType, DatagramType
  <1>5. Len(tx') <= RingCap
    BY <1>1, <1>2, <1>3
  <1>6. call.d.len <= Free(tx) => call.d.len <= Free(tx')
    BY <1>2, <1>3, <1>4 DEF Free
  <1>7. CallSend'
    BY <1>1, <1>6 DEF CallSend
  <1>. QED
    BY <1>2, <1>5, <1>7

(* SEND with no more data than there is room for.                          *)
LEMMA SendType ==
    ASSUME TxType, NEW d \in DatagramType, NEW data \in Seq(CellType), Len(data) <= fsr,
           Send(d, data)
    PROVE  chipTx' \in Seq(CellType) /\ wire' \in Seq(MessageType) /\ fsr' \in Nat
  <1>. DEFINE m == [d |-> d, data |-> chipTx \o data]
  <1>1. /\ chipTx \in Seq(CellType) /\ wire \in Seq(MessageType) /\ fsr \in Nat
        /\ Len(chipTx) \in Nat /\ Len(data) \in Nat
    BY LenProperties DEF TxType
  <1>2. chipTx \o data \in Seq(CellType)
    BY <1>1, ConcatCells
  <1>3. m \in MessageType
    BY <1>2 DEF MessageType
  <1>4. chipTx' \in Seq(CellType)
    BY EmptySeq DEF Send
  <1>5. CASE sr = "Udp"
    <2>1. wire' = Append(wire, m) /\ fsr' = fsr - Len(data)
      BY <1>5 DEF Send
    <2>. HIDE DEF m
    <2>. QED
      BY <1>1, <1>3, <1>4, <2>1, AppendProperties
  <1>6. CASE sr # "Udp"
    <2>1. wire' = wire /\ fsr' = fsr + Len(chipTx)
      BY <1>6 DEF Send
    <2>. QED
      BY <1>1, <1>4, <2>1
  <1>. QED
    BY <1>5, <1>6

(* The chip's buffers are emptied, between transfers.                      *)
LEMMA TxWipe ==
    ASSUME RxInv, WipeBuffers, bulk = NoBulk, UNCHANGED <<txVars, bulk, call>>
    PROVE  TxPart'
  <1>0. TxType /\ CallSend
    BY RxInvParts
  <1>1. /\ chipTx' = <<>> /\ wire' = <<>> /\ fsr' = TxCap
        /\ UNCHANGED <<tx, txFrames, dst, accepted, peerGot>>
    BY DEF WipeBuffers, txVars
  <1>2. TxType'
    BY <1>0, <1>1, NoneTypes, SizesAssumption DEF TxType
  <1>3. Room'
    BY DEF Room, NoBulk
  <1>4. CallSend'
    BY <1>0, <1>1 DEF CallSend
  <1>. QED
    BY <1>2, <1>3, <1>4 DEF TxPart

(* The rings are emptied, between calls.                                   *)
LEMMA TxEmpty ==
    ASSUME RxInv, EmptyRings, call = NoCall, UNCHANGED <<chipTxVars, bulk, call>>
    PROVE  TxPart'
  <1>0. TxType /\ Room
    BY RxInvParts
  <1>1. /\ tx' = <<>> /\ txFrames' = 0
        /\ UNCHANGED <<dst, chipTx, wire, fsr, accepted, peerGot>>
    BY DEF EmptyRings, chipTxVars
  <1>2. TxType'
    BY <1>0, <1>1, NoneTypes, SizesAssumption DEF TxType
  <1>3. Room'
    BY <1>0, <1>1 DEF Room
  <1>4. CallSend'
    BY DEF CallSend, NoCall
  <1>. QED
    BY <1>2, <1>3, <1>4 DEF TxPart

(* A datagram leaves the chip.                                             *)
LEMMA TxChipSends ==
    ASSUME RxInv, NEW answered \in BOOLEAN, ChipSends(answered)
    PROVE  TxPart'
  <1>0. TxType /\ Room /\ CallSend /\ BulkType
    BY RxInvParts
  <1>1. /\ wire # <<>> /\ wire' = Tail(wire) /\ fsr' = fsr + Len(Head(wire).data)
        /\ peerGot' = Append(peerGot, Head(wire)) \/ peerGot' = peerGot
        /\ UNCHANGED <<tx, txFrames, dst, chipTx, accepted, bulk, call>>
    BY DEF ChipSends, txVars
  <1>2. wire \in Seq(MessageType) /\ peerGot \in Seq(MessageType) /\ fsr \in Nat
    BY <1>0 DEF TxType
  <1>3. Head(wire) \in MessageType /\ Tail(wire) \in Seq(MessageType)
    BY <1>1, <1>2, HeadTailProperties
  <1>4. Len(Head(wire).data) \in Nat
    <2>1. Head(wire).data \in Seq(CellType)
      BY <1>3 DEF MessageType
    <2>. QED
      BY <2>1, LenProperties
  <1>5. peerGot' \in Seq(MessageType)
    <2>. DEFINE m == Head(wire)
    <2>1. m \in MessageType
      BY <1>3
    <2>. HIDE DEF m
    <2>2. Append(peerGot, m) \in Seq(MessageType)
      BY <1>2, <2>1, AppendProperties
    <2>. QED
      BY <1>1, <1>2, <2>2 DEF m
  <1>6. TxType'
    BY <1>0, <1>1, <1>2, <1>3, <1>4, <1>5 DEF TxType
  <1>7. Room'
    <2>1. bulk.data \in Seq(CellType)
      BY <1>0 DEF BulkType
    <2>2. Len(bulk.data) \in Nat
      BY <2>1, LenProperties
    <2>3. Len(bulk.data) <= fsr => Len(bulk.data) <= fsr'
      BY <1>1, <1>2, <1>4, <2>2
    <2>. QED
      BY <1>0, <1>1, <2>3 DEF Room
  <1>8. CallSend'
    BY <1>0, <1>1 DEF CallSend
  <1>. QED
    BY <1>6, <1>7, <1>8 DEF TxPart

(* send_to writes a header.                                                *)
LEMMA TxSendBegin ==
    ASSUME RxInv, NEW n \in OutLens, SendBegin(n)
    PROVE  /\ TxPart' /\ CallType'
           /\ LET d == Datagram(Len(accepted) + 1, n)
              IN /\ d \in DatagramType /\ Size(d) <= Free(tx) /\ tx' = tx \o Header(d)
                 /\ call'.op = "header" /\ call'.d = d
  <1>0. TxType /\ Room
    BY RxInvParts
  <1>. DEFINE d == Datagram(Len(accepted) + 1, n)
  <1>1. /\ Free(tx) >= Size(d) /\ tx' = RingWrite(tx, Header(d)) /\ Len(accepted) < MaxOut
        /\ call' = [NoCall EXCEPT !.op = "header", !.d = d]
        /\ UNCHANGED <<txFrames, bulk, dst, chipTx, wire, fsr, accepted, peerGot>>
    BY DEF SendBegin, chipTxVars, outVars
  <1>2. tx \in Seq(CellType) /\ Len(tx) <= RingCap /\ Len(accepted) \in Nat /\ n \in Nat
    BY <1>0, LensAssumption, LenProperties DEF TxType
  <1>3. d \in DatagramType /\ d.id = Len(accepted) + 1 /\ d.len = n
    BY <1>2 DEF Datagram, DatagramType
  <1>. HIDE DEF d
  <1>4. Size(d) <= Free(tx)
    <2>1. Size(d) \in Nat /\ Free(tx) \in Int
      BY <1>2, <1>3, FrameCells, SizesAssumption, LenProperties DEF Free
    <2>. QED
      BY <1>1, <2>1
  <1>5. /\ tx' = tx \o Header(d)
        /\ tx' \in Seq(CellType) /\ Len(tx') <= RingCap /\ d.len <= Free(tx')
    BY <1>1, <1>2, <1>3, <1>4, FrameWritten
  <1>6. call'.op = "header" /\ call'.d = d /\ CallType'
    BY <1>1, <1>3, NoneTypes DEF NoCall, CallType
  <1>7. TxType'
    BY <1>0, <1>1, <1>5 DEF TxType
  <1>8. Room'
    BY <1>0, <1>1 DEF Room
  <1>9. CallSend'
    <2>1. Len(accepted) + 1 <= MaxOut
      BY <1>1, <1>2, LimitsAssumption
    <2>. QED
      BY <1>1, <1>3, <1>5, <1>6, <2>1 DEF CallSend
  <1>10. TxPart'
    BY <1>7, <1>8, <1>9 DEF TxPart
  <1>. QED
    BY <1>3, <1>4, <1>5, <1>6, <1>10 DEF d

(* send_to writes the payload, for which there is room.                    *)
LEMMA TxSendPayload ==
    ASSUME RxInv, SendPayload
    PROVE  /\ TxPart' /\ CallType'
           /\ call.d \in DatagramType /\ tx' = tx \o Payload(call.d)
           /\ call'.op = "payload" /\ call'.d = call.d
  <1>0. TxType /\ Room /\ CallSend /\ CallType
    BY RxInvParts
  <1>1. /\ call.op = "header" /\ tx' = RingWrite(tx, Payload(call.d))
        /\ call' = [call EXCEPT !.op = "payload"]
        /\ UNCHANGED <<txFrames, bulk, dst, chipTx, wire, fsr, accepted, peerGot>>
    BY DEF SendPayload, chipTxVars, outVars
  <1>2. tx \in Seq(CellType) /\ Len(tx) <= RingCap /\ call.d \in DatagramType
    BY <1>0 DEF TxType, CallType
  <1>3. call'.op = "payload" /\ call'.d = call.d /\ CallType'
    BY <1>0, <1>1 DEF CallType
  <1>4. Payload(call.d) \in Seq(CellType) /\ Len(Payload(call.d)) <= Free(tx)
    BY <1>0, <1>1, <1>2, FrameCells DEF CallSend
  <1>5. tx' \in Seq(CellType) /\ Len(tx') <= RingCap /\ tx' = tx \o Payload(call.d)
    BY <1>1, <1>2, <1>4, RingWriteKeeps
  <1>6. TxType'
    BY <1>0, <1>1, <1>5 DEF TxType
  <1>7. Room'
    BY <1>0, <1>1 DEF Room
  <1>8. CallSend'
    BY <1>0, <1>1, <1>3 DEF CallSend
  <1>. QED
    BY <1>2, <1>3, <1>5, <1>6, <1>7, <1>8 DEF TxPart

(* send_to counts the frame.                                               *)
LEMMA TxSendCommit ==
    ASSUME RxInv, SendCommit
    PROVE  /\ TxPart' /\ CallType'
           /\ accepted' \in Seq([id : Nat, len : OutLens]) /\ Len(accepted') = Len(accepted) + 1
           /\ Len(accepted) \in Nat /\ accepted'[Len(accepted) + 1] = call.d
           /\ \A i \in 1..Len(accepted) : accepted'[i] = accepted[i]
           /\ call.d.id = Len(accepted) + 1
           /\ InSeq(accepted') = InSeq(accepted) \cup {call.d}
  <1>0. TxType /\ Room /\ CallSend /\ CallType
    BY RxInvParts
  <1>. DEFINE T == [id : Nat, len : OutLens]
              d == call.d
  <1>1. /\ call.op = "payload" /\ accepted' = Append(accepted, d) /\ call' = NoCall
        /\ txFrames' = txFrames + 1
        /\ UNCHANGED <<tx, bulk, dst, chipTx, wire, fsr, peerGot>>
    BY DEF SendCommit, chipTxVars
  <1>2. d.id = Len(accepted) + 1 /\ d.len \in OutLens /\ accepted \in Seq(T)
    BY <1>0, <1>1 DEF CallSend, TxType
  <1>3. d \in T
    <2>1. d \in DatagramType
      BY <1>0 DEF CallType
    <2>. QED
      BY <1>2, <2>1 DEF DatagramType
  <1>. HIDE DEF T, d
  <1>4. /\ accepted' \in Seq(T) /\ Len(accepted') = Len(accepted) + 1 /\ Len(accepted) \in Nat
        /\ accepted'[Len(accepted) + 1] = d
        /\ \A i \in 1..Len(accepted) : accepted'[i] = accepted[i]
    BY <1>1, <1>2, <1>3, AppendProperties, LenProperties
  <1>5. InSeq(accepted') = InSeq(accepted) \cup {d}
    <2>1. accepted \in Seq(T) /\ d \in T
      BY <1>2, <1>3
    <2>2. InSeq(Append(accepted, d)) = InSeq(accepted) \cup {d}
      BY ONLY <2>1, SentGrows
    <2>. QED
      BY <1>1, <2>2
  <1>6. CallType'
    BY <1>1, NoneTypes DEF CallType
  <1>7. Len(accepted') <= MaxOut
    BY <1>0, <1>1, <1>2, <1>4 DEF CallSend, d
  <1>8. TxType'
    BY <1>0, <1>1, <1>4, <1>7 DEF TxType, T
  <1>9. Room'
    BY <1>0, <1>1 DEF Room
  <1>10. CallSend'
    BY <1>1 DEF CallSend, NoCall
  <1>. QED
    BY <1>2, <1>4, <1>5, <1>6, <1>8, <1>9, <1>10 DEF TxPart, T, d

(* An empty datagram is sent.                                              *)
LEMMA TxTransmitEmpty ==
    ASSUME RxInv, TransmitEmpty
    PROVE  TxPart'
  <1>0. TxType /\ Room
    BY RxInvParts
  <1>1. /\ tx' = Rest(tx, Hdr) /\ txFrames > 0 /\ txFrames' = txFrames - 1
        /\ dst' = Outgoing /\ Send(Outgoing, <<>>) /\ pc = "tx"
        /\ UNCHANGED <<bulk, call, accepted, peerGot>>
    BY DEF TransmitEmpty, Transmitting, Sendable, SetDst
  <1>2. Outgoing \in DatagramType
    BY <1>0, ParseType DEF TxType, Outgoing
  <1>3. tx' \in Seq(CellType) /\ Len(tx') <= RingCap /\ CallSend'
    BY <1>1, HeaderAssumption, TxTaken
  <1>4. <<>> \in Seq(CellType) /\ Len(<<>>) <= fsr
    BY <1>0, NoneTypes DEF TxType
  <1>5. chipTx' \in Seq(CellType) /\ wire' \in Seq(MessageType) /\ fsr' \in Nat
    BY <1>0, <1>1, <1>2, <1>4, SendType
  <1>6. TxType'
    BY <1>0, <1>1, <1>2, <1>3, <1>5 DEF TxType
  <1>7. Room'
    BY <1>1, RunsAlone DEF Room
  <1>. QED
    BY <1>3, <1>6, <1>7 DEF TxPart

(* A transfer is started, for which the chip has room, or refused.         *)
LEMMA TxTransmitStart ==
    ASSUME RxInv, TransmitStart
    PROVE  TxPart' /\ BulkType'
  <1>0. TxType /\ Room /\ BulkType
    BY RxInvParts
  <1>. DEFINE d == Outgoing
              data == Front(Rest(tx, Hdr), d.len)
  <1>1. /\ pc = "tx" /\ dst' = d /\ txFrames > 0 /\ fsr >= d.len
        /\ \/ /\ bulk' = [kind |-> "Transmit", d |-> d, data |-> data, pointer |-> 0]
              /\ tx' = Rest(tx, Size(d)) /\ txFrames' = txFrames - 1
           \/ tx' = Rest(tx, Hdr) /\ UNCHANGED <<bulk, txFrames>>
        /\ UNCHANGED <<call, chipTx, wire, fsr, accepted, peerGot>>
    BY DEF TransmitStart, Transmitting, Sendable, SetDst, TxFree, outVars
  <1>2. d \in DatagramType /\ tx \in Seq(CellType) /\ fsr \in Nat /\ txFrames \in Nat
    BY <1>0, ParseType DEF TxType, Outgoing
  <1>. HIDE DEF d
  <1>3. Hdr \in Nat /\ Size(d) \in Nat /\ d.len \in Nat
    BY <1>2, FrameCells
  <1>4. data \in Seq(CellType) /\ Len(data) <= d.len
    <2>. DEFINE r == Rest(tx, Hdr)
                n == d.len
    <2>1. r \in Seq(CellType) /\ n \in Nat
      BY <1>2, <1>3, RestCells
    <2>. HIDE DEF r, n
    <2>2. Front(r, n) \in Seq(CellType) /\ Len(Front(r, n)) <= n
      BY ONLY <2>1, FrontCells
    <2>. QED
      BY <2>2 DEF r, n
  <1>. HIDE DEF data
  <1>5. \E n \in Nat : tx' = Rest(tx, n)
    BY <1>1, <1>3
  <1>6. tx' \in Seq(CellType) /\ Len(tx') <= RingCap /\ CallSend'
    BY <1>1, <1>5, TxTaken
  <1>7. TxType'
    BY <1>0, <1>1, <1>2, <1>6 DEF TxType
  <1>8. 0 \in 0..(PtrMod - 1)
    BY PointerAssumption, SizesAssumption
  <1>9. BulkType'
    BY <1>0, <1>1, <1>2, <1>4, <1>8 DEF BulkType
  <1>10. Room'
    <2>1. Len(data) \in Nat
      BY <1>4, LenProperties
    <2>2. Len(data) <= fsr'
      BY <1>1, <1>2, <1>3, <1>4, <2>1
    <2>. QED
      BY <1>0, <1>1, <2>2 DEF Room
  <1>. QED
    BY <1>6, <1>7, <1>9, <1>10 DEF TxPart

(* The bus fails under transmit.                                           *)
LEMMA TxTransmitFails ==
    ASSUME RxInv, NEW staged \in BOOLEAN, TransmitFails(staged)
    PROVE  TxPart'
  <1>0. TxType /\ Room
    BY RxInvParts
  <1>1. /\ tx' = Rest(tx, IF staged THEN Size(Outgoing) ELSE Hdr)
        /\ UNCHANGED <<txFrames, bulk, call, dst, chipTx, wire, fsr, accepted, peerGot>>
    BY DEF TransmitFails, chipTxVars, outVars
  <1>2. Outgoing \in DatagramType
    BY <1>0, ParseType DEF TxType, Outgoing
  <1>3. Hdr \in Nat /\ Size(Outgoing) \in Nat
    BY <1>2, FrameCells
  <1>4. \E n \in Nat : tx' = Rest(tx, n)
    BY <1>1, <1>3
  <1>5. tx' \in Seq(CellType) /\ Len(tx') <= RingCap /\ CallSend'
    BY <1>1, <1>4, TxTaken
  <1>6. TxType'
    BY <1>0, <1>1, <1>5 DEF TxType
  <1>7. Room'
    BY <1>0, <1>1 DEF Room
  <1>. QED
    BY <1>5, <1>6, <1>7 DEF TxPart

(* A transfer to the chip ends: the room it was promised is still there.   *)
LEMMA TxDmaSent ==
    ASSUME RxInv, NEW ok \in BOOLEAN, DmaSent(ok)
    PROVE  TxPart'
  <1>0. TxType /\ Room /\ CallSend /\ BulkType
    BY RxInvParts
  <1>. DEFINE data == bulk.data
  <1>1. /\ bulk.kind = "Transmit" /\ bulk' = NoBulk
        /\ \/ Send(dst, data)
           \/ UNCHANGED <<chipTx, fsr, wire>>
           \/ chipTx' = chipTx \o data /\ fsr' = fsr - Len(data) /\ UNCHANGED wire
        /\ UNCHANGED <<tx, txFrames, call, dst, accepted, peerGot>>
    BY DEF DmaSent, Completing, txVars
  <1>2. data \in Seq(CellType) /\ Len(data) <= fsr /\ dst \in DatagramType
    BY <1>0, <1>1 DEF BulkType, Room, TxType
  <1>. HIDE DEF data
  <1>3. /\ chipTx \in Seq(CellType) /\ fsr \in Nat /\ wire \in Seq(MessageType)
        /\ Len(data) \in Nat
    BY <1>0, <1>2, LenProperties DEF TxType
  <1>4. chipTx \o data \in Seq(CellType) /\ fsr - Len(data) \in Nat
    BY <1>2, <1>3, ConcatCells
  <1>5. chipTx' \in Seq(CellType) /\ wire' \in Seq(MessageType) /\ fsr' \in Nat
    BY <1>0, <1>1, <1>2, <1>3, <1>4, SendType
  <1>6. TxType'
    BY <1>0, <1>1, <1>5 DEF TxType
  <1>7. Room'
    BY <1>1 DEF Room, NoBulk
  <1>8. CallSend'
    BY <1>0, <1>1 DEF CallSend
  <1>. QED
    BY <1>6, <1>7, <1>8 DEF TxPart

(* Every step keeps the types of what is sent, and the room.               *)
LEMMA TxPartStep == RxInv /\ [Next]_vars => TxPart'
  <1>. SUFFICES ASSUME RxInv, [Next]_vars PROVE TxPart'
    OBVIOUS
  <1>0. ControlPart /\ CallType
    BY RxInvParts
  <1>1. CASE Quiet
    <2>1. UNCHANGED <<txView, bulk, call>>
      BY <1>1, QuietKeeps
    <2>. QED
      BY <2>1, TxQuiet
  <1>. USE DEF txView, txVars, chipTxVars, outVars
  <1>2. CASE \E n \in InLens : \E k \in {1, Hdr, Hdr + n} : PeerSends(n, k)
    <2>1. UNCHANGED <<txView, bulk, call>>
      BY <1>2 DEF PeerSends
    <2>. QED
      BY <2>1, TxQuiet
  <1>3. CASE PeerFinishes
    <2>1. UNCHANGED <<txView, bulk, call>>
      BY <1>3 DEF PeerFinishes
    <2>. QED
      BY <2>1, TxQuiet
  <1>4. CASE \E n \in DstLens : RecvBegin(n)
    <2>1. UNCHANGED <<txView, bulk>> /\ ~(InSend')
      BY <1>4 DEF RecvBegin, InSend
    <2>. QED
      BY <2>1, TxQuiet
  <1>5. CASE RecvRead
    <2>1. UNCHANGED <<txView, bulk>> /\ call.op = "recv"
      BY <1>5 DEF RecvRead
    <2>2. call'.op = "recv"
      BY <1>0, <1>5 DEF RecvRead, CallType
    <2>3. ~(InSend')
      BY <2>2 DEF InSend
    <2>. QED
      BY <2>1, <2>3, TxQuiet
  <1>6. CASE RecvEnd
    <2>1. UNCHANGED <<txView, bulk>> /\ ~(InSend')
      BY <1>6 DEF RecvEnd, InSend, NoCall
    <2>. QED
      BY <2>1, TxQuiet
  <1>7. CASE ReceiveDrop \/ ReceiveEmpty \/ ReceiveFails
    <2>1. UNCHANGED <<txView, bulk, call>>
      BY <1>7 DEF ReceiveDrop, ReceiveEmpty, ReceiveFails, ThenTransmit
    <2>. QED
      BY <2>1, TxQuiet
  <1>8. CASE ReceiveStart
    <2>1. UNCHANGED <<txView, call>> /\ (bulk' = bulk \/ bulk'.kind # "Transmit")
      BY <1>8 DEF ReceiveStart
    <2>. QED
      BY <2>1, TxQuiet
  <1>9. ASSUME NEW ok \in BOOLEAN, DmaReceived(ok) PROVE TxPart'
    <2>1. UNCHANGED <<txView, call>> /\ bulk'.kind # "Transmit"
      BY <1>9 DEF DmaReceived, Completing, NoBulk
    <2>. QED
      BY <2>1, TxQuiet
  <1>10. CASE ChipCommand
    <2>1. WipeBuffers /\ cr # "none" /\ UNCHANGED <<txVars, bulk, call>>
      BY <1>10 DEF ChipCommand
    <2>2. bulk = NoBulk
      BY <1>0, <2>1 DEF ControlPart, Handlers
    <2>. QED
      BY <2>1, <2>2, TxWipe
  <1>11. CASE LinkReset
    <2>1. WipeBuffers /\ bulk = NoBulk /\ UNCHANGED <<txVars, bulk, call>>
      BY <1>11 DEF LinkReset
    <2>. QED
      BY <2>1, TxWipe
  <1>12. CASE Open
    <2>1. EmptyRings /\ st = "Free" /\ UNCHANGED <<chipTxVars, bulk, call>>
      BY <1>12 DEF Open
    <2>2. call = NoCall
      BY <1>0, <2>1 DEF ControlPart, CallHeld
    <2>. QED
      BY <2>1, <2>2, TxEmpty
  <1>13. CASE Reconnect
    <2>1. EmptyRings /\ call = NoCall /\ UNCHANGED <<chipTxVars, bulk, call>>
      BY <1>13 DEF Reconnect, AppFree
    <2>. QED
      BY <2>1, TxEmpty
  <1>. QED
    BY <1>1, <1>2, <1>3, <1>4, <1>5, <1>6, <1>7, <1>8, <1>9, <1>10, <1>11, <1>12, <1>13,
       TxChipSends, TxSendBegin, TxSendPayload, TxSendCommit, TxTransmitEmpty,
       TxTransmitStart, TxTransmitFails, TxDmaSent, NextCases

(* Every step keeps the types of transfer and call.                        *)
LEMMA BulkCallStep == RxInv /\ [Next]_vars => BulkType' /\ CallType'
  <1>. SUFFICES ASSUME RxInv, [Next]_vars PROVE BulkType' /\ CallType'
    OBVIOUS
  <1>0. BulkType /\ CallType
    BY RxInvParts
  <1>1. ASSUME UNCHANGED bulk \/ bulk' = NoBulk PROVE BulkType'
    BY <1>0, <1>1, NoneTypes DEF BulkType
  <1>2. ASSUME UNCHANGED call \/ call' = NoCall PROVE CallType'
    BY <1>0, <1>2, NoneTypes DEF CallType
  <1>3. CASE Quiet
    BY <1>1, <1>2, <1>3, QuietKeeps
  <1>4. CASE \E n \in InLens : \E k \in {1, Hdr, Hdr + n} : PeerSends(n, k)
    BY <1>1, <1>2, <1>4 DEF PeerSends
  <1>5. CASE PeerFinishes \/ ChipCommand \/ Open \/ Reconnect \/ LinkReset
    BY <1>1, <1>2, <1>5 DEF PeerFinishes, ChipCommand, Open, Reconnect, LinkReset
  <1>6. ASSUME NEW answered \in BOOLEAN, ChipSends(answered) PROVE BulkType' /\ CallType'
    BY <1>1, <1>2, <1>6 DEF ChipSends
  <1>7. ASSUME NEW n \in DstLens, RecvBegin(n) PROVE BulkType' /\ CallType'
    <2>1. UNCHANGED bulk
      BY <1>7 DEF RecvBegin
    <2>. QED
      BY <1>1, <1>7, <2>1, RxRecvBegin
  <1>8. CASE RecvRead
    <2>1. UNCHANGED bulk
      BY <1>8 DEF RecvRead
    <2>. QED
      BY <1>1, <1>8, <2>1, RxRecvRead
  <1>9. CASE RecvEnd \/ SendCommit
    BY <1>1, <1>2, <1>9 DEF RecvEnd, SendCommit
  <1>10. ASSUME NEW n \in OutLens, SendBegin(n) PROVE BulkType' /\ CallType'
    <2>1. UNCHANGED bulk
      BY <1>10 DEF SendBegin
    <2>. QED
      BY <1>1, <1>10, <2>1, TxSendBegin
  <1>11. CASE SendPayload
    <2>1. UNCHANGED bulk
      BY <1>11 DEF SendPayload
    <2>. QED
      BY <1>1, <1>11, <2>1, TxSendPayload
  <1>12. CASE ReceiveDrop \/ ReceiveEmpty \/ ReceiveFails
    BY <1>1, <1>2, <1>12 DEF ReceiveDrop, ReceiveEmpty, ReceiveFails, ThenTransmit
  <1>13. CASE ReceiveStart
    <2>1. UNCHANGED call
      BY <1>13 DEF ReceiveStart
    <2>. QED
      BY <1>2, <1>13, <2>1, RxReceiveStart
  <1>14. CASE TransmitEmpty
    BY <1>1, <1>2, <1>14 DEF TransmitEmpty
  <1>15. CASE TransmitStart
    <2>1. UNCHANGED call
      BY <1>15 DEF TransmitStart
    <2>. QED
      BY <1>2, <1>15, <2>1, TxTransmitStart
  <1>16. ASSUME NEW staged \in BOOLEAN, TransmitFails(staged) PROVE BulkType' /\ CallType'
    BY <1>1, <1>2, <1>16 DEF TransmitFails
  <1>17. ASSUME NEW ok \in BOOLEAN, DmaReceived(ok) \/ DmaSent(ok) PROVE BulkType' /\ CallType'
    BY <1>1, <1>2, <1>17 DEF DmaReceived, DmaSent, Completing
  <1>. QED
    BY <1>3, <1>4, <1>5, <1>6, <1>7, <1>8, <1>9, <1>10, <1>11, <1>12, <1>13, <1>14, <1>15,
       <1>16, <1>17, NextCases

-----------------------------------------------------------------------------
(* The way in: whatever fails on the bus, and whatever is in the tx ring.  *)

(* Initially the invariant of the way in holds.                            *)
LEMMA RxInit == Init => RxInv
  <1>. SUFFICES ASSUME Init PROVE RxInv
    OBVIOUS
  <1>1. ControlPart
    <2>1. 0 \in 0..MaxFaults /\ 0 \in 0..MaxUpsets
      BY LimitsAssumption
    <2>2. ControlType
      BY <2>1 DEF Init, ControlType, Status
    <2>3. Handlers /\ CallHeld
      BY DEF Init, Handlers, CallHeld
    <2>. QED
      BY <2>2, <2>3 DEF ControlPart
  <1>2. BulkType /\ CallType
    BY NoneTypes DEF Init, BulkType, CallType
  <1>3. <<>> \in Seq([id : Nat, len : InLens]) /\ <<>> \in Seq([id : Nat, len : OutLens])
    OBVIOUS
  <1>4. TxType /\ Room /\ CallSend
    <2>1. TxType
      BY <1>3, NoneTypes, SizesAssumption, LimitsAssumption DEF Init, TxType
    <2>2. Room /\ CallSend
      BY DEF Init, Room, CallSend, NoBulk, NoCall
    <2>. QED
      BY <2>1, <2>2
  <1>5. RxPart
    <2>1. RxType
      BY <1>3, NoneTypes, SizesAssumption, LimitsAssumption, PointerAssumption DEF Init, RxType
    <2>2. CallRecv /\ InFlight
      BY DEF Init, CallRecv, InFlight, NoBulk, NoCall
    <2>3. RxFramed
      BY WholeNone DEF Init, RxFramed, NoCall
    <2>4. RxIntact
      BY NoneTypes DEF Init, RxIntact
    <2>5. Received
      <3>1. OnChip = <<>>
        BY NoneTypes, ConcatEmptySeq DEF Init, OnChip
      <3>2. Framed(<<>>)
        BY WholeNone DEF Whole
      <3>. QED
        BY <3>1, <3>2, NoneTypes DEF Init, Received
    <2>. QED
      BY <2>1, <2>2, <2>3, <2>4, <2>5 DEF RxPart
  <1>. QED
    BY <1>1, <1>2, <1>4, <1>5, RxInvParts

(* The invariant of the way in is inductive.                               *)
LEMMA RxInvStep == RxInv /\ [Next]_vars => RxInv'
  <1>. SUFFICES ASSUME RxInv, [Next]_vars PROVE RxInv'
    OBVIOUS
  <1>1. ControlPart'
    BY ControlStep
  <1>2. RxPart'
    BY RxStep
  <1>3. TxPart'
    BY TxPartStep
  <1>4. BulkType' /\ CallType'
    BY BulkCallStep
  <1>5. TypeOK'
    BY <1>1, <1>2, <1>3, <1>4
       DEF TypeOK, ControlPart, ControlType, BulkType, CallType, RxPart, RxType, TxPart, TxType
  <1>. QED
    BY <1>1, <1>2, <1>3, <1>5 DEF RxInv, ControlPart, RxPart, TxPart

(* Status, commands, transfers, calls, the rx ring and the chip's buffers  *)
(* agree at every step of the handlers and of the application; every       *)
(* buffer stays within its size, and the room for a transfer is kept.      *)
THEOREM RxInvariance == Spec => []RxInv
  BY RxInit, RxInvStep, PTL DEF Spec

(* Every variable stays in its type: no ring and no buffer of the chip is  *)
(* ever overrun, and no counter wraps.                                     *)
THEOREM TypeInvariance == Spec => []TypeOK
  <1>1. RxInv => TypeOK
    BY DEF RxInv
  <1>. QED
    BY <1>1, RxInvariance, PTL

(* The frame counter of the rx ring agrees with its bytes, between any two *)
(* accesses of recv_from and of the handlers: recv_from never spins.       *)
THEOREM RxFramedInvariance == Spec => []RxFramed
  <1>1. RxInv => RxFramed
    BY DEF RxInv
  <1>. QED
    BY <1>1, RxInvariance, PTL

(* recv_from returns only datagrams that peers sent, each with its own     *)
(* address and the beginning of its payload.                               *)
THEOREM RxIntactInvariance == Spec => []RxIntact
  <1>1. RxInv => RxIntact
    BY DEF RxInv
  <1>. QED
    BY <1>1, RxInvariance, PTL

-----------------------------------------------------------------------------
(* Conservation of what is received.                                       *)

\* What the application was given, or is being given, and what is still to come.
rxDone == Ids(got) \o Reading
rxLine == rx \o OnChip
rxAll == InSeq(rxDone) \cup Datagrams(rxLine) \cup goneIn

(* RxConserved, with these names.                                          *)
LEMMA RxConservedIs ==
    RxConserved <=>
      (faults = 0 => /\ InOrder(rxDone, rxLine)
                     /\ \A d \in InSeq(sent) : Size(d) <= RingCap => d.id \in rxAll)
  BY DEF RxConserved, rxDone, rxLine, rxAll, OnChip

(* The datagrams of two pieces.                                            *)
LEMMA DatagramsConcat ==
    ASSUME NEW a \in Seq(CellType), NEW b \in Seq(CellType)
    PROVE  Datagrams(a \o b) = Datagrams(a) \cup Datagrams(b)
  <1>. DEFINE c == a \o b
  <1>1. /\ Len(c) = Len(a) + Len(b) /\ Len(a) \in Nat /\ Len(b) \in Nat
        /\ \A i \in 1..Len(a) : c[i] = a[i]
        /\ \A i \in 1..Len(b) : c[Len(a) + i] = b[i]
    BY ConcatCells
  <1>. HIDE DEF c
  <1>2. ASSUME NEW i \in 1..Len(c) PROVE c[i].d.id \in Datagrams(a) \cup Datagrams(b)
    <2>1. CASE i <= Len(a)
      <3>1. i \in 1..Len(a)
        BY <1>1, <2>1
      <3>. QED
        BY <1>1, <3>1 DEF Datagrams
    <2>2. CASE i > Len(a)
      <3>. DEFINE j == i - Len(a)
      <3>1. j \in 1..Len(b) /\ i = Len(a) + j
        BY <1>1, <2>2
      <3>. HIDE DEF j
      <3>2. c[i] = b[j]
        BY <1>1, <3>1
      <3>. QED
        BY <3>1, <3>2 DEF Datagrams
    <2>3. i <= Len(a) \/ i > Len(a)
      BY <1>1
    <2>. QED
      BY <2>1, <2>2, <2>3
  <1>3. ASSUME NEW i \in 1..Len(a) PROVE a[i].d.id \in Datagrams(c)
    <2>1. i \in 1..Len(c) /\ c[i] = a[i]
      BY <1>1
    <2>. QED
      BY <2>1 DEF Datagrams
  <1>4. ASSUME NEW i \in 1..Len(b) PROVE b[i].d.id \in Datagrams(c)
    <2>. DEFINE j == Len(a) + i
    <2>1. j \in 1..Len(c) /\ c[j] = b[i]
      BY <1>1
    <2>. HIDE DEF j
    <2>2. c[j].d.id \in Datagrams(c)
      BY <2>1 DEF Datagrams
    <2>. QED
      BY <2>1, <2>2
  <1>5. Datagrams(c) \subseteq Datagrams(a) \cup Datagrams(b)
    BY <1>2 DEF Datagrams
  <1>6. Datagrams(a) \subseteq Datagrams(c)
    BY <1>3 DEF Datagrams
  <1>7. Datagrams(b) \subseteq Datagrams(c)
    BY <1>4 DEF Datagrams
  <1>8. Datagrams(c) = Datagrams(a) \cup Datagrams(b)
    BY <1>5, <1>6, <1>7
  <1>. QED
    BY <1>8 DEF c

(* A frame is of one datagram, and begins once.                            *)
LEMMA DatagramsFrame ==
    ASSUME NEW d \in DatagramType
    PROVE  /\ Datagrams(Frame(d)) = {d.id} /\ Starts(Frame(d)) = {1}
           /\ Frame(d)[1].d = d
  <1>. DEFINE f == Frame(d)
  <1>1. /\ f \in Seq(CellType) /\ Len(f) = Size(d) /\ Size(d) \in Nat /\ Size(d) >= Hdr
        /\ Hdr \in Nat \ {0} /\ \A j \in 1..Size(d) : f[j] = Cell(d, j)
    BY FrameCells
  <1>. HIDE DEF f
  <1>2. 1 \in 1..Len(f)
    BY <1>1
  <1>3. \A j \in 1..Len(f) : f[j].d = d /\ f[j].pos = j
    BY <1>1 DEF Cell
  <1>4. Datagrams(f) = {d.id}
    BY <1>2, <1>3 DEF Datagrams
  <1>5. Starts(f) = {1}
    BY <1>2, <1>3 DEF Starts
  <1>. QED
    BY <1>2, <1>3, <1>4, <1>5 DEF f

(* Cells of one datagram taken off a sequence.                             *)
LEMMA DatagramsTaken ==
    ASSUME NEW s \in Seq(CellType), NEW n \in 0..Len(s), NEW x,
           \A i \in 1..n : s[i].d.id = x
    PROVE  Datagrams(s) \subseteq {x} \cup Datagrams(Rest(s, n))
  <1>. DEFINE t == Rest(s, n)
  <1>1. n \in Nat /\ Len(s) \in Nat /\ n <= Len(s)
    BY LenProperties
  <1>2. Len(t) = Len(s) - n /\ \A i \in 1..Len(t) : t[i] = s[n + i]
    BY <1>1, RestCells
  <1>. HIDE DEF t
  <1>3. ASSUME NEW k \in 1..Len(s) PROVE s[k].d.id \in {x} \cup Datagrams(t)
    <2>1. CASE k <= n
      <3>1. k \in 1..n
        BY <1>1, <2>1
      <3>. QED
        BY <3>1
    <2>2. CASE k > n
      <3>. DEFINE i == k - n
      <3>1. i \in 1..Len(t) /\ n + i = k
        BY <1>1, <1>2, <2>2
      <3>. HIDE DEF i
      <3>2. t[i] = s[k]
        BY <1>2, <3>1
      <3>3. t[i].d.id \in Datagrams(t)
        BY <3>1 DEF Datagrams
      <3>. QED
        BY <3>2, <3>3
    <2>3. k <= n \/ k > n
      BY <1>1
    <2>. QED
      BY <2>1, <2>2, <2>3
  <1>4. Datagrams(s) \subseteq {x} \cup Datagrams(t)
    BY <1>3 DEF Datagrams
  <1>. QED
    BY <1>4 DEF t

(* What the application got is a sequence of numbers.                      *)
LEMMA IdsType ==
    ASSUME NEW s \in Seq(MessageType)
    PROVE  /\ Ids(s) \in Seq(Nat) /\ Len(Ids(s)) = Len(s)
           /\ \A k \in 1..Len(s) : Ids(s)[k] = s[k].d.id
  <1>1. \A k \in 1..Len(s) : s[k] \in MessageType
    BY ElementOfSeq
  <1>2. \A k \in 1..Len(s) : s[k].d.id \in Nat
    BY <1>1 DEF MessageType, DatagramType
  <1>3. Len(s) \in Nat
    BY LenProperties
  <1>. QED
    BY <1>2, <1>3 DEF Ids

(* One more message.                                                       *)
LEMMA IdsAppend ==
    ASSUME NEW s \in Seq(MessageType), NEW m \in MessageType
    PROVE  Ids(Append(s, m)) = Ids(s) \o <<m.d.id>>
  <1>. DEFINE t == Append(s, m)
              x == m.d.id
  <1>1. /\ t \in Seq(MessageType) /\ Len(t) = Len(s) + 1 /\ t[Len(s) + 1] = m /\ Len(s) \in Nat
        /\ \A i \in 1..Len(s) : t[i] = s[i]
    BY AppendProperties, LenProperties
  <1>2. x \in Nat
    BY DEF MessageType, DatagramType
  <1>3. t[Len(s) + 1].d.id = x
    BY <1>1
  <1>. HIDE DEF t, x
  <1>4. /\ Ids(s) \in Seq(Nat) /\ Len(Ids(s)) = Len(s)
        /\ \A k \in 1..Len(s) : Ids(s)[k] = s[k].d.id
    BY IdsType
  <1>5. /\ Ids(t) \in Seq(Nat) /\ Len(Ids(t)) = Len(s) + 1
        /\ \A k \in 1..(Len(s) + 1) : Ids(t)[k] = t[k].d.id
    BY <1>1, IdsType
  <1>. DEFINE u == Append(Ids(s), x)
  <1>6. /\ u \in Seq(Nat) /\ Len(u) = Len(s) + 1 /\ u[Len(s) + 1] = x
        /\ \A i \in 1..Len(s) : u[i] = Ids(s)[i]
    BY <1>2, <1>4, AppendProperties
  <1>7. u = Ids(s) \o <<x>>
    BY <1>2, <1>4, AppendIsConcat
  <1>. HIDE DEF u
  <1>8. ASSUME NEW i \in 1..(Len(s) + 1) PROVE Ids(t)[i] = u[i]
    <2>1. i \in 1..Len(s) \/ i = Len(s) + 1
      BY <1>1
    <2>. QED
      BY <1>1, <1>3, <1>4, <1>5, <1>6, <2>1
  <1>9. Ids(t) = u
    BY <1>5, <1>6, <1>8, SeqEqual
  <1>. QED
    BY <1>7, <1>9 DEF t, x

(* Everything on the way in was sent.                                      *)
LEMMA RxLine ==
    ASSUME RxInv
    PROVE  /\ rx \in Seq(CellType) /\ OnChip \in Seq(CellType) /\ rxLine \in Seq(CellType)
           /\ chipRx \in Seq(CellType) /\ arriving \in Seq(CellType)
           /\ Ids(got) \in Seq(Nat) /\ rxDone \in Seq(Nat)
           /\ \A k \in 1..Len(rxLine) : rxLine[k].d \in InSeq(sent)
           /\ \A i \in 1..Len(rxDone) : rxDone[i] <= Len(sent)
           /\ rxAll = InSeq(rxDone) \cup Datagrams(rx) \cup Datagrams(OnChip) \cup goneIn
  <1>0. RxPart /\ CallType
    BY RxInvParts
  <1>1. /\ rx \in Seq(CellType) /\ chipRx \in Seq(CellType) /\ arriving \in Seq(CellType)
        /\ got \in Seq(MessageType)
    BY <1>0 DEF RxPart, RxType
  <1>2. OnChip \in Seq(CellType)
    BY <1>1, ConcatCells DEF OnChip
  <1>3. /\ rxLine \in Seq(CellType) /\ Len(rxLine) = Len(rx) + Len(OnChip)
        /\ Len(rx) \in Nat /\ Len(OnChip) \in Nat
        /\ \A i \in 1..Len(rx) : rxLine[i] = rx[i]
        /\ \A i \in 1..Len(OnChip) : rxLine[Len(rx) + i] = OnChip[i]
    BY <1>1, <1>2, ConcatCells DEF rxLine
  <1>4. ASSUME NEW k \in 1..Len(rxLine) PROVE rxLine[k].d \in InSeq(sent)
    <2>1. CASE k <= Len(rx)
      <3>1. k \in 1..Len(rx)
        BY <1>3, <2>1
      <3>. QED
        BY <1>0, <1>3, <3>1 DEF RxPart, Received
    <2>2. CASE k > Len(rx)
      <3>. DEFINE j == k - Len(rx)
      <3>1. j \in 1..Len(OnChip) /\ k = Len(rx) + j
        BY <1>3, <2>2
      <3>. HIDE DEF j
      <3>2. rxLine[k] = OnChip[j]
        BY <1>3, <3>1
      <3>. QED
        BY <1>0, <3>1, <3>2 DEF RxPart, Received
    <2>3. k <= Len(rx) \/ k > Len(rx)
      BY <1>3
    <2>. QED
      BY <2>1, <2>2, <2>3
  <1>5. /\ Ids(got) \in Seq(Nat) /\ Len(Ids(got)) = Len(got) /\ Len(got) \in Nat
        /\ \A k \in 1..Len(got) : Ids(got)[k] = got[k].d.id
    BY <1>1, IdsType, LenProperties
  <1>6. ASSUME NEW k \in 1..Len(got) PROVE Ids(got)[k] <= Len(sent)
    <2>1. got[k].d \in InSeq(sent)
      BY <1>0 DEF RxPart, RxIntact
    <2>2. got[k].d.id <= Len(sent)
      BY <2>1, SentIds
    <2>. QED
      BY <1>5, <2>2
  <1>7. /\ rxDone \in Seq(Nat) /\ \A i \in 1..Len(rxDone) : rxDone[i] <= Len(sent)
    <2>1. CASE call.op = "recv"
      <3>. DEFINE x == call.d.id
      <3>1. call.d \in InSeq(sent)
        BY <1>0, <2>1 DEF RxPart, CallRecv
      <3>2. x \in Nat /\ x <= Len(sent)
        BY <3>1, SentIds DEF DatagramType
      <3>3. rxDone = Ids(got) \o <<x>>
        BY <2>1 DEF rxDone, Reading
      <3>. HIDE DEF x
      <3>4. rxDone = Append(Ids(got), x)
        BY <1>5, <3>2, <3>3, AppendIsConcat
      <3>5. /\ rxDone \in Seq(Nat) /\ Len(rxDone) = Len(got) + 1 /\ rxDone[Len(got) + 1] = x
            /\ \A i \in 1..Len(got) : rxDone[i] = Ids(got)[i]
        BY <1>5, <3>2, <3>4, AppendProperties
      <3>6. \A i \in 1..(Len(got) + 1) : i \in 1..Len(got) \/ i = Len(got) + 1
        BY <1>5
      <3>. QED
        BY <1>6, <3>2, <3>5, <3>6
    <2>2. CASE call.op # "recv"
      <3>1. rxDone = Ids(got)
        BY <1>5, <2>2, ConcatEmptySeq DEF rxDone, Reading
      <3>. QED
        BY <1>5, <1>6, <3>1
    <2>. QED
      BY <2>1, <2>2
  <1>8. rxAll = InSeq(rxDone) \cup Datagrams(rx) \cup Datagrams(OnChip) \cup goneIn
    <2>1. Datagrams(rxLine) = Datagrams(rx) \cup Datagrams(OnChip)
      BY <1>1, <1>2, DatagramsConcat DEF rxLine
    <2>. QED
      BY <2>1 DEF rxAll
  <1>. QED
    BY <1>1, <1>2, <1>3, <1>4, <1>5, <1>7, <1>8

(* It is enough that the order is kept and nothing is lost.                *)
LEMMA RxKept ==
    ASSUME RxConserved, faults = 0, sent' = sent,
           InOrder(rxDone, rxLine) => InOrder(rxDone', rxLine'), rxAll \subseteq rxAll'
    PROVE  RxConserved'
  <1>1. /\ InOrder(rxDone, rxLine)
        /\ \A d \in InSeq(sent) : Size(d) <= RingCap => d.id \in rxAll
    BY RxConservedIs
  <1>2. /\ InOrder(rxDone', rxLine')
        /\ \A d \in InSeq(sent') : Size(d) <= RingCap => d.id \in rxAll'
    BY <1>1
  <1>. QED
    BY <1>2 DEF RxConserved, rxDone, rxLine, rxAll, OnChip

(* Nothing moves on the way in.                                            *)
LEMMA RxStays ==
    ASSUME RxConserved, faults = 0, UNCHANGED <<sent, rxDone, rxLine, goneIn>>
    PROVE  RxConserved'
  <1>1. rxAll \subseteq rxAll'
    BY DEF rxAll
  <1>. QED
    BY <1>1, RxKept

(* A datagram arrives: it is the last one.                                 *)
LEMMA ConservePeerSends ==
    ASSUME RxInv, RxConserved, faults = 0,
           NEW n \in InLens, NEW k \in {1, Hdr, Hdr + n}, PeerSends(n, k)
    PROVE  RxConserved'
  <1>. DEFINE d == Datagram(Len(sent) + 1, n)
              f == Frame(d)
  <1>1. /\ d \in DatagramType /\ OnChip' = OnChip \o f /\ d.id = Len(sent) + 1
        /\ InSeq(sent') = InSeq(sent) \cup {d}
    BY RxPeerSends
  <1>2. UNCHANGED <<rx, rxDone, goneIn>>
    BY DEF PeerSends, rxVars, rxDone, Reading
  <1>. HIDE DEF d
  <1>3. f \in Seq(CellType) /\ Datagrams(f) = {d.id} /\ Starts(f) = {1} /\ f[1].d = d
    BY <1>1, FrameCells, DatagramsFrame
  <1>. HIDE DEF f
  <1>4. /\ rx \in Seq(CellType) /\ OnChip \in Seq(CellType) /\ rxLine \in Seq(CellType)
        /\ rxDone \in Seq(Nat)
        /\ \A i \in 1..Len(rxLine) : rxLine[i].d \in InSeq(sent)
        /\ \A i \in 1..Len(rxDone) : rxDone[i] <= Len(sent)
    BY RxLine
  <1>5. rxLine' = rxLine \o f
    <2>1. (rx \o OnChip) \o f = rx \o (OnChip \o f)
      <3>1. rx \in Seq(CellType) /\ OnChip \in Seq(CellType) /\ f \in Seq(CellType)
        BY <1>3, <1>4
      <3>. QED
        BY ONLY <3>1, ConcatAssociative
    <2>. QED
      BY <1>1, <1>2, <2>1 DEF rxLine
  <1>6. InOrder(rxDone, rxLine) /\ \A e \in InSeq(sent) : Size(e) <= RingCap => e.id \in rxAll
    BY RxConservedIs
  <1>7. Len(sent) \in Nat
    BY RxInvParts, LenProperties DEF RxPart, RxType
  <1>8. \A i \in 1..Len(rxDone) : rxDone[i] < d.id
    <2>1. \A i \in 1..Len(rxDone) : rxDone[i] \in Nat
      BY <1>4, ElementOfSeq
    <2>. QED
      BY <1>1, <1>4, <1>7, <2>1
  <1>9. \A i \in 1..Len(rxLine) : rxLine[i].d.id < d.id
    <2>1. ASSUME NEW i \in 1..Len(rxLine) PROVE rxLine[i].d.id \in 1..Len(sent)
      BY <1>4, SentIds
    <2>. QED
      BY <1>1, <1>7, <2>1
  <1>10. InOrder(rxDone, rxLine \o f)
    <2>1. \A i \in Starts(f) : /\ i = 1
                               /\ \A j \in 1..Len(rxDone) : rxDone[j] < f[i].d.id
                               /\ \A j \in 1..Len(rxLine) : rxLine[j].d.id < f[i].d.id
      BY <1>3, <1>8, <1>9
    <2>. QED
      BY <1>3, <1>4, <1>6, <2>1, OrderAppend
  <1>11. rxAll' = rxAll \cup {d.id}
    <2>1. Datagrams(rxLine \o f) = Datagrams(rxLine) \cup {d.id}
      BY <1>3, <1>4, DatagramsConcat
    <2>. QED
      BY <1>2, <1>5, <2>1 DEF rxAll
  <1>12. \A e \in InSeq(sent') : Size(e) <= RingCap => e.id \in rxAll'
    BY <1>1, <1>6, <1>11
  <1>13. InOrder(rxDone', rxLine')
    BY <1>2, <1>5, <1>10
  <1>. QED
    BY <1>12, <1>13 DEF RxConserved, rxDone, rxLine, rxAll, OnChip

(* The chip's buffers are emptied.                                         *)
LEMMA ConserveWipe ==
    ASSUME RxInv, RxConserved, faults = 0, WipeBuffers, UNCHANGED <<rxVars, call>>
    PROVE  RxConserved'
  <1>1. /\ chipRx' = <<>> /\ arriving' = <<>> /\ UNCHANGED <<rx, sent, rxDone>>
        /\ goneIn' = goneIn \cup Datagrams(chipRx) \cup Datagrams(arriving)
    BY DEF WipeBuffers, rxVars, rxDone, Reading
  <1>2. /\ rx \in Seq(CellType) /\ OnChip \in Seq(CellType)
        /\ chipRx \in Seq(CellType) /\ arriving \in Seq(CellType)
        /\ rxAll = InSeq(rxDone) \cup Datagrams(rx) \cup Datagrams(OnChip) \cup goneIn
    BY RxLine
  <1>3. OnChip \o <<>> = OnChip /\ <<>> \o <<>> = <<>> /\ <<>> \in Seq(CellType)
    BY <1>2, NoneTypes, ConcatEmptySeq
  <1>4. rxLine' = rx \o <<>>
    BY <1>1, <1>3 DEF rxLine, OnChip
  <1>5. InOrder(rxDone, rxLine) => InOrder(rxDone', rxLine')
    <2>. SUFFICES ASSUME InOrder(rxDone, rxLine) PROVE InOrder(rxDone', rxLine')
      OBVIOUS
    <2>1. InOrder(rxDone, rx \o (OnChip \o <<>>))
      BY <1>3 DEF rxLine
    <2>2. InOrder(rxDone, rx \o <<>>)
      BY <1>2, <1>3, <2>1, OrderDrop
    <2>. QED
      BY <1>1, <1>4, <2>2
  <1>6. rxAll \subseteq rxAll'
    <2>1. Datagrams(OnChip) = Datagrams(chipRx) \cup Datagrams(arriving)
      BY <1>2, DatagramsConcat DEF OnChip
    <2>2. rx \o <<>> = rx
      BY <1>2, ConcatEmptySeq
    <2>3. rxAll' = InSeq(rxDone) \cup Datagrams(rx) \cup goneIn'
      BY <1>1, <1>4, <2>2 DEF rxAll
    <2>. QED
      BY <1>1, <1>2, <2>1, <2>3
  <1>. QED
    BY <1>1, <1>5, <1>6, RxKept

(* The rings are emptied.                                                  *)
LEMMA ConserveEmpty ==
    ASSUME RxInv, RxConserved, faults = 0, EmptyRings, UNCHANGED <<chipRxVars, call>>
    PROVE  RxConserved'
  <1>1. /\ rx' = <<>> /\ UNCHANGED <<OnChip, sent, rxDone>>
        /\ goneIn' = goneIn \cup Datagrams(rx)
    BY DEF EmptyRings, chipRxVars, OnChip, rxDone, Reading
  <1>2. /\ rx \in Seq(CellType) /\ OnChip \in Seq(CellType) /\ rxLine \in Seq(CellType)
        /\ rxAll = InSeq(rxDone) \cup Datagrams(rx) \cup Datagrams(OnChip) \cup goneIn
    BY RxLine
  <1>3. <<>> \o OnChip = OnChip /\ <<>> \o rxLine = rxLine /\ <<>> \in Seq(CellType)
    BY <1>2, NoneTypes, ConcatEmptySeq
  <1>4. rxLine' = <<>> \o OnChip
    BY <1>1 DEF rxLine
  <1>5. InOrder(rxDone, rxLine) => InOrder(rxDone', rxLine')
    <2>. SUFFICES ASSUME InOrder(rxDone, rxLine) PROVE InOrder(rxDone', rxLine')
      OBVIOUS
    <2>1. InOrder(rxDone, <<>> \o (rx \o OnChip))
      BY <1>3 DEF rxLine
    <2>2. InOrder(rxDone, <<>> \o OnChip)
      BY <1>2, <1>3, <2>1, OrderDrop
    <2>. QED
      BY <1>1, <1>4, <2>2
  <1>6. rxAll \subseteq rxAll'
    <2>1. rxAll' = InSeq(rxDone) \cup Datagrams(OnChip) \cup goneIn'
      BY <1>1, <1>3, <1>4 DEF rxAll
    <2>. QED
      BY <1>1, <1>2, <2>1
  <1>. QED
    BY <1>1, <1>5, <1>6, RxKept

(* A datagram that does not fit the ring is dropped: the only one lost.    *)
LEMMA ConserveDrop ==
    ASSUME RxInv, RxConserved, faults = 0, ReceiveDrop
    PROVE  RxConserved'
  <1>. DEFINE d == Incoming
              f == Frame(d)
              r == Rest(OnChip, Size(d))
  <1>1. /\ Arrived /\ Size(d) > RingCap /\ SetRxReadPointer((rd + Size(d)) % PtrMod)
        /\ UNCHANGED <<rx, sent, goneIn, rxDone>>
    BY DEF ReceiveDrop, ThenTransmit, rxVars, inVars, rxDone, Reading
  <1>2. /\ d \in DatagramType /\ Size(d) <= Len(chipRx)
        /\ \A j \in 1..Size(d) : chipRx[j] = Cell(d, j)
    BY <1>1, IncomingFirst
  <1>. HIDE DEF d
  <1>3. chipRx' = Rest(chipRx, Size(d)) /\ arriving' = arriving
    BY <1>1, <1>2, RxSkip
  <1>4. /\ Size(d) \in Nat /\ d \in InSeq(sent) /\ chipRx = f \o Rest(chipRx, Size(d))
        /\ Rest(chipRx, Size(d)) \in Seq(CellType)
        /\ r = Rest(chipRx, Size(d)) \o arriving
    BY <1>2, FirstOnChip
  <1>5. /\ rx \in Seq(CellType) /\ OnChip \in Seq(CellType) /\ arriving \in Seq(CellType)
        /\ rxAll = InSeq(rxDone) \cup Datagrams(rx) \cup Datagrams(OnChip) \cup goneIn
    BY RxLine
  <1>6. f \in Seq(CellType) /\ Datagrams(f) = {d.id}
    BY <1>2, FrameCells, DatagramsFrame
  <1>. DEFINE c == Rest(chipRx, Size(d))
  <1>. HIDE DEF f
  <1>7. OnChip = f \o r /\ r \in Seq(CellType) /\ OnChip' = r
    <2>1. (f \o c) \o arriving = f \o (c \o arriving)
      <3>1. f \in Seq(CellType) /\ c \in Seq(CellType) /\ arriving \in Seq(CellType)
        BY <1>4, <1>5, <1>6
      <3>. QED
        BY ONLY <3>1, ConcatAssociative
    <2>2. OnChip = (f \o c) \o arriving /\ OnChip' = c \o arriving
      BY <1>3, <1>4 DEF OnChip
    <2>3. c \o arriving \in Seq(CellType)
      <3>. HIDE DEF c
      <3>1. c \in Seq(CellType) /\ arriving \in Seq(CellType)
        BY <1>4, <1>5 DEF c
      <3>. QED
        BY ONLY <3>1, ConcatCells
    <2>. QED
      BY <1>4, <2>1, <2>2, <2>3
  <1>. HIDE DEF r, c
  <1>8. rxLine = rx \o (f \o r) /\ rxLine' = rx \o r
    BY <1>1, <1>7 DEF rxLine
  <1>9. InOrder(rxDone, rxLine) /\ \A e \in InSeq(sent) : Size(e) <= RingCap => e.id \in rxAll
    BY RxConservedIs
  <1>10. InOrder(rxDone', rxLine')
    <2>1. InOrder(rxDone, rx \o r)
      BY <1>5, <1>6, <1>7, <1>8, <1>9, OrderDrop
    <2>. QED
      BY <1>1, <1>8, <2>1
  <1>11. rxAll \subseteq rxAll' \cup {d.id}
    <2>1. Datagrams(OnChip) = Datagrams(f) \cup Datagrams(r)
      BY <1>6, <1>7, DatagramsConcat
    <2>2. Datagrams(rx \o r) = Datagrams(rx) \cup Datagrams(r)
      BY <1>5, <1>7, DatagramsConcat
    <2>3. rxAll' = InSeq(rxDone) \cup (Datagrams(rx) \cup Datagrams(r)) \cup goneIn
      BY <1>1, <1>8, <2>2 DEF rxAll
    <2>. QED
      BY <1>5, <1>6, <2>1, <2>3
  <1>12. ASSUME NEW e \in InSeq(sent), Size(e) <= RingCap PROVE e.id \in rxAll'
    <2>1. e.id \in rxAll' \/ e.id = d.id
      BY <1>9, <1>11, <1>12
    <2>2. e.id # d.id
      <3>. SUFFICES ASSUME e.id = d.id PROVE FALSE
        OBVIOUS
      <3>1. sent[e.id] = e /\ sent[d.id] = d
        BY <1>4, SentIds
      <3>2. e = d
        BY <3>1
      <3>3. Size(d) <= RingCap
        BY <1>12, <3>2
      <3>. QED
        BY <1>1, <1>4, <3>3, SizesAssumption
    <2>. QED
      BY <2>1, <2>2
  <1>13. \A e \in InSeq(sent') : Size(e) <= RingCap => e.id \in rxAll'
    BY <1>1, <1>12
  <1>. QED
    BY <1>10, <1>13 DEF RxConserved, rxDone, rxLine, rxAll, OnChip

(* A datagram moved from the chip to the ring keeps its place.             *)
LEMMA ConserveMove ==
    ASSUME RxInv, RxConserved, faults = 0, NEW d \in DatagramType, Size(d) <= Len(chipRx),
           \A j \in 1..Size(d) : chipRx[j] = Cell(d, j),
           rx' = rx \o Frame(d), chipRx' = Rest(chipRx, Size(d)),
           UNCHANGED <<arriving, call, inVars>>
    PROVE  RxConserved'
  <1>. DEFINE f == Frame(d)
              c == Rest(chipRx, Size(d))
  <1>1. chipRx = f \o c /\ c \in Seq(CellType)
    BY FirstOnChip
  <1>2. rx \in Seq(CellType) /\ arriving \in Seq(CellType)
    BY RxLine
  <1>3. f \in Seq(CellType)
    BY FrameCells
  <1>4. rx' = rx \o f /\ chipRx' = c /\ arriving' = arriving
    OBVIOUS
  <1>. HIDE DEF f, c
  <1>. DEFINE a == c \o arriving
  <1>5. (f \o c) \o arriving = f \o a /\ a \in Seq(CellType)
    <2>1. f \in Seq(CellType) /\ c \in Seq(CellType) /\ arriving \in Seq(CellType)
      BY <1>1, <1>2, <1>3
    <2>2. (f \o c) \o arriving = f \o (c \o arriving)
      BY ONLY <2>1, ConcatAssociative
    <2>3. c \o arriving \in Seq(CellType)
      BY ONLY <2>1, ConcatCells
    <2>. QED
      BY <2>2, <2>3
  <1>6. OnChip = f \o a /\ OnChip' = a
    BY <1>1, <1>4, <1>5 DEF OnChip
  <1>. HIDE DEF a
  <1>7. (rx \o f) \o a = rx \o (f \o a)
    <2>1. rx \in Seq(CellType) /\ f \in Seq(CellType) /\ a \in Seq(CellType)
      BY <1>2, <1>3, <1>5
    <2>. QED
      BY ONLY <2>1, ConcatAssociative
  <1>8. rxLine' = rxLine
    BY <1>4, <1>6, <1>7 DEF rxLine
  <1>9. UNCHANGED <<sent, rxDone, goneIn>>
    BY DEF inVars, rxDone, Reading
  <1>. QED
    BY <1>8, <1>9, RxStays

(* recv_from takes the first datagram of the ring.                         *)
LEMMA ConserveBegin ==
    ASSUME RxInv, RxConserved, faults = 0, NEW n \in DstLens, RecvBegin(n)
    PROVE  RxConserved'
  <1>0. RxPart
    BY RxInvParts
  <1>1. /\ call = NoCall /\ rxFrames > 0 /\ rx' = Rest(rx, Hdr)
        /\ call'.op = "recv" /\ call'.d = ParseHeader(rx)
        /\ UNCHANGED <<OnChip, got, sent, goneIn>>
    BY DEF RecvBegin, AppFree, chipRxVars, inVars, OnChip
  <1>2. rxFrames \in Nat /\ Whole(rx, rxFrames)
    BY <1>0, <1>1 DEF RxPart, RxType, RxFramed, NoCall
  <1>3. /\ rx \in Seq(CellType) /\ OnChip \in Seq(CellType) /\ rxLine \in Seq(CellType)
        /\ Ids(got) \in Seq(Nat) /\ Len(rx) \in Nat
    BY RxLine, LenProperties
  <1>. DEFINE d == rx[1].d
              x == d.id
  <1>4. /\ rx # <<>> /\ d \in DatagramType /\ rx[1].pos = 1 /\ Size(d) <= Len(rx)
        /\ \A j \in 1..Size(d) : rx[j] = Cell(d, j)
        /\ ParseHeader(rx) = d
    BY <1>1, <1>2, <1>3, WholeFirst
  <1>5. Hdr \in Nat \ {0} /\ Size(d) \in Nat /\ Hdr <= Size(d) /\ x \in Nat
    BY <1>4, FrameCells DEF DatagramType
  <1>. HIDE DEF d
  <1>6. Hdr \in 0..Len(rx) /\ 1 \in 1..Len(rx)
    BY <1>3, <1>4, <1>5
  <1>7. /\ Len(rxLine) = Len(rx) + Len(OnChip) /\ Len(OnChip) \in Nat
        /\ \A i \in 1..Len(rx) : rxLine[i] = rx[i]
    BY <1>3, ConcatCells DEF rxLine
  <1>8. rxLine' = Rest(rxLine, Hdr)
    <2>1. Rest(rx \o OnChip, Hdr) = Rest(rx, Hdr) \o OnChip
      BY <1>3, <1>6, RestConcat
    <2>. QED
      BY <1>1, <2>1 DEF rxLine
  <1>9. rxLine[1] = rx[1] /\ Hdr \in 1..Len(rxLine) /\ Hdr \in 0..Len(rxLine)
    BY <1>3, <1>5, <1>6, <1>7
  <1>10. rxDone = Ids(got) /\ rxDone' = Append(Ids(got), x)
    <2>1. rxDone = Ids(got)
      BY <1>1, <1>3, ConcatEmptySeq DEF rxDone, Reading, NoCall
    <2>2. rxDone' = Ids(got) \o <<x>>
      BY <1>1, <1>4 DEF rxDone, Reading
    <2>3. Append(Ids(got), x) = Ids(got) \o <<x>>
      <3>. HIDE DEF x
      <3>. QED
        BY <1>3, <1>5, AppendIsConcat
    <2>. QED
      BY <2>1, <2>2, <2>3
  <1>11. InOrder(rxDone, rxLine) => InOrder(rxDone', rxLine')
    <2>. SUFFICES ASSUME InOrder(rxDone, rxLine) PROVE InOrder(rxDone', rxLine')
      OBVIOUS
    <2>1. rxLine[1].pos = 1 /\ rxLine[1].d.id = x
      BY <1>4, <1>9 DEF d
    <2>2. InOrder(Append(Ids(got), rxLine[1].d.id), Rest(rxLine, Hdr))
      BY <1>3, <1>9, <1>10, <2>1, OrderTake
    <2>. QED
      BY <1>8, <1>10, <2>1, <2>2
  <1>12. rxAll \subseteq rxAll'
    <2>1. ASSUME NEW i \in 1..Hdr PROVE rxLine[i].d.id = x
      <3>1. i \in 1..Len(rx) /\ i \in 1..Size(d)
        BY <1>3, <1>5, <1>6
      <3>2. rxLine[i] = Cell(d, i)
        BY <1>4, <1>7, <3>1
      <3>. QED
        BY <3>2 DEF Cell
    <2>. HIDE DEF x
    <2>2. Datagrams(rxLine) \subseteq {x} \cup Datagrams(Rest(rxLine, Hdr))
      BY <1>3, <1>9, <2>1, DatagramsTaken
    <2>3. InSeq(rxDone') = InSeq(rxDone) \cup {x}
      <3>1. Ids(got) \in Seq(Nat) /\ x \in Nat
        BY <1>3, <1>5
      <3>2. InSeq(Append(Ids(got), x)) = InSeq(Ids(got)) \cup {x}
        BY ONLY <3>1, SentGrows
      <3>. QED
        BY <1>10, <3>2
    <2>. QED
      BY <1>1, <1>8, <2>2, <2>3 DEF rxAll
  <1>. QED
    BY <1>1, <1>11, <1>12, RxKept

(* recv_from reads on in the datagram it has begun.                        *)
LEMMA ConserveRead ==
    ASSUME RxInv, RxConserved, faults = 0, RecvRead
    PROVE  RxConserved'
  <1>1. /\ call.op = "recv" /\ call'.op = "recv" /\ call'.d = call.d
        /\ \E n \in 0..call.left : rx' = Rest(rx, n)
    BY RxRecvRead
  <1>2. UNCHANGED <<OnChip, got, sent, goneIn>>
    BY DEF RecvRead, chipRxVars, inVars, OnChip
  <1>3. PICK n \in 0..call.left : rx' = Rest(rx, n)
    BY <1>1
  <1>4. /\ call.d \in DatagramType /\ call.left \in Nat /\ call.left <= Len(rx) /\ Len(rx) \in Nat
        /\ \A i \in 1..call.left : rx[i] = Cell(call.d, (Size(call.d) - call.left) + i)
    BY <1>1, RecvState
  <1>5. n \in 0..Len(rx) /\ n \in Nat
    BY <1>4
  <1>6. /\ rx \in Seq(CellType) /\ OnChip \in Seq(CellType) /\ rxLine \in Seq(CellType)
        /\ Ids(got) \in Seq(Nat)
    BY RxLine
  <1>7. rxDone' = rxDone
    BY <1>1, <1>2 DEF rxDone, Reading
  <1>8. rxLine' = Rest(rxLine, n)
    <2>1. Rest(rx \o OnChip, n) = Rest(rx, n) \o OnChip
      BY <1>5, <1>6, RestConcat
    <2>. QED
      BY <1>2, <1>3, <2>1 DEF rxLine
  <1>9. /\ Len(rxLine) = Len(rx) + Len(OnChip) /\ Len(OnChip) \in Nat
        /\ \A i \in 1..Len(rx) : rxLine[i] = rx[i]
    BY <1>6, ConcatCells DEF rxLine
  <1>10. n \in 0..Len(rxLine)
    BY <1>4, <1>5, <1>9
  <1>11. InOrder(rxDone, rxLine) => InOrder(rxDone', rxLine')
    BY <1>6, <1>7, <1>8, <1>10, OrderRest
  <1>. DEFINE x == call.d.id
  <1>12. \A i \in 1..n : rxLine[i].d.id = x
    <2>1. ASSUME NEW i \in 1..n PROVE rxLine[i].d.id = x
      <3>1. i \in 1..Len(rx) /\ i \in 1..call.left
        BY <1>4, <1>5
      <3>2. rxLine[i] = Cell(call.d, (Size(call.d) - call.left) + i)
        BY <1>4, <1>9, <3>1
      <3>. QED
        BY <3>2 DEF Cell
    <2>. QED
      BY <2>1
  <1>13. x \in InSeq(rxDone)
    <2>1. x \in Nat
      BY <1>4 DEF DatagramType
    <2>2. rxDone = Ids(got) \o <<x>>
      BY <1>1 DEF rxDone, Reading
    <2>. HIDE DEF x
    <2>3. rxDone = Append(Ids(got), x)
      BY <1>6, <2>1, <2>2, AppendIsConcat
    <2>4. Ids(got) \in Seq(Nat) /\ x \in Nat
      BY <1>6, <2>1
    <2>5. InSeq(Append(Ids(got), x)) = InSeq(Ids(got)) \cup {x}
      BY ONLY <2>4, SentGrows
    <2>. QED
      BY <2>3, <2>5
  <1>. HIDE DEF x
  <1>14. rxAll \subseteq rxAll'
    <2>1. Datagrams(rxLine) \subseteq {x} \cup Datagrams(Rest(rxLine, n))
      BY <1>6, <1>10, <1>12, DatagramsTaken
    <2>. QED
      BY <1>2, <1>7, <1>8, <1>13, <2>1 DEF rxAll
  <1>. QED
    BY <1>2, <1>11, <1>14, RxKept

(* recv_from returns the datagram it has read.                             *)
LEMMA ConserveEnd ==
    ASSUME RxInv, RxConserved, faults = 0, RecvEnd
    PROVE  RxConserved'
  <1>0. RxPart /\ CallType
    BY RxInvParts
  <1>. DEFINE m == [d |-> call.d, data |-> call.data]
  <1>1. /\ call.op = "recv" /\ call' = NoCall /\ got' = Append(got, m)
        /\ UNCHANGED <<rxLine, sent, goneIn>>
    BY DEF RecvEnd, chipRxVars, rxLine, OnChip
  <1>2. m \in MessageType /\ got \in Seq(MessageType) /\ m.d.id = call.d.id
    BY <1>0 DEF CallType, MessageType, RxPart, RxType
  <1>. HIDE DEF m
  <1>3. Ids(got') = Ids(got) \o <<call.d.id>> /\ got' \in Seq(MessageType)
    BY <1>1, <1>2, IdsAppend, AppendProperties
  <1>4. rxDone' = Ids(got')
    <2>1. rxDone' = Ids(got') \o <<>>
      BY <1>1 DEF rxDone, Reading, NoCall
    <2>2. Ids(got') \in Seq(Nat)
      BY <1>3, IdsType
    <2>. QED
      BY <2>1, <2>2, ConcatEmptySeq
  <1>5. rxDone' = rxDone
    BY <1>1, <1>3, <1>4 DEF rxDone, Reading
  <1>. QED
    BY <1>1, <1>5, RxStays

(* Faults are only counted up.                                             *)
LEMMA FaultsGrow ==
    ASSUME RxInv, [Next]_vars, faults' = 0
    PROVE  faults = 0
  <1>1. faults \in Nat
    BY RxInvParts, LimitsAssumption DEF ControlPart, ControlType
  <1>2. faults' = faults \/ faults' = faults + 1
    <2>1. CASE Quiet
      BY <2>1, QuietKeeps
    <2>. USE DEF bounds
    <2>2. CASE \E n \in InLens : \E k \in {1, Hdr, Hdr + n} : PeerSends(n, k)
      BY <2>2 DEF PeerSends
    <2>3. CASE PeerFinishes \/ ChipCommand \/ Open \/ Reconnect \/ LinkReset
      BY <2>3 DEF PeerFinishes, ChipCommand, Open, Reconnect, LinkReset, Upset
    <2>4. ASSUME NEW answered \in BOOLEAN, ChipSends(answered) PROVE faults' = faults
      BY <2>4 DEF ChipSends
    <2>5. CASE (\E n \in DstLens : RecvBegin(n)) \/ RecvRead \/ RecvEnd
      BY <2>5 DEF RecvBegin, RecvRead, RecvEnd
    <2>6. CASE (\E n \in OutLens : SendBegin(n)) \/ SendPayload \/ SendCommit
      BY <2>6 DEF SendBegin, SendPayload, SendCommit
    <2>7. CASE ReceiveDrop \/ ReceiveEmpty \/ ReceiveStart
      BY <2>7 DEF ReceiveDrop, ReceiveEmpty, ReceiveStart, ThenTransmit
    <2>8. CASE TransmitEmpty \/ TransmitStart
      BY <2>8 DEF TransmitEmpty, TransmitStart
    <2>9. ASSUME NEW staged \in BOOLEAN, TransmitFails(staged) PROVE faults' = faults + 1
      BY <2>9 DEF TransmitFails
    <2>10. ASSUME NEW ok \in BOOLEAN, DmaReceived(ok) \/ DmaSent(ok)
           PROVE  faults' = faults \/ faults' = faults + 1
      BY <2>10 DEF DmaReceived, DmaSent, Completing
    <2>11. CASE ReceiveFails
      BY <2>11 DEF ReceiveFails
    <2>. QED
      BY <2>1, <2>2, <2>3, <2>4, <2>5, <2>6, <2>7, <2>8, <2>9, <2>10, <2>11, NextCases
  <1>. QED
    BY <1>1, <1>2

(* Every step keeps what is received in order, and loses nothing.          *)
LEMMA RxConservedStep == RxInv /\ RxConserved /\ [Next]_vars => RxConserved'
  <1>. SUFFICES ASSUME RxInv, RxConserved, [Next]_vars, faults' = 0 PROVE RxConserved'
    BY DEF RxConserved
  <1>0. faults = 0
    BY FaultsGrow
  <1>a. ASSUME UNCHANGED <<rxView, call>> \/ (UNCHANGED rxView /\ call.op # "recv" /\ call'.op # "recv")
        PROVE  RxConserved'
    <2>1. UNCHANGED <<sent, rxDone, rxLine, goneIn>>
      BY <1>a DEF rxView, rxDone, rxLine, OnChip, Reading
    <2>. QED
      BY <1>0, <2>1, RxStays
  <1>1. CASE Quiet
    BY <1>1, <1>a, QuietKeeps
  <1>. USE DEF rxView, rxVars, chipRxVars, inVars
  <1>2. ASSUME NEW answered \in BOOLEAN, ChipSends(answered) PROVE RxConserved'
    BY <1>2, <1>a DEF ChipSends
  <1>3. ASSUME NEW n \in OutLens, SendBegin(n) PROVE RxConserved'
    BY <1>3, <1>a DEF SendBegin, AppFree, NoCall
  <1>4. CASE SendPayload
    <2>1. UNCHANGED rxView /\ call.op # "recv"
      BY <1>4 DEF SendPayload
    <2>2. call'.op = "payload"
      BY <1>4, RxInvParts DEF SendPayload, CallType
    <2>. QED
      BY <1>a, <2>1, <2>2
  <1>5. CASE SendCommit
    BY <1>5, <1>a DEF SendCommit, NoCall
  <1>6. CASE TransmitEmpty
    BY <1>6, <1>a DEF TransmitEmpty
  <1>7. CASE TransmitStart
    BY <1>7, <1>a DEF TransmitStart
  <1>8. ASSUME NEW staged \in BOOLEAN, TransmitFails(staged) PROVE RxConserved'
    BY <1>8, <1>a DEF TransmitFails
  <1>9. ASSUME NEW ok \in BOOLEAN, DmaSent(ok) PROVE RxConserved'
    BY <1>9, <1>a DEF DmaSent, Completing
  <1>10. CASE ReceiveStart
    BY <1>10, <1>a DEF ReceiveStart
  <1>11. CASE ChipCommand
    BY <1>0, <1>11, ConserveWipe DEF ChipCommand
  <1>12. CASE LinkReset
    BY <1>0, <1>12, ConserveWipe DEF LinkReset
  <1>13. CASE Open
    BY <1>0, <1>13, ConserveEmpty DEF Open
  <1>14. CASE Reconnect
    BY <1>0, <1>14, ConserveEmpty DEF Reconnect
  <1>15. CASE PeerFinishes
    <2>1. UNCHANGED <<rx, rxDone, sent, goneIn>> /\ chipRx' = OnChip /\ arriving' = <<>>
      BY <1>15 DEF PeerFinishes, rxDone, Reading, OnChip
    <2>2. OnChip \o <<>> = OnChip
      BY RxLine, ConcatEmptySeq
    <2>3. UNCHANGED rxLine
      BY <2>1, <2>2 DEF rxLine, OnChip
    <2>. QED
      BY <1>0, <2>1, <2>3, RxStays
  <1>16. CASE ReceiveEmpty
    BY <1>0, <1>16, EmptyMoved, ConserveMove
  <1>17. ASSUME NEW ok \in BOOLEAN, DmaReceived(ok) PROVE RxConserved'
    <2>1. ok
      <3>1. faults' = IF ok THEN faults ELSE faults + 1
        BY <1>17 DEF DmaReceived, Completing
      <3>. QED
        BY <1>0, <3>1
    <2>. DEFINE d == bulk.d
    <2>2. /\ d \in DatagramType /\ Size(d) <= Len(chipRx)
          /\ \A j \in 1..Size(d) : chipRx[j] = Cell(d, j)
          /\ rx' = rx \o Frame(d) /\ chipRx' = Rest(chipRx, Size(d))
          /\ UNCHANGED <<arriving, call, inVars>>
      BY <1>17, <2>1, DatagramMoved
    <2>. HIDE DEF d
    <2>. QED
      BY <1>0, <2>2, ConserveMove
  <1>18. CASE ReceiveFails
    <2>1. faults' = 1
      BY <1>0, <1>18 DEF ReceiveFails
    <2>. QED
      BY <2>1
  <1>. QED
    BY <1>0, <1>1, <1>2, <1>3, <1>4, <1>5, <1>6, <1>7, <1>8, <1>9, <1>10, <1>11, <1>12, <1>13,
       <1>14, <1>15, <1>16, <1>17, <1>18, ConservePeerSends, ConserveDrop, ConserveBegin,
       ConserveRead, ConserveEnd, NextCases

(* Initially nothing was sent.                                             *)
LEMMA RxConservedInit == Init => RxConserved
  <1>. SUFFICES ASSUME Init PROVE RxConserved
    OBVIOUS
  <1>1. RxInv
    BY RxInit
  <1>2. rxDone = <<>> /\ rxLine = <<>>
    <2>1. <<>> \o <<>> = <<>>
      BY NoneTypes, ConcatEmptySeq
    <2>2. Ids(<<>>) = <<>>
      BY NoneTypes DEF Ids
    <2>. QED
      BY <2>1, <2>2 DEF Init, rxDone, rxLine, OnChip, Reading, NoCall
  <1>3. Len(<<>>) = 0 /\ Starts(<<>>) = {}
    BY NoneTypes DEF Starts
  <1>4. InOrder(<<>>, <<>>)
    BY <1>3 DEF InOrder
  <1>5. InSeq(sent) = {}
    BY <1>3 DEF Init, InSeq
  <1>. QED
    BY <1>2, <1>4, <1>5, RxConservedIs

(* On a bus without faults the datagrams on the chip, in the ring and at   *)
(* the application are in the order in which they were sent, each once,    *)
(* and none is missing but those larger than the ring.                     *)
THEOREM RxConservedInvariance == Spec => []RxConserved
  BY RxInit, RxInvStep, RxConservedInit, RxConservedStep, PTL DEF Spec

-----------------------------------------------------------------------------
(* The way out: the tx ring.                                               *)

\* Every payload given to send_to fits the scratch buffers.
OutFits == \A n \in OutLens : n <= Scratch

\* No fault has cut a frame in the tx ring.
Clean == faults = 0 \/ "transmit" \notin Faults

\* What is in the tx ring was accepted, or is being written.
Numbered ==
    /\ \A i \in 1..Len(accepted) : accepted[i].id = i
    /\ \A k \in 1..Len(tx) : tx[k].d \in InSeq(accepted) \/ (InSend /\ tx[k].d = call.d)

LEMMA TxSoundIs == TxSound <=> Numbered /\ (Clean => TxFramed)
  BY DEF TxSound, Numbered, Clean, InSend

(* What two pieces are put together of.                                    *)
LEMMA TwoPieces ==
    ASSUME NEW S, NEW a \in Seq(S), NEW b \in Seq(S)
    PROVE  /\ Len(a \o b) - Len(b) = Len(a) /\ Len(a) \in Nat
           /\ Front(a \o b, Len(a)) = a /\ Rest(a \o b, Len(a)) = b
  <1>. DEFINE c == a \o b
              n == Len(a)
  <1>1. /\ c \in Seq(S) /\ Len(c) = n + Len(b) /\ n \in Nat /\ Len(b) \in Nat
        /\ \A i \in 1..n : c[i] = a[i]
        /\ \A i \in 1..Len(b) : c[n + i] = b[i]
    BY ConcatCells
  <1>. HIDE DEF c
  <1>2. n <= Len(c) /\ Len(c) - n = Len(b) /\ Len(c) - Len(b) = n
    BY <1>1
  <1>. HIDE DEF n
  <1>3. /\ Front(c, n) \in Seq(S) /\ Len(Front(c, n)) = n
        /\ \A i \in 1..Len(Front(c, n)) : Front(c, n)[i] = c[i]
    <2>1. c \in Seq(S) /\ n \in Nat /\ n <= Len(c)
      BY <1>1, <1>2 DEF n
    <2>. QED
      BY ONLY <2>1, FrontCells
  <1>4. /\ Rest(c, n) \in Seq(S) /\ Len(Rest(c, n)) = Len(b)
        /\ \A i \in 1..Len(Rest(c, n)) : Rest(c, n)[i] = c[n + i]
    BY <1>1, <1>2, RestCells
  <1>5. Front(c, n) = a
    <2>1. Len(a) = n
      BY DEF n
    <2>2. \A i \in 1..Len(Front(c, n)) : Front(c, n)[i] = a[i]
      BY <1>1, <1>3
    <2>. QED
      BY <1>3, <2>1, <2>2, SeqEqual
  <1>6. Rest(c, n) = b
    BY <1>1, <1>4, SeqEqual
  <1>. QED
    BY <1>1, <1>2, <1>5, <1>6 DEF c, n

(* What send_to has written.                                               *)
LEMMA WritingIs ==
    ASSUME RxInv
    PROVE  /\ Writing \in Seq(CellType)
           /\ ~InSend => Writing = <<>>
           /\ call.op = "header" => Writing = Header(call.d)
           /\ call.op = "payload" => Writing = Frame(call.d)
           /\ InSend => /\ call.d \in DatagramType /\ Writing # <<>> /\ Writing[1] = Cell(call.d, 1)
                        /\ call.d.id = Len(accepted) + 1 /\ call.d.len \in OutLens
  <1>0. CallType /\ CallSend
    BY RxInvParts
  <1>. DEFINE d == call.d
  <1>1. d \in DatagramType
    BY <1>0 DEF CallType
  <1>. HIDE DEF d
  <1>2. /\ Header(d) \in Seq(CellType) /\ Len(Header(d)) = Hdr /\ Hdr \in Nat \ {0}
        /\ Frame(d) \in Seq(CellType) /\ Len(Frame(d)) = Size(d) /\ Size(d) \in Nat
        /\ Size(d) >= Hdr /\ \A j \in 1..Size(d) : Frame(d)[j] = Cell(d, j)
    BY <1>1, FrameCells
  <1>3. 1 \in 1..Size(d) /\ 1 \in 1..Hdr /\ Len(Header(d)) # 0 /\ Len(Frame(d)) # 0
    BY <1>2
  <1>4. Header(d)[1] = Cell(d, 1) /\ Frame(d)[1] = Cell(d, 1)
    BY <1>2, <1>3 DEF Header
  <1>5. Header(d) # <<>> /\ Frame(d) # <<>>
    BY <1>3, NoneTypes
  <1>6. /\ ~InSend => Writing = <<>>
        /\ call.op = "header" => Writing = Header(d)
        /\ call.op = "payload" => Writing = Frame(d)
        /\ InSend => call.op = "header" \/ call.op = "payload"
    BY DEF Writing, InSend, d
  <1>7. Writing \in Seq(CellType)
    BY <1>2, <1>6, NoneTypes
  <1>8. InSend => d.id = Len(accepted) + 1 /\ d.len \in OutLens
    BY <1>0 DEF CallSend, InSend, d
  <1>. QED
    BY <1>1, <1>4, <1>5, <1>6, <1>7, <1>8 DEF d

(* The tx ring in two parts: frames that are counted, and what is being    *)
(* written.                                                                *)
LEMMA TxParts ==
    ASSUME RxInv, TxFramed
    PROVE  \E a \in Seq(CellType) : tx = a \o Writing /\ Whole(a, txFrames)
  <1>. DEFINE w == Writing
              n == Len(tx) - Len(w)
              a == Front(tx, n)
  <1>1. tx \in Seq(CellType) /\ w \in Seq(CellType)
    BY RxInvParts, WritingIs DEF TxType
  <1>2. n >= 0 /\ Rest(tx, n) = w /\ Whole(a, txFrames)
    BY DEF TxFramed
  <1>. HIDE DEF w
  <1>3. n \in 0..Len(tx) /\ n \in Nat
    BY <1>1, <1>2, LenProperties
  <1>. HIDE DEF n
  <1>4. a \o Rest(tx, n) = tx
    BY <1>1, <1>3, Cut
  <1>5. a \in Seq(CellType)
    BY <1>1, <1>3, FrontCells
  <1>6. tx = a \o w
    BY <1>2, <1>4
  <1>. QED
    BY <1>2, <1>5, <1>6 DEF w

(* The first frame that is counted is the one transmit finds.              *)
LEMMA OutgoingFirst ==
    ASSUME RxInv, Numbered, TxFramed, txFrames > 0
    PROVE  /\ Outgoing \in DatagramType /\ Size(Outgoing) \in Nat /\ Size(Outgoing) <= Len(tx)
           /\ \A j \in 1..Size(Outgoing) : tx[j] = Cell(Outgoing, j)
           /\ Outgoing.len \in OutLens
           /\ \E a \in Seq(CellType) :
                /\ Rest(tx, Size(Outgoing)) = a \o Writing /\ Whole(a, txFrames - 1)
           /\ \/ Outgoing \in InSeq(accepted)
              \/ /\ InSend /\ Outgoing = call.d
                 /\ \E k \in 2..Len(tx) : tx[k] = Cell(call.d, 1)
  <1>1. PICK a \in Seq(CellType) : tx = a \o Writing /\ Whole(a, txFrames)
    BY TxParts
  <1>. DEFINE w == Writing
              d == a[1].d
              n == Size(d)
  <1>2. w \in Seq(CellType) /\ txFrames \in Nat /\ tx \in Seq(CellType)
    BY WritingIs, RxInvParts DEF TxType
  <1>3. /\ a # <<>> /\ d \in DatagramType /\ n <= Len(a)
        /\ \A j \in 1..n : a[j] = Cell(d, j)
        /\ Whole(Rest(a, n), txFrames - 1)
    <2>1. a \in Seq(CellType) /\ txFrames \in Int /\ txFrames > 0 /\ Whole(a, txFrames)
      BY <1>1, <1>2
    <2>. QED
      BY ONLY <2>1, WholeFirst
  <1>4. n \in Nat /\ n >= Hdr /\ Hdr \in Nat \ {0} /\ Len(a) \in Nat /\ Len(w) \in Nat
    BY <1>2, <1>3, FrameCells, LenProperties
  <1>. HIDE DEF d, n, w
  <1>5. /\ Len(tx) = Len(a) + Len(w) /\ \A i \in 1..Len(a) : tx[i] = a[i]
        /\ \A i \in 1..Len(w) : tx[Len(a) + i] = w[i]
    <2>1. a \in Seq(CellType) /\ w \in Seq(CellType)
      BY <1>2
    <2>2. /\ Len(a \o w) = Len(a) + Len(w) /\ \A i \in 1..Len(a) : (a \o w)[i] = a[i]
          /\ \A i \in 1..Len(w) : (a \o w)[Len(a) + i] = w[i]
      BY ONLY <2>1, ConcatCells
    <2>3. tx = a \o w
      BY <1>1 DEF w
    <2>. QED
      BY <2>2, <2>3
  <1>6. n <= Len(tx) /\ \A j \in 1..n : tx[j] = Cell(d, j)
    <2>1. \A j \in 1..n : j \in 1..Len(a)
      BY <1>3, <1>4
    <2>2. n <= Len(tx)
      BY <1>3, <1>4, <1>5
    <2>. QED
      BY <1>3, <1>5, <2>1, <2>2
  <1>7. Outgoing = d
    <2>1. Hdr <= Len(tx) /\ \A j \in 1..Hdr : tx[j] = Cell(d, j)
      BY <1>4, <1>5, <1>6
    <2>. QED
      BY <1>2, <1>3, <2>1, ParseFrame DEF Outgoing
  <1>8. Rest(tx, n) = Rest(a, n) \o w /\ Rest(a, n) \in Seq(CellType)
    <2>1. n \in 0..Len(a) /\ n \in Nat
      BY <1>3, <1>4
    <2>2. Rest(a \o w, n) = Rest(a, n) \o w
      BY <1>2, <2>1, RestConcat
    <2>. QED
      BY <1>1, <2>1, <2>2, RestCells DEF w
  <1>9. 1 \in 1..Len(tx) /\ tx[1].d = d
    <2>1. 1 \in 1..n /\ 1 \in 1..Len(tx)
      BY <1>4, <1>6, <1>5
    <2>2. tx[1] = Cell(d, 1)
      BY <1>6, <2>1
    <2>. QED
      BY <2>1, <2>2 DEF Cell
  <1>10. d \in InSeq(accepted) \/ (InSend /\ d = call.d)
    BY <1>9 DEF Numbered
  <1>11. d.len \in OutLens
    <2>1. CASE d \in InSeq(accepted)
      <3>1. accepted \in Seq([id : Nat, len : OutLens])
        BY RxInvParts DEF TxType
      <3>2. PICK i \in 1..Len(accepted) : accepted[i] = d
        BY <2>1 DEF InSeq
      <3>3. d \in [id : Nat, len : OutLens]
        BY <3>1, <3>2, ElementOfSeq
      <3>. QED
        BY <3>3
    <2>2. CASE InSend /\ d = call.d
      BY <2>2, WritingIs
    <2>. QED
      BY <1>10, <2>1, <2>2
  <1>12. ASSUME InSend PROVE \E k \in 2..Len(tx) : tx[k] = Cell(call.d, 1)
    <2>1. w # <<>> /\ w[1] = Cell(call.d, 1)
      BY <1>12, WritingIs DEF w
    <2>2. Len(w) >= 1
      BY <1>2, <1>4, <2>1, EmptySeq
    <2>. DEFINE k == Len(a) + 1
    <2>3. k \in 2..Len(tx) /\ tx[k] = w[1]
      BY <1>3, <1>4, <1>5, <2>2
    <2>. HIDE DEF k
    <2>. QED
      BY <2>1, <2>3
  <1>13. \E b \in Seq(CellType) : Rest(tx, n) = b \o Writing /\ Whole(b, txFrames - 1)
    BY <1>3, <1>8 DEF w
  <1>. QED
    BY <1>3, <1>4, <1>6, <1>7, <1>10, <1>11, <1>12, <1>13 DEF n

(* The tx ring is framed again when it is in two such parts.               *)
LEMMA TxPartsNext ==
    ASSUME NEW a \in Seq(CellType), NEW w \in Seq(CellType), tx' = a \o w, Writing' = w,
           Whole(a, txFrames')
    PROVE  TxFramed'
  <1>1. /\ Len(a \o w) - Len(w) = Len(a) /\ Len(a) >= 0
        /\ Front(a \o w, Len(a)) = a /\ Rest(a \o w, Len(a)) = w
    BY TwoPieces
  <1>. QED
    BY <1>1 DEF TxFramed

(* Every step keeps what is in the tx ring numbered.                       *)
LEMMA NumberedKept ==
    ASSUME RxInv, Numbered, UNCHANGED accepted,
           UNCHANGED call \/ (~InSend /\ ~(InSend')),
           tx' \in {tx, <<>>} \/ \E n \in Nat : tx' = Rest(tx, n)
    PROVE  Numbered'
  <1>0. tx \in Seq(CellType) /\ Len(tx) \in Nat
    BY RxInvParts, LenProperties DEF TxType
  <1>1. ASSUME NEW k \in 1..Len(tx') PROVE \E j \in 1..Len(tx) : tx'[k] = tx[j]
    <2>1. CASE tx' = tx
      BY <2>1
    <2>2. CASE tx' = <<>>
      BY <2>2, NoneTypes
    <2>3. CASE \E n \in Nat : tx' = Rest(tx, n)
      <3>1. PICK n \in Nat : tx' = Rest(tx, n)
        BY <2>3
      <3>2. /\ n <= Len(tx) => Len(tx') = Len(tx) - n
            /\ n >= Len(tx) => tx' = <<>>
            /\ \A i \in 1..Len(tx') : tx'[i] = tx[n + i]
        BY <1>0, <3>1, RestCells
      <3>3. n <= Len(tx) /\ Len(tx') = Len(tx) - n
        BY <1>0, <3>2, NoneTypes
      <3>4. n + k \in 1..Len(tx)
        BY <1>0, <3>3
      <3>. QED
        BY <3>2, <3>4
    <2>. QED
      BY <2>1, <2>2, <2>3
  <1>2. ASSUME NEW k \in 1..Len(tx')
        PROVE  tx'[k].d \in InSeq(accepted') \/ (InSend' /\ tx'[k].d = call'.d)
    <2>1. PICK j \in 1..Len(tx) : tx'[k] = tx[j]
      BY <1>1
    <2>2. tx[j].d \in InSeq(accepted) \/ (InSend /\ tx[j].d = call.d)
      BY DEF Numbered
    <2>3. UNCHANGED call => (InSend <=> InSend')
      BY DEF InSend
    <2>. QED
      BY <2>1, <2>2, <2>3
  <1>. QED
    BY <1>2 DEF Numbered

(* What a step leaves alone that does not concern the way out.             *)
TxIdle ==
    /\ UNCHANGED txView
    /\ UNCHANGED call \/ (~InSend /\ ~(InSend'))
    /\ UNCHANGED bulk \/ (bulk.kind # "Transmit" /\ bulk'.kind # "Transmit")

\* The chip's buffers are emptied between transfers, the rings between calls.
Wiped == WipeBuffers /\ bulk = NoBulk /\ UNCHANGED <<txVars, bulk, call>>
Emptied == EmptyRings /\ call = NoCall /\ UNCHANGED <<chipTxVars, bulk, call>>

(* The steps as the way out sees them.                                     *)
LEMMA TxCases ==
    ASSUME RxInv, [Next]_vars
    PROVE  \/ TxIdle \/ Wiped \/ Emptied
           \/ \E answered \in BOOLEAN : ChipSends(answered)
           \/ \E n \in OutLens : SendBegin(n)
           \/ SendPayload \/ SendCommit \/ TransmitEmpty \/ TransmitStart
           \/ \E staged \in BOOLEAN : TransmitFails(staged)
           \/ \E ok \in BOOLEAN : DmaSent(ok)
  <1>0. ControlPart /\ CallType
    BY RxInvParts
  <1>1. CASE Quiet
    BY <1>1, QuietKeeps DEF TxIdle
  <1>. USE DEF txView, txVars, chipTxVars, outVars
  <1>2. CASE \E n \in InLens : \E k \in {1, Hdr, Hdr + n} : PeerSends(n, k)
    BY <1>2 DEF PeerSends, TxIdle
  <1>3. CASE PeerFinishes
    BY <1>3 DEF PeerFinishes, TxIdle
  <1>4. CASE \E n \in DstLens : RecvBegin(n)
    BY <1>4 DEF RecvBegin, AppFree, NoCall, InSend, TxIdle
  <1>5. CASE RecvRead
    <2>1. UNCHANGED <<txView, bulk>> /\ call.op = "recv"
      BY <1>5 DEF RecvRead
    <2>2. call'.op = "recv"
      BY <1>0, <1>5 DEF RecvRead, CallType
    <2>. QED
      BY <2>1, <2>2 DEF InSend, TxIdle
  <1>6. CASE RecvEnd
    BY <1>6 DEF RecvEnd, InSend, NoCall, TxIdle
  <1>7. CASE ReceiveDrop \/ ReceiveEmpty \/ ReceiveFails
    BY <1>7 DEF ReceiveDrop, ReceiveEmpty, ReceiveFails, ThenTransmit, TxIdle
  <1>8. CASE ReceiveStart
    <2>1. UNCHANGED <<txView, call>> /\ pc = "run" /\ (bulk' = bulk \/ bulk'.kind # "Transmit")
      BY <1>8 DEF ReceiveStart, Receiving, Ticking
    <2>2. bulk.kind # "Transmit"
      BY <2>1, RunsAlone
    <2>. QED
      BY <2>1, <2>2 DEF TxIdle
  <1>9. ASSUME NEW ok \in BOOLEAN, DmaReceived(ok) PROVE TxIdle
    <2>1. UNCHANGED <<txView, call>> /\ bulk.kind # "Transmit" /\ bulk'.kind # "Transmit"
      BY <1>9 DEF DmaReceived, Completing, NoBulk
    <2>. QED
      BY <2>1 DEF TxIdle
  <1>10. CASE ChipCommand
    <2>1. WipeBuffers /\ cr # "none" /\ UNCHANGED <<txVars, bulk, call>>
      BY <1>10 DEF ChipCommand
    <2>2. bulk = NoBulk
      BY <1>0, <2>1 DEF ControlPart, Handlers
    <2>. QED
      BY <2>1, <2>2 DEF Wiped
  <1>11. CASE LinkReset
    BY <1>11 DEF LinkReset, Wiped
  <1>12. CASE Open
    <2>1. EmptyRings /\ st = "Free" /\ UNCHANGED <<chipTxVars, bulk, call>>
      BY <1>12 DEF Open
    <2>2. call = NoCall
      BY <1>0, <2>1 DEF ControlPart, CallHeld
    <2>. QED
      BY <2>1, <2>2 DEF Emptied
  <1>13. CASE Reconnect
    BY <1>13 DEF Reconnect, AppFree, Emptied
  <1>. QED
    BY <1>1, <1>2, <1>3, <1>4, <1>5, <1>6, <1>7, <1>8, <1>9, <1>10, <1>11, <1>12, <1>13, NextCases

(* What transmit may do to the tx ring.                                    *)
LEMMA TransmitTakes ==
    ASSUME RxInv, \/ TransmitEmpty \/ TransmitStart
                  \/ \E staged \in BOOLEAN : TransmitFails(staged)
    PROVE  /\ \E n \in Nat : tx' = Rest(tx, n)
           /\ UNCHANGED <<call, accepted>>
  <1>1. Outgoing \in DatagramType
    BY RxInvParts, ParseType DEF TxType, Outgoing
  <1>2. Hdr \in Nat /\ Size(Outgoing) \in Nat
    BY <1>1, FrameCells
  <1>3. tx' = Rest(tx, Hdr) \/ tx' = Rest(tx, Size(Outgoing))
    BY DEF TransmitEmpty, TransmitStart, TransmitFails
  <1>4. UNCHANGED <<call, accepted>>
    BY DEF TransmitEmpty, TransmitStart, TransmitFails, outVars
  <1>. QED
    BY <1>2, <1>3, <1>4

(* Every step keeps what is in the tx ring numbered.                       *)
LEMMA NumberedStep == RxInv /\ Numbered /\ [Next]_vars => Numbered'
  <1>. SUFFICES ASSUME RxInv, Numbered, [Next]_vars PROVE Numbered'
    OBVIOUS
  <1>0. tx \in Seq(CellType) /\ Len(tx) \in Nat /\ CallType
    BY RxInvParts, LenProperties DEF TxType
  <1>1. CASE TxIdle
    BY <1>1, NumberedKept DEF TxIdle, txView
  <1>2. CASE Wiped
    BY <1>2, NumberedKept DEF Wiped, WipeBuffers, txVars
  <1>3. CASE Emptied
    BY <1>3, NumberedKept DEF Emptied, EmptyRings
  <1>4. ASSUME NEW answered \in BOOLEAN, ChipSends(answered) PROVE Numbered'
    BY <1>4, NumberedKept DEF ChipSends, txVars
  <1>5. ASSUME NEW ok \in BOOLEAN, DmaSent(ok) PROVE Numbered'
    BY <1>5, NumberedKept DEF DmaSent, Completing, txVars
  <1>6. CASE TransmitEmpty \/ TransmitStart \/ \E staged \in BOOLEAN : TransmitFails(staged)
    BY <1>6, TransmitTakes, NumberedKept
  <1>7. ASSUME NEW t \in Seq(CellType), tx' = tx \o t, InSend',
               \A j \in 1..Len(t) : t[j].d = call'.d,
               ~InSend \/ call'.d = call.d, UNCHANGED accepted
        PROVE  Numbered'
    <2>1. /\ Len(tx') = Len(tx) + Len(t) /\ Len(t) \in Nat
          /\ \A i \in 1..Len(tx) : tx'[i] = tx[i]
          /\ \A i \in 1..Len(t) : tx'[Len(tx) + i] = t[i]
      BY <1>0, <1>7, ConcatCells
    <2>2. ASSUME NEW k \in 1..Len(tx')
          PROVE  tx'[k].d \in InSeq(accepted') \/ (InSend' /\ tx'[k].d = call'.d)
      <3>1. CASE k <= Len(tx)
        <4>1. tx'[k] = tx[k] /\ k \in 1..Len(tx)
          BY <1>0, <2>1, <3>1
        <4>2. tx[k].d \in InSeq(accepted) \/ (InSend /\ tx[k].d = call.d)
          BY <4>1 DEF Numbered
        <4>. QED
          BY <1>7, <4>1, <4>2
      <3>2. CASE k > Len(tx)
        <4>. DEFINE j == k - Len(tx)
        <4>1. j \in 1..Len(t) /\ k = Len(tx) + j
          BY <1>0, <2>1, <3>2
        <4>. HIDE DEF j
        <4>. QED
          BY <1>7, <2>1, <4>1
      <3>3. k <= Len(tx) \/ k > Len(tx)
        BY <1>0, <2>1
      <3>. QED
        BY <3>1, <3>2, <3>3
    <2>. QED
      BY <1>7, <2>2 DEF Numbered
  <1>8. ASSUME NEW n \in OutLens, SendBegin(n) PROVE Numbered'
    <2>. DEFINE d == Datagram(Len(accepted) + 1, n)
    <2>1. d \in DatagramType /\ tx' = tx \o Header(d) /\ call'.op = "header" /\ call'.d = d
      BY <1>8, TxSendBegin
    <2>2. ~InSend /\ UNCHANGED accepted
      BY <1>8 DEF SendBegin, AppFree, NoCall, InSend, outVars
    <2>. HIDE DEF d
    <2>3. Header(d) \in Seq(CellType) /\ Len(Header(d)) = Hdr
      BY <2>1, FrameCells
    <2>4. \A j \in 1..Len(Header(d)) : Header(d)[j].d = d
      BY <2>3 DEF Header, Cell
    <2>. QED
      BY <1>7, <2>1, <2>2, <2>3, <2>4 DEF InSend
  <1>9. CASE SendPayload
    <2>. DEFINE d == call.d
    <2>1. d \in DatagramType /\ tx' = tx \o Payload(d) /\ call'.op = "payload" /\ call'.d = d
      BY <1>9, TxSendPayload
    <2>2. UNCHANGED accepted
      BY <1>9 DEF SendPayload, outVars
    <2>3. call'.d = call.d
      BY <2>1
    <2>. HIDE DEF d
    <2>4. Payload(d) \in Seq(CellType) /\ Len(Payload(d)) = d.len
      BY <2>1, FrameCells
    <2>5. \A j \in 1..Len(Payload(d)) : Payload(d)[j].d = d
      BY <2>4 DEF Payload, Cell
    <2>. QED
      BY <1>7, <2>1, <2>2, <2>3, <2>4, <2>5 DEF InSend
  <1>10. CASE SendCommit
    <2>1. /\ Len(accepted') = Len(accepted) + 1 /\ Len(accepted) \in Nat
          /\ accepted'[Len(accepted) + 1] = call.d
          /\ \A i \in 1..Len(accepted) : accepted'[i] = accepted[i]
          /\ call.d.id = Len(accepted) + 1
          /\ InSeq(accepted') = InSeq(accepted) \cup {call.d}
      BY <1>10, TxSendCommit
    <2>2. tx' = tx
      BY <1>10 DEF SendCommit
    <2>3. ASSUME NEW i \in 1..Len(accepted') PROVE accepted'[i].id = i
      <3>1. i \in 1..Len(accepted) \/ i = Len(accepted) + 1
        BY <2>1
      <3>2. \A m \in 1..Len(accepted) : accepted[m].id = m
        BY DEF Numbered
      <3>. QED
        BY <2>1, <3>1, <3>2
    <2>4. ASSUME NEW k \in 1..Len(tx') PROVE tx'[k].d \in InSeq(accepted')
      BY <2>1, <2>2 DEF Numbered
    <2>. QED
      BY <2>3, <2>4 DEF Numbered
  <1>. QED
    BY <1>1, <1>2, <1>3, <1>4, <1>5, <1>6, <1>8, <1>9, <1>10, TxCases

(* As long as no fault has cut a frame, the tx ring stays framed.          *)
LEMMA FramedStep ==
    ASSUME OutFits, RxInv, Numbered, TxFramed, [Next]_vars, Clean'
    PROVE  TxFramed'
  <1>0. RxInv'
    BY RxInvStep
  <1>1. PICK a \in Seq(CellType) : tx = a \o Writing /\ Whole(a, txFrames)
    BY TxParts
  <1>2. /\ Writing \in Seq(CellType) /\ txFrames \in Nat /\ CallType
        /\ ~InSend => Writing = <<>>
        /\ call.op = "header" => Writing = Header(call.d)
        /\ call.op = "payload" => Writing = Frame(call.d)
    BY WritingIs, RxInvParts DEF TxType
  <1>3. /\ Writing' \in Seq(CellType)
        /\ ~(InSend') => Writing' = <<>>
        /\ call'.op = "header" => Writing' = Header(call'.d)
        /\ call'.op = "payload" => Writing' = Frame(call'.d)
    <2>1. CallType'
      BY <1>0 DEF RxInv, TypeOK, CallType
    <2>. DEFINE d == call'.d
    <2>2. d \in DatagramType
      BY <2>1 DEF CallType
    <2>. HIDE DEF d
    <2>3. Header(d) \in Seq(CellType) /\ Frame(d) \in Seq(CellType)
      BY <2>2, FrameCells
    <2>. QED
      BY <2>3, NoneTypes DEF Writing, InSend, d
  <1>4. UNCHANGED call => Writing' = Writing
    BY DEF Writing
  <1>5. ASSUME UNCHANGED <<tx, txFrames, Writing>> PROVE TxFramed'
    <2>1. tx' = a \o Writing' /\ Whole(a, txFrames')
      BY <1>1, <1>5
    <2>. QED
      BY <1>3, <2>1, TxPartsNext
  <1>6. CASE TxIdle
    <2>1. UNCHANGED Writing
      BY <1>2, <1>3, <1>4, <1>6 DEF TxIdle
    <2>. QED
      BY <1>5, <1>6, <2>1 DEF TxIdle, txView
  <1>7. CASE Wiped
    BY <1>4, <1>5, <1>7 DEF Wiped, txVars
  <1>8. ASSUME NEW answered \in BOOLEAN, ChipSends(answered) PROVE TxFramed'
    BY <1>4, <1>5, <1>8 DEF ChipSends, txVars
  <1>9. ASSUME NEW ok \in BOOLEAN, DmaSent(ok) PROVE TxFramed'
    BY <1>4, <1>5, <1>9 DEF DmaSent, Completing, txVars
  <1>10. CASE Emptied
    <2>1. tx' = <<>> /\ txFrames' = 0 /\ ~(InSend')
      BY <1>10 DEF Emptied, EmptyRings, NoCall, InSend
    <2>2. Writing' = <<>> /\ <<>> \in Seq(CellType) /\ tx' = <<>> \o <<>>
      BY <1>3, <2>1, NoneTypes, ConcatEmptySeq
    <2>. QED
      BY <2>1, <2>2, WholeNone, TxPartsNext
  <1>11. ASSUME NEW n \in OutLens, SendBegin(n) PROVE TxFramed'
    <2>. DEFINE d == Datagram(Len(accepted) + 1, n)
    <2>1. tx' = tx \o Header(d) /\ call'.op = "header" /\ call'.d = d
      BY <1>11, TxSendBegin
    <2>2. ~InSend /\ UNCHANGED txFrames
      BY <1>11 DEF SendBegin, AppFree, NoCall, InSend
    <2>. HIDE DEF d
    <2>3. Writing' = Header(d)
      BY <1>3, <2>1
    <2>4. tx = a
      BY <1>1, <1>2, <2>2, ConcatEmptySeq
    <2>5. tx' = a \o Writing' /\ Whole(a, txFrames')
      BY <1>1, <2>1, <2>2, <2>3, <2>4
    <2>. QED
      BY <1>3, <2>5, TxPartsNext
  <1>12. CASE SendPayload
    <2>. DEFINE d == call.d
    <2>1. d \in DatagramType /\ tx' = tx \o Payload(d) /\ call'.op = "payload" /\ call'.d = d
      BY <1>12, TxSendPayload
    <2>2. Writing = Header(d) /\ UNCHANGED txFrames
      BY <1>2, <1>12 DEF SendPayload
    <2>. HIDE DEF d
    <2>3. Writing' = Header(d) \o Payload(d)
      BY <1>3, <2>1 DEF Frame
    <2>4. Header(d) \in Seq(CellType) /\ Payload(d) \in Seq(CellType) /\ a \in Seq(CellType)
      BY <2>1, FrameCells
    <2>5. (a \o Header(d)) \o Payload(d) = a \o (Header(d) \o Payload(d))
      BY ONLY <2>4, ConcatAssociative, SMTT(30)
    <2>6. tx' = a \o Writing' /\ Whole(a, txFrames')
      BY <1>1, <2>1, <2>2, <2>3, <2>5
    <2>. QED
      BY <1>3, <2>6, TxPartsNext
  <1>13. CASE SendCommit
    <2>. DEFINE d == call.d
    <2>1. /\ Writing = Frame(d) /\ txFrames' = txFrames + 1 /\ tx' = tx
          /\ ~(InSend') /\ d \in DatagramType
      BY <1>2, <1>13 DEF SendCommit, InSend, NoCall, CallType
    <2>. HIDE DEF d
    <2>2. Frame(d) \in Seq(CellType)
      BY <2>1, FrameCells
    <2>3. a \o Frame(d) \in Seq(CellType)
      BY <2>2, ConcatCells
    <2>4. Whole(a \o Frame(d), txFrames')
      BY <1>1, <2>1, WholeAppend
    <2>5. Writing' = <<>>
      BY <1>3, <2>1
    <2>6. tx' = (a \o Frame(d)) \o Writing'
      BY <1>1, <2>1, <2>3, <2>5, ConcatEmptySeq
    <2>. QED
      BY <1>3, <2>3, <2>4, <2>6, TxPartsNext
  <1>14. ASSUME txFrames > 0, tx' = Rest(tx, Size(Outgoing)), txFrames' = txFrames - 1,
                UNCHANGED call
         PROVE  TxFramed'
    <2>1. PICK b \in Seq(CellType) :
            /\ Rest(tx, Size(Outgoing)) = b \o Writing /\ Whole(b, txFrames - 1)
      BY <1>14, OutgoingFirst
    <2>2. tx' = b \o Writing' /\ Whole(b, txFrames')
      BY <1>4, <1>14, <2>1
    <2>. QED
      BY <1>3, <2>2, TxPartsNext
  <1>15. CASE TransmitEmpty
    <2>1. /\ txFrames > 0 /\ tx' = Rest(tx, Hdr) /\ txFrames' = txFrames - 1 /\ UNCHANGED call
          /\ Outgoing.len = 0
      BY <1>15 DEF TransmitEmpty, Sendable
    <2>2. Size(Outgoing) = Hdr
      BY <2>1, HeaderAssumption DEF Size
    <2>. QED
      BY <1>14, <2>1, <2>2
  <1>16. CASE TransmitStart
    <2>1. txFrames > 0 /\ UNCHANGED call
      BY <1>16 DEF TransmitStart, Sendable
    <2>2. Outgoing.len \in OutLens
      BY <2>1, OutgoingFirst
    <2>3. Outgoing.len <= Scratch
      BY <2>2 DEF OutFits
    <2>4. tx' = Rest(tx, Size(Outgoing)) /\ txFrames' = txFrames - 1
      BY <1>16, <2>3 DEF TransmitStart
    <2>. QED
      BY <1>14, <2>1, <2>4
  <1>17. ASSUME NEW staged \in BOOLEAN, TransmitFails(staged) PROVE FALSE
    <2>1. "transmit" \in Faults /\ faults' = faults + 1
      BY <1>17 DEF TransmitFails
    <2>2. faults \in Nat
      BY RxInvParts, LimitsAssumption DEF ControlPart, ControlType
    <2>. QED
      BY <2>1, <2>2 DEF Clean
  <1>. QED
    BY <1>6, <1>7, <1>8, <1>9, <1>10, <1>11, <1>12, <1>13, <1>15, <1>16, <1>17, TxCases

(* Every step keeps the tx ring sound.                                     *)
LEMMA TxSoundStep ==
    ASSUME OutFits, RxInv, TxSound, [Next]_vars
    PROVE  TxSound'
  <1>1. Numbered /\ (Clean => TxFramed)
    BY TxSoundIs
  <1>2. Numbered'
    BY <1>1, NumberedStep
  <1>3. Clean' => Clean
    BY FaultsGrow DEF Clean
  <1>4. Clean' => TxFramed'
    BY <1>1, <1>3, FramedStep
  <1>. QED
    BY <1>2, <1>4 DEF TxSound, Numbered, Clean, InSend

-----------------------------------------------------------------------------
(* The way out, on a bus without faults.                                   *)

\* The datagrams SEND has taken, with the one in flight, and where an
\* accepted datagram may be.
txOut == peerGot \o wire
txDone == Ids(txOut) \o Staged
txAll == InSeq(txDone) \cup Datagrams(tx) \cup goneOut

\* A message carries the payload of an accepted datagram.
Genuine(m) == m.data = Payload(m.d) /\ m.d.id <= Len(accepted)

\* Sending and TxConserved where no fault has occurred.
SendOk ==
    /\ chipTx = <<>>
    /\ \A k \in 1..Len(txOut) : Genuine(txOut[k])
    /\ bulk.kind = "Transmit" =>
         bulk.d = dst /\ dst.id <= Len(accepted) /\ bulk.data = Payload(dst)
    /\ InOrder(txDone, tx)
    /\ 1..Len(accepted) \subseteq txAll

LEMMA SendOkIs == Sending /\ TxConserved <=> (faults = 0 => SendOk)
  <1>1. SendOk <=>
          /\ /\ chipTx = <<>>
             /\ \A k \in 1..Len(peerGot \o wire) : (peerGot \o wire)[k].d.id <= Len(accepted)
             /\ bulk.kind = "Transmit" =>
                  bulk.d = dst /\ dst.id <= Len(accepted) /\ bulk.data = Payload(dst)
          /\ /\ \A k \in 1..Len(txOut) : txOut[k].data = Payload(txOut[k].d)
             /\ InOrder(txDone, tx)
             /\ 1..Len(accepted) \subseteq InSeq(txDone) \cup Datagrams(tx) \cup goneOut
    BY DEF SendOk, txAll, txOut, Genuine
  <1>. QED
    BY <1>1 DEF Sending, TxConserved, txOut, txDone

(* The numbers of two pieces put together.                                 *)
LEMMA IdsConcat ==
    ASSUME NEW a \in Seq(MessageType), NEW b \in Seq(MessageType)
    PROVE  Ids(a \o b) = Ids(a) \o Ids(b)
  <1>. DEFINE c == a \o b
              l == Ids(a) \o Ids(b)
  <1>1. /\ c \in Seq(MessageType) /\ Len(c) = Len(a) + Len(b)
        /\ Len(a) \in Nat /\ Len(b) \in Nat
        /\ \A i \in 1..Len(a) : c[i] = a[i]
        /\ \A i \in 1..Len(b) : c[Len(a) + i] = b[i]
    BY ConcatCells
  <1>2. /\ Ids(a) \in Seq(Nat) /\ Len(Ids(a)) = Len(a)
        /\ \A k \in 1..Len(a) : Ids(a)[k] = a[k].d.id
    BY IdsType
  <1>3. /\ Ids(b) \in Seq(Nat) /\ Len(Ids(b)) = Len(b)
        /\ \A k \in 1..Len(b) : Ids(b)[k] = b[k].d.id
    BY IdsType
  <1>. HIDE DEF c
  <1>4. /\ Ids(c) \in Seq(Nat) /\ Len(Ids(c)) = Len(c)
        /\ \A k \in 1..Len(c) : Ids(c)[k] = c[k].d.id
    BY <1>1, IdsType
  <1>5. /\ l \in Seq(Nat) /\ Len(l) = Len(Ids(a)) + Len(Ids(b))
        /\ \A i \in 1..Len(Ids(a)) : l[i] = Ids(a)[i]
        /\ \A i \in 1..Len(Ids(b)) : l[Len(Ids(a)) + i] = Ids(b)[i]
    <2>1. Ids(a) \in Seq(Nat) /\ Ids(b) \in Seq(Nat)
      BY <1>2, <1>3
    <2>. QED
      BY ONLY <2>1, ConcatCells
  <1>. HIDE DEF l
  <1>6. ASSUME NEW i \in 1..Len(Ids(c)) PROVE Ids(c)[i] = l[i]
    <2>1. CASE i <= Len(a)
      <3>1. i \in 1..Len(a) /\ i \in 1..Len(c)
        BY <1>1, <1>4, <2>1
      <3>. QED
        BY <1>1, <1>2, <1>4, <1>5, <3>1, ZenonT(30)
    <2>2. CASE i > Len(a)
      <3>. DEFINE j == i - Len(a)
      <3>1. j \in 1..Len(b) /\ i = Len(a) + j /\ i \in 1..Len(c)
        BY <1>1, <1>4, <2>2
      <3>. HIDE DEF j
      <3>2. c[i] = b[j] /\ l[i] = Ids(b)[j]
        BY <1>1, <1>2, <1>3, <1>5, <3>1
      <3>. QED
        BY <1>3, <1>4, <3>1, <3>2
    <2>3. i <= Len(a) \/ i > Len(a)
      BY <1>1, <1>4
    <2>. QED
      BY <2>1, <2>2, <2>3
  <1>7. Len(Ids(c)) = Len(l)
    BY <1>1, <1>2, <1>3, <1>4, <1>5
  <1>8. Ids(c) = l
    BY <1>4, <1>5, <1>6, <1>7, SeqEqual
  <1>. QED
    BY <1>8 DEF c, l

(* The elements of two pieces put together.                                *)
LEMMA InSeqConcat ==
    ASSUME NEW S, NEW a \in Seq(S), NEW b \in Seq(S)
    PROVE  InSeq(a \o b) = InSeq(a) \cup InSeq(b)
  <1>. DEFINE c == a \o b
  <1>1. /\ Len(c) = Len(a) + Len(b) /\ Len(a) \in Nat /\ Len(b) \in Nat
        /\ \A i \in 1..Len(a) : c[i] = a[i]
        /\ \A i \in 1..Len(b) : c[Len(a) + i] = b[i]
    BY ConcatCells
  <1>. HIDE DEF c
  <1>2. ASSUME NEW k \in 1..Len(c) PROVE c[k] \in InSeq(a) \cup InSeq(b)
    <2>1. CASE k <= Len(a)
      <3>1. k \in 1..Len(a)
        BY <1>1, <2>1
      <3>. QED
        BY <1>1, <3>1 DEF InSeq
    <2>2. CASE k > Len(a)
      <3>. DEFINE j == k - Len(a)
      <3>1. j \in 1..Len(b) /\ k = Len(a) + j
        BY <1>1, <2>2
      <3>. HIDE DEF j
      <3>. QED
        BY <1>1, <3>1 DEF InSeq
    <2>3. k <= Len(a) \/ k > Len(a)
      BY <1>1
    <2>. QED
      BY <2>1, <2>2, <2>3
  <1>3. ASSUME NEW i \in 1..Len(a) PROVE a[i] \in InSeq(c)
    <2>1. i \in 1..Len(c) /\ c[i] = a[i]
      BY <1>1
    <2>. QED
      BY <2>1 DEF InSeq
  <1>4. ASSUME NEW i \in 1..Len(b) PROVE b[i] \in InSeq(c)
    <2>1. Len(a) + i \in 1..Len(c) /\ c[Len(a) + i] = b[i]
      BY <1>1
    <2>. QED
      BY <2>1 DEF InSeq
  <1>5. InSeq(c) = InSeq(a) \cup InSeq(b)
    BY <1>2, <1>3, <1>4 DEF InSeq
  <1>. QED
    BY <1>5 DEF c

(* The parts of what is sent.                                              *)
LEMMA TxLine ==
    ASSUME RxInv
    PROVE  /\ peerGot \in Seq(MessageType) /\ wire \in Seq(MessageType)
           /\ txOut \in Seq(MessageType) /\ tx \in Seq(CellType)
           /\ Ids(peerGot) \in Seq(Nat) /\ Ids(wire) \in Seq(Nat) /\ Ids(txOut) \in Seq(Nat)
           /\ Staged \in Seq(Nat) /\ txDone \in Seq(Nat)
           /\ txDone = Ids(peerGot) \o (Ids(wire) \o Staged)
           /\ InSeq(txDone) = InSeq(Ids(peerGot)) \cup InSeq(Ids(wire)) \cup InSeq(Staged)
  <1>1. peerGot \in Seq(MessageType) /\ wire \in Seq(MessageType) /\ tx \in Seq(CellType)
    BY RxInvParts DEF TxType
  <1>2. txOut \in Seq(MessageType) /\ Ids(txOut) = Ids(peerGot) \o Ids(wire)
    BY <1>1, ConcatCells, IdsConcat DEF txOut
  <1>3. Ids(peerGot) \in Seq(Nat) /\ Ids(wire) \in Seq(Nat) /\ Ids(txOut) \in Seq(Nat)
    BY <1>1, <1>2, IdsType
  <1>4. Staged \in Seq(Nat)
    <2>1. bulk.d.id \in Nat
      BY RxInvParts DEF BulkType, DatagramType
    <2>. QED
      BY <2>1, EmptySeq DEF Staged
  <1>. DEFINE p == Ids(peerGot)
              w == Ids(wire)
              c == Staged
  <1>5. p \in Seq(Nat) /\ w \in Seq(Nat) /\ c \in Seq(Nat)
    BY <1>3, <1>4
  <1>6. txDone = (p \o w) \o c
    BY <1>2 DEF txDone
  <1>. HIDE DEF p, w, c
  <1>7. (p \o w) \o c = p \o (w \o c) /\ p \o w \in Seq(Nat) /\ (p \o w) \o c \in Seq(Nat)
    <2>1. p \o w \in Seq(Nat)
      BY ONLY <1>5, ConcatCells
    <2>2. (p \o w) \o c \in Seq(Nat)
      BY ONLY <1>5, <2>1, ConcatCells
    <2>3. (p \o w) \o c = p \o (w \o c)
      BY ONLY <1>5, ConcatAssociative, SMTT(30)
    <2>. QED
      BY <2>1, <2>2, <2>3
  <1>8. InSeq(p \o w) = InSeq(p) \cup InSeq(w)
    BY ONLY <1>5, InSeqConcat
  <1>9. InSeq((p \o w) \o c) = InSeq(p \o w) \cup InSeq(c)
    <2>. DEFINE pw == p \o w
    <2>1. pw \in Seq(Nat) /\ c \in Seq(Nat)
      BY <1>5, <1>7
    <2>. HIDE DEF pw
    <2>2. InSeq(pw \o c) = InSeq(pw) \cup InSeq(c)
      BY ONLY <2>1, InSeqConcat
    <2>. QED
      BY <2>2 DEF pw
  <1>. QED
    BY <1>1, <1>2, <1>3, <1>4, <1>6, <1>7, <1>8, <1>9 DEF p, w, c

(* What has been sent was accepted.                                        *)
LEMMA TxDoneBound ==
    ASSUME RxInv, SendOk
    PROVE  \A i \in 1..Len(txDone) : txDone[i] <= Len(accepted)
  <1>1. txOut \in Seq(MessageType) /\ Ids(txOut) \in Seq(Nat) /\ Staged \in Seq(Nat)
    BY TxLine
  <1>2. /\ Len(Ids(txOut)) = Len(txOut) /\ \A k \in 1..Len(txOut) : Ids(txOut)[k] = txOut[k].d.id
    BY <1>1, IdsType
  <1>3. \A x \in InSeq(Ids(txOut)) : x <= Len(accepted)
    BY <1>2 DEF SendOk, Genuine, InSeq
  <1>4. \A x \in InSeq(Staged) : x <= Len(accepted)
    <2>1. CASE bulk.kind = "Transmit"
      <3>1. Staged = <<bulk.d.id>> /\ bulk.d.id <= Len(accepted)
        BY <2>1 DEF Staged, SendOk
      <3>. QED
        BY <3>1 DEF InSeq
    <2>2. CASE bulk.kind # "Transmit"
      BY <2>2, NoneTypes DEF Staged, InSeq
    <2>. QED
      BY <2>1, <2>2
  <1>5. InSeq(txDone) = InSeq(Ids(txOut)) \cup InSeq(Staged)
    BY <1>1, InSeqConcat DEF txDone
  <1>. QED
    BY <1>3, <1>4, <1>5 DEF InSeq

(* What leaves the way out alone.                                          *)
LEMMA SendIdle ==
    ASSUME SendOk, UNCHANGED <<tx, accepted, chipTx, txOut, dst>>, goneOut \subseteq goneOut',
           UNCHANGED bulk \/ (bulk.kind # "Transmit" /\ bulk'.kind # "Transmit")
    PROVE  SendOk'
  <1>1. UNCHANGED Staged
    BY DEF Staged
  <1>2. UNCHANGED txDone
    BY <1>1 DEF txDone
  <1>3. txAll \subseteq txAll'
    BY <1>2 DEF txAll
  <1>. QED
    BY <1>2, <1>3 DEF SendOk, Genuine

(* The chip gives up the first n datagrams of its TX buffer.               *)
LEMMA SendForget ==
    ASSUME RxInv, SendOk, NEW n \in 0..Len(wire), wire' = Rest(wire, n), chipTx' = <<>>,
           goneOut \cup {wire[k].d.id : k \in 1..n} \subseteq goneOut',
           UNCHANGED <<tx, accepted, peerGot, bulk, dst>>
    PROVE  SendOk'
  <1>1. /\ peerGot \in Seq(MessageType) /\ wire \in Seq(MessageType) /\ Staged \in Seq(Nat)
        /\ Ids(peerGot) \in Seq(Nat)
        /\ txDone = Ids(peerGot) \o (Ids(wire) \o Staged)
        /\ InSeq(txDone) = InSeq(Ids(peerGot)) \cup InSeq(Ids(wire)) \cup InSeq(Staged)
    BY TxLine
  <1>. DEFINE f == Front(wire, n)
              r == Rest(wire, n)
  <1>2. Len(wire) \in Nat /\ n \in Nat /\ n <= Len(wire)
    BY <1>1, LenProperties
  <1>3. f \in Seq(MessageType) /\ Len(f) = n /\ \A i \in 1..Len(f) : f[i] = wire[i]
    BY <1>1, <1>2, FrontCells
  <1>4. r \in Seq(MessageType)
    BY <1>1, <1>2, RestCells
  <1>5. wire = f \o r
    BY <1>1, Cut
  <1>6. wire' = r /\ Staged' = Staged
    BY DEF Staged
  <1>. HIDE DEF f, r
  <1>7. Ids(wire) = Ids(f) \o Ids(r) /\ Ids(f) \in Seq(Nat) /\ Ids(r) \in Seq(Nat)
    BY <1>3, <1>4, <1>5, IdsConcat, IdsType
  <1>. DEFINE p == Ids(peerGot)
              g == Ids(f)
              q == Ids(r)
              c == Staged
  <1>8. p \in Seq(Nat) /\ g \in Seq(Nat) /\ q \in Seq(Nat) /\ c \in Seq(Nat)
    BY <1>1, <1>7
  <1>9. txDone = p \o ((g \o q) \o c)
    BY <1>1, <1>7
  <1>10. txDone' = (p \o q) \o c
    <2>1. Ids(peerGot \o r) = p \o q
      BY <1>1, <1>4, IdsConcat
    <2>. QED
      BY <1>6, <2>1 DEF txDone, txOut
  <1>. HIDE DEF p, g, q, c
  <1>11. (g \o q) \o c = g \o (q \o c) /\ (p \o q) \o c = p \o (q \o c) /\ q \o c \in Seq(Nat)
    <2>1. q \o c \in Seq(Nat)
      BY ONLY <1>8, ConcatCells
    <2>2. \A x, y, z \in Seq(Nat) : (x \o y) \o z = x \o (y \o z)
      BY ONLY ConcatAssociative, SMTT(30)
    <2>3. (g \o q) \o c = g \o (q \o c) /\ (p \o q) \o c = p \o (q \o c)
      BY ONLY <1>8, <2>2, ZenonT(30)
    <2>. QED
      BY <2>1, <2>2, <2>3
  <1>12. InOrder(txDone', tx')
    <2>. DEFINE e == q \o c
    <2>1. p \in Seq(Nat) /\ g \in Seq(Nat) /\ e \in Seq(Nat) /\ InOrder(p \o (g \o e), tx)
      BY <1>8, <1>9, <1>11 DEF SendOk
    <2>. HIDE DEF e
    <2>2. InOrder(p \o e, tx)
      BY ONLY <2>1, OrderForget
    <2>. QED
      BY <1>10, <1>11, <2>2 DEF e
  <1>13. InSeq(txDone') = InSeq(p) \cup InSeq(q) \cup InSeq(c)
    <2>1. InSeq(q \o c) = InSeq(q) \cup InSeq(c)
      BY ONLY <1>8, InSeqConcat
    <2>. DEFINE e == q \o c
    <2>2. p \in Seq(Nat) /\ e \in Seq(Nat)
      BY <1>8, <1>11
    <2>. HIDE DEF e
    <2>3. InSeq(p \o e) = InSeq(p) \cup InSeq(e)
      BY ONLY <2>2, InSeqConcat
    <2>. QED
      BY <1>10, <1>11, <2>1, <2>3 DEF e
  <1>14. InSeq(Ids(wire)) = InSeq(g) \cup InSeq(q)
    <2>1. InSeq(g \o q) = InSeq(g) \cup InSeq(q)
      BY ONLY <1>8, InSeqConcat
    <2>. QED
      BY <1>7, <2>1 DEF g, q
  <1>15. InSeq(g) \subseteq goneOut'
    <2>1. Len(g) = n /\ \A k \in 1..n : g[k] = f[k].d.id
      BY <1>3, IdsType DEF g
    <2>2. \A k \in 1..n : g[k] = wire[k].d.id
      BY <1>3, <2>1
    <2>3. \A k \in 1..n : wire[k].d.id \in goneOut'
      OBVIOUS
    <2>. QED
      BY <2>1, <2>2, <2>3 DEF InSeq
  <1>16. txAll \subseteq txAll'
    BY <1>1, <1>13, <1>14, <1>15 DEF txAll, p, c
  <1>17. ASSUME NEW k \in 1..Len(txOut') PROVE Genuine(txOut'[k])
    <2>1. /\ txOut' = peerGot \o r /\ txOut = peerGot \o wire
      BY <1>6 DEF txOut
    <2>2. txOut'[k] \in InSeq(txOut')
      BY DEF InSeq
    <2>3. InSeq(txOut') = InSeq(peerGot) \cup InSeq(r)
      <3>1. peerGot \in Seq(MessageType) /\ r \in Seq(MessageType)
        BY <1>1, <1>4
      <3>. QED
        BY ONLY <2>1, <3>1, InSeqConcat
    <2>4. InSeq(wire) = InSeq(f) \cup InSeq(r)
      <3>1. f \in Seq(MessageType) /\ r \in Seq(MessageType)
        BY <1>3, <1>4
      <3>. QED
        BY ONLY <1>5, <3>1, InSeqConcat
    <2>5. InSeq(txOut) = InSeq(peerGot) \cup InSeq(wire)
      <3>1. peerGot \in Seq(MessageType) /\ wire \in Seq(MessageType)
        BY <1>1
      <3>. QED
        BY ONLY <2>1, <3>1, InSeqConcat
    <2>6. txOut'[k] \in InSeq(txOut)
      BY <2>2, <2>3, <2>4, <2>5
    <2>7. \A m \in InSeq(txOut) : Genuine(m)
      BY DEF SendOk, InSeq
    <2>. QED
      BY <2>6, <2>7
  <1>. QED
    BY <1>12, <1>16, <1>17 DEF SendOk, Genuine

(* The peer gets the first of them.                                        *)
LEMMA SendAnswered ==
    ASSUME RxInv, wire # <<>>, wire' = Tail(wire), peerGot' = Append(peerGot, Head(wire))
    PROVE  txOut' = txOut
  <1>. DEFINE m == Head(wire)
              t == Tail(wire)
  <1>1. peerGot \in Seq(MessageType) /\ wire \in Seq(MessageType)
    BY TxLine
  <1>2. m \in MessageType /\ t \in Seq(MessageType) /\ wire = <<m>> \o t
    BY <1>1, HeadTailProperties
  <1>. HIDE DEF m, t
  <1>3. Append(peerGot, m) = peerGot \o <<m>> /\ <<m>> \in Seq(MessageType)
    BY <1>1, <1>2, AppendIsConcat
  <1>4. peerGot \in Seq(MessageType) /\ <<m>> \in Seq(MessageType) /\ t \in Seq(MessageType)
    BY <1>1, <1>2, <1>3
  <1>5. (peerGot \o <<m>>) \o t = peerGot \o (<<m>> \o t)
    BY ONLY <1>4, ConcatAssociative
  <1>. QED
    BY <1>2, <1>3, <1>5 DEF txOut, m, t

(* One more datagram is sent, behind the others.                           *)
LEMMA SendOne ==
    ASSUME RxInv, NEW m \in MessageType, wire' = Append(wire, m), UNCHANGED peerGot
    PROVE  /\ txOut' = Append(txOut, m) /\ Ids(txOut') = Ids(txOut) \o <<m.d.id>>
           /\ \A k \in 1..Len(txOut') : txOut'[k] \in InSeq(txOut) \cup {m}
  <1>1. /\ peerGot \in Seq(MessageType) /\ wire \in Seq(MessageType)
        /\ txOut \in Seq(MessageType)
    BY TxLine
  <1>2. Append(wire, m) = wire \o <<m>> /\ <<m>> \in Seq(MessageType)
    BY <1>1, AppendIsConcat
  <1>3. peerGot \in Seq(MessageType) /\ wire \in Seq(MessageType) /\ <<m>> \in Seq(MessageType)
    BY <1>1, <1>2
  <1>4. peerGot \o (wire \o <<m>>) = (peerGot \o wire) \o <<m>>
    BY ONLY <1>3, ConcatAssociative
  <1>5. Append(txOut, m) = txOut \o <<m>>
    BY <1>1, AppendIsConcat
  <1>6. txOut' = Append(txOut, m)
    BY <1>2, <1>4, <1>5 DEF txOut
  <1>7. Ids(Append(txOut, m)) = Ids(txOut) \o <<m.d.id>>
    BY <1>1, IdsAppend
  <1>8. InSeq(Append(txOut, m)) = InSeq(txOut) \cup {m}
    BY <1>1, SentGrows
  <1>. QED
    BY <1>6, <1>7, <1>8 DEF InSeq

(* Cells of one datagram are written behind the others.                    *)
LEMMA SendWrites ==
    ASSUME RxInv, SendOk, NEW t \in Seq(CellType), tx' = tx \o t,
           \A k \in Starts(t) :
             /\ k = 1
             /\ \A i \in 1..Len(txDone) : txDone[i] < t[k].d.id
             /\ \A j \in 1..Len(tx) : tx[j].d.id < t[k].d.id,
           UNCHANGED <<accepted, chipTx, wire, peerGot, dst, bulk, goneOut>>
    PROVE  SendOk'
  <1>1. tx \in Seq(CellType) /\ InOrder(txDone, tx)
    BY TxLine DEF SendOk
  <1>2. InOrder(txDone, tx')
    BY <1>1, OrderAppend
  <1>3. Datagrams(tx') = Datagrams(tx) \cup Datagrams(t)
    BY <1>1, DatagramsConcat
  <1>4. UNCHANGED txOut /\ UNCHANGED Staged
    BY DEF txOut, Staged
  <1>5. UNCHANGED txDone
    BY <1>4 DEF txDone
  <1>6. txAll \subseteq txAll'
    BY <1>3, <1>5 DEF txAll
  <1>. QED
    BY <1>2, <1>4, <1>5, <1>6 DEF SendOk, Genuine

(* Where no fault has occurred, transmit finds the next accepted datagram, *)
(* whole, at the head of the tx ring.                                      *)
LEMMA NextOut ==
    ASSUME RxInv, Numbered, TxFramed, SendOk, txFrames > 0
    PROVE  /\ Outgoing \in DatagramType /\ Size(Outgoing) \in 1..Len(tx)
           /\ \A j \in 1..Size(Outgoing) : tx[j] = Cell(Outgoing, j)
           /\ Outgoing.len \in OutLens
           /\ Outgoing.id <= Len(accepted)
           /\ InOrder(Append(txDone, Outgoing.id), Rest(tx, Size(Outgoing)))
           /\ InOrder(txDone, Rest(tx, Size(Outgoing)))
           /\ Datagrams(tx) \subseteq {Outgoing.id} \cup Datagrams(Rest(tx, Size(Outgoing)))
  <1>. DEFINE d == Outgoing
              n == Size(d)
  <1>1. /\ d \in DatagramType /\ n \in Nat /\ n <= Len(tx)
        /\ \A j \in 1..n : tx[j] = Cell(d, j)
        /\ d.len \in OutLens
        /\ \/ d \in InSeq(accepted)
           \/ /\ InSend /\ d = call.d
              /\ \E k \in 2..Len(tx) : tx[k] = Cell(call.d, 1)
    BY OutgoingFirst
  <1>2. n >= Hdr /\ Hdr \in Nat \ {0}
    BY <1>1, FrameCells
  <1>3. tx \in Seq(CellType) /\ Len(tx) \in Nat /\ txDone \in Seq(Nat) /\ InOrder(txDone, tx)
    BY TxLine, LenProperties DEF SendOk
  <1>. HIDE DEF d, n
  <1>4. n \in 1..Len(tx) /\ 1 \in 1..n /\ n \in 0..Len(tx)
    BY <1>1, <1>2, <1>3
  <1>5. tx[1].d = d /\ tx[1].pos = 1 /\ \A j \in 1..n : tx[j].d.id = d.id
    <2>1. ASSUME NEW j \in 1..n PROVE tx[j].d = d /\ tx[j].pos = j
      <3>1. tx[j] = Cell(d, j)
        BY <1>1
      <3>. QED
        BY <3>1 DEF Cell
    <2>. QED
      BY <1>4, <2>1
  <1>6. InOrder(Append(txDone, d.id), Rest(tx, n))
    <2>1. InOrder(Append(txDone, tx[1].d.id), Rest(tx, n))
      BY <1>3, <1>4, <1>5, OrderTake
    <2>. QED
      BY <1>5, <2>1
  <1>7. InOrder(txDone, Rest(tx, n))
    BY <1>3, <1>4, OrderRest
  <1>8. Datagrams(tx) \subseteq {d.id} \cup Datagrams(Rest(tx, n))
    BY <1>3, <1>4, <1>5, DatagramsTaken
  <1>9. d.id <= Len(accepted)
    <2>1. CASE d \in InSeq(accepted)
      <3>1. PICK i \in 1..Len(accepted) : accepted[i] = d
        BY <2>1 DEF InSeq
      <3>2. d.id = i
        BY <3>1 DEF Numbered
      <3>3. Len(accepted) \in Nat
        BY RxInvParts, LenProperties DEF TxType
      <3>. QED
        BY <3>1, <3>2, <3>3
    <2>2. CASE d = call.d /\ \E k \in 2..Len(tx) : tx[k] = Cell(call.d, 1)
      <3>1. PICK k \in 2..Len(tx) : tx[k] = Cell(d, 1)
        BY <2>2
      <3>2. k \in Starts(tx) /\ tx[k].d = d /\ 1 \in 1..(k - 1)
        BY <1>3, <3>1 DEF Starts, Cell
      <3>3. tx[1].d.id < tx[k].d.id
        BY <1>3, <3>2 DEF InOrder
      <3>4. d.id \in Nat
        BY <1>1 DEF DatagramType
      <3>5. FALSE
        BY <1>5, <3>2, <3>3, <3>4
      <3>. QED
        BY <3>5
    <2>. QED
      BY <1>1, <2>1, <2>2
  <1>. QED
    BY <1>1, <1>4, <1>6, <1>7, <1>8, <1>9 DEF d, n

(* send_to on the way out.                                                 *)
LEMMA SendSendBegin ==
    ASSUME RxInv, Numbered, SendOk, NEW n \in OutLens, SendBegin(n)
    PROVE  SendOk'
  <1>. DEFINE d == Datagram(Len(accepted) + 1, n)
              h == Header(d)
  <1>1. d \in DatagramType /\ tx' = tx \o h
    BY TxSendBegin
  <1>2. /\ ~InSend
        /\ UNCHANGED <<accepted, chipTx, wire, peerGot, dst, bulk, goneOut>>
    BY DEF SendBegin, AppFree, NoCall, InSend, outVars, chipTxVars
  <1>3. Len(accepted) \in Nat /\ d.id = Len(accepted) + 1 /\ tx \in Seq(CellType)
    BY RxInvParts, LenProperties DEF TxType, Datagram
  <1>4. txDone \in Seq(Nat) /\ \A i \in 1..Len(txDone) : txDone[i] <= Len(accepted)
    BY TxLine, TxDoneBound
  <1>. HIDE DEF d
  <1>5. h \in Seq(CellType) /\ Len(h) = Hdr /\ \A k \in 1..Len(h) : h[k] = Cell(d, k)
    BY <1>1, FrameCells DEF Header
  <1>. HIDE DEF h
  <1>6. ASSUME NEW i \in 1..Len(txDone) PROVE txDone[i] < d.id
    <2>1. txDone[i] \in Nat
      BY <1>4, ElementOfSeq
    <2>. QED
      BY <1>3, <1>4, <2>1
  <1>7. ASSUME NEW j \in 1..Len(tx) PROVE tx[j].d.id < d.id
    <2>1. tx[j].d \in InSeq(accepted)
      BY <1>2 DEF Numbered
    <2>2. PICK i \in 1..Len(accepted) : accepted[i] = tx[j].d
      BY <2>1 DEF InSeq
    <2>3. tx[j].d.id = i
      BY <2>2 DEF Numbered
    <2>. QED
      BY <1>3, <2>3
  <1>8. \A k \in Starts(h) : k = 1 /\ h[k].d = d
    <2>1. ASSUME NEW k \in Starts(h) PROVE k = 1 /\ h[k].d = d
      <3>1. h[k] = Cell(d, k) /\ h[k].pos = 1
        BY <1>5 DEF Starts
      <3>. QED
        BY <3>1 DEF Cell
    <2>. QED
      BY <2>1
  <1>9. \A k \in Starts(h) :
          /\ k = 1
          /\ \A i \in 1..Len(txDone) : txDone[i] < h[k].d.id
          /\ \A j \in 1..Len(tx) : tx[j].d.id < h[k].d.id
    BY <1>6, <1>7, <1>8
  <1>. QED
    BY <1>1, <1>2, <1>5, <1>9, SendWrites

LEMMA SendSendPayload ==
    ASSUME RxInv, SendOk, SendPayload
    PROVE  SendOk'
  <1>. DEFINE d == call.d
              t == Payload(d)
  <1>1. d \in DatagramType /\ tx' = tx \o t
    BY TxSendPayload
  <1>2. UNCHANGED <<accepted, chipTx, wire, peerGot, dst, bulk, goneOut>>
    BY DEF SendPayload, outVars, chipTxVars
  <1>. HIDE DEF d
  <1>3. /\ t \in Seq(CellType) /\ Len(t) = d.len /\ d.len \in Nat /\ Hdr \in Nat \ {0}
        /\ \A k \in 1..Len(t) : t[k] = Cell(d, Hdr + k)
    BY <1>1, FrameCells DEF Payload
  <1>. HIDE DEF t
  <1>4. ASSUME NEW k \in Starts(t) PROVE FALSE
    <2>1. k \in 1..Len(t) /\ t[k] = Cell(d, Hdr + k) /\ t[k].pos = 1
      BY <1>3 DEF Starts
    <2>2. Hdr + k = 1
      BY <2>1 DEF Cell
    <2>. QED
      BY <1>3, <2>1, <2>2
  <1>. QED
    BY <1>1, <1>2, <1>3, <1>4, SendWrites

LEMMA SendSendCommit ==
    ASSUME RxInv, TxFramed, SendOk, SendCommit
    PROVE  SendOk'
  <1>1. Len(accepted') = Len(accepted) + 1 /\ Len(accepted) \in Nat /\ call.d.id = Len(accepted) + 1
    BY TxSendCommit
  <1>2. /\ call.op = "payload" /\ tx' = tx
        /\ UNCHANGED <<chipTx, wire, peerGot, dst, bulk, goneOut>>
    BY DEF SendCommit, chipTxVars
  <1>3. UNCHANGED txOut /\ UNCHANGED Staged
    BY <1>2 DEF txOut, Staged
  <1>4. UNCHANGED txDone
    BY <1>3 DEF txDone
  <1>5. UNCHANGED txAll
    BY <1>2, <1>4 DEF txAll
  <1>6. call.d.id \in Datagrams(tx)
    <2>. DEFINE d == call.d
    <2>1. PICK a \in Seq(CellType) : tx = a \o Writing
      BY TxParts
    <2>2. Writing = Frame(d)
      BY <1>2, WritingIs
    <2>3. d \in DatagramType
      BY RxInvParts DEF CallType
    <2>. HIDE DEF d
    <2>4. Frame(d) \in Seq(CellType) /\ d.id \in Datagrams(Frame(d))
      BY <2>3, FrameCells, DatagramsFrame
    <2>5. d.id \in Datagrams(tx)
      BY <2>1, <2>2, <2>4, DatagramsConcat
    <2>. QED
      BY <2>5 DEF d
  <1>7. 1..Len(accepted') \subseteq txAll'
    <2>1. 1..Len(accepted') = 1..Len(accepted) \cup {call.d.id}
      BY <1>1
    <2>2. 1..Len(accepted) \subseteq txAll
      BY DEF SendOk
    <2>. QED
      BY <1>5, <1>6, <2>1, <2>2 DEF txAll
  <1>8. \A x : x <= Len(accepted) /\ x \in Nat => x <= Len(accepted')
    BY <1>1
  <1>9. ASSUME NEW k \in 1..Len(txOut')
        PROVE  txOut'[k].data = Payload(txOut'[k].d) /\ txOut'[k].d.id <= Len(accepted')
    <2>1. k \in 1..Len(txOut) /\ txOut'[k] = txOut[k]
      BY <1>3
    <2>2. txOut[k].data = Payload(txOut[k].d) /\ txOut[k].d.id <= Len(accepted)
      BY <2>1 DEF SendOk, Genuine
    <2>3. txOut[k].d.id \in Nat
      <3>1. txOut[k] \in MessageType
        BY <2>1, TxLine, ElementOfSeq
      <3>. QED
        BY <3>1 DEF MessageType, DatagramType
    <2>. QED
      BY <1>8, <2>1, <2>2, <2>3
  <1>10. bulk'.kind = "Transmit" =>
           bulk'.d = dst' /\ dst'.id <= Len(accepted') /\ bulk'.data = Payload(dst')
    <2>1. dst.id \in Nat
      BY RxInvParts DEF TxType, DatagramType
    <2>. QED
      BY <1>2, <1>8, <2>1 DEF SendOk
  <1>11. InOrder(txDone', tx') /\ chipTx' = <<>>
    BY <1>2, <1>4 DEF SendOk
  <1>. QED
    BY <1>7, <1>9, <1>10, <1>11 DEF SendOk, Genuine

(* SEND of the next datagram, with nothing left between the pointers.      *)
LEMMA SendTaken ==
    ASSUME RxInv, SendOk, NEW d \in DatagramType, d.id <= Len(accepted), NEW ids \in Seq(Nat),
           Send(d, Payload(d)), UNCHANGED <<accepted, peerGot>>, bulk' = NoBulk,
           ids = Ids(txOut), InOrder(ids \o <<d.id>>, tx'), InOrder(ids, tx'),
           InSeq(txDone) \cup Datagrams(tx) \subseteq InSeq(ids) \cup {d.id} \cup Datagrams(tx')
    PROVE  SendOk'
  <1>. DEFINE m == [d |-> d, data |-> Payload(d)]
  <1>1. txOut \in Seq(MessageType)
    BY TxLine
  <1>2. Payload(d) \in Seq(CellType)
    BY FrameCells
  <1>3. m \in MessageType /\ m.d = d /\ m.data = Payload(d)
    BY <1>2 DEF MessageType
  <1>4. chipTx = <<>> /\ chipTx' = <<>>
    BY DEF SendOk, Send
  <1>5. chipTx \o Payload(d) = Payload(d)
    BY <1>2, <1>4, ConcatEmptySeq
  <1>6. Staged' = <<>> /\ bulk'.kind # "Transmit"
    BY DEF Staged, NoBulk
  <1>7. d.id \in Nat /\ <<d.id>> \in Seq(Nat) /\ <<>> \in Seq(Nat) /\ ids \o <<d.id>> \in Seq(Nat)
    <2>1. d.id \in Nat
      BY DEF DatagramType
    <2>2. <<d.id>> \in Seq(Nat) /\ <<>> \in Seq(Nat)
      BY <2>1
    <2>. QED
      BY <2>1, <2>2, ConcatCells
  <1>8. 1..Len(accepted) \subseteq InSeq(ids) \cup {d.id} \cup Datagrams(tx') \cup goneOut
    BY DEF SendOk, txAll
  <1>9. CASE sr = "Udp"
    <2>1. wire' = Append(wire, m) /\ goneOut' = goneOut
      BY <1>5, <1>9 DEF Send
    <2>. HIDE DEF m
    <2>2. /\ Ids(txOut') = ids \o <<d.id>>
          /\ \A k \in 1..Len(txOut') : txOut'[k] \in InSeq(txOut) \cup {m}
      BY <1>3, <2>1, SendOne
    <2>3. txDone' = ids \o <<d.id>>
      <3>. DEFINE l == ids \o <<d.id>>
      <3>1. txDone' = l \o <<>> /\ l \in Seq(Nat)
        BY <1>6, <1>7, <2>2 DEF txDone
      <3>. HIDE DEF l
      <3>2. l \o <<>> = l
        BY <3>1, ConcatEmptySeq
      <3>. QED
        BY <3>1, <3>2 DEF l
    <2>4. InSeq(txDone') = InSeq(ids) \cup {d.id}
      <3>1. InSeq(<<d.id>>) = {d.id}
        BY DEF InSeq
      <3>2. ids \in Seq(Nat) /\ <<d.id>> \in Seq(Nat)
        BY <1>7
      <3>3. InSeq(ids \o <<d.id>>) = InSeq(ids) \cup InSeq(<<d.id>>)
        BY ONLY <3>2, InSeqConcat, ZenonT(30)
      <3>. QED
        BY <2>3, <3>1, <3>3
    <2>5. 1..Len(accepted') \subseteq txAll'
      BY <1>8, <2>1, <2>4 DEF txAll
    <2>6. ASSUME NEW k \in 1..Len(txOut') PROVE Genuine(txOut'[k])
      <3>1. \A e \in InSeq(txOut) : Genuine(e)
        BY DEF SendOk, InSeq
      <3>2. Genuine(m)
        BY <1>3 DEF Genuine
      <3>. QED
        BY <2>2, <3>1, <3>2
    <2>. QED
      BY <1>4, <1>6, <2>3, <2>5, <2>6 DEF SendOk, Genuine
  <1>10. CASE sr # "Udp"
    <2>1. wire' = wire /\ goneOut' = goneOut \cup {d.id}
      BY <1>10 DEF Send
    <2>2. txOut' = txOut
      BY <2>1 DEF txOut
    <2>3. txDone' = ids
      <3>1. txDone' = ids \o <<>>
        BY <1>6, <2>2 DEF txDone
      <3>. QED
        BY <3>1, ConcatEmptySeq
    <2>4. 1..Len(accepted') \subseteq txAll'
      BY <1>8, <2>1, <2>3 DEF txAll
    <2>. QED
      BY <1>4, <1>6, <2>2, <2>3, <2>4 DEF SendOk, Genuine
  <1>. QED
    BY <1>9, <1>10

(* An empty datagram is sent.                                              *)
LEMMA SendTransmitEmpty ==
    ASSUME RxInv, Numbered, TxFramed, SendOk, TransmitEmpty
    PROVE  SendOk'
  <1>. DEFINE d == Outgoing
              ids == Ids(txOut)
  <1>1. /\ pc = "tx" /\ txFrames > 0 /\ d.len = 0 /\ tx' = Rest(tx, Hdr) /\ Send(d, <<>>)
        /\ UNCHANGED <<accepted, peerGot, bulk>>
    BY DEF TransmitEmpty, Transmitting, Sendable
  <1>2. bulk = NoBulk /\ bulk' = NoBulk
    BY <1>1, RunsAlone
  <1>3. /\ d \in DatagramType /\ d.id <= Len(accepted)
        /\ InOrder(Append(txDone, d.id), Rest(tx, Size(d)))
        /\ InOrder(txDone, Rest(tx, Size(d)))
        /\ Datagrams(tx) \subseteq {d.id} \cup Datagrams(Rest(tx, Size(d)))
    BY <1>1, NextOut
  <1>4. ids \in Seq(Nat)
    BY TxLine
  <1>5. txDone = ids
    <2>1. Staged = <<>>
      BY <1>2 DEF Staged, NoBulk
    <2>. QED
      BY <1>4, <2>1, ConcatEmptySeq DEF txDone
  <1>6. ids = Ids(txOut)
    OBVIOUS
  <1>. HIDE DEF d, ids
  <1>7. tx' = Rest(tx, Size(d))
    BY <1>1, HeaderAssumption DEF Size
  <1>8. Payload(d) = <<>>
    <2>1. Payload(d) \in Seq(CellType) /\ Len(Payload(d)) = 0
      BY <1>1, <1>3, FrameCells
    <2>. QED
      BY <2>1, EmptySeq
  <1>9. d.id \in Nat
    BY <1>3 DEF DatagramType
  <1>10. Append(ids, d.id) = ids \o <<d.id>>
    BY <1>4, <1>9, AppendIsConcat
  <1>11. InSeq(txDone) \cup Datagrams(tx) \subseteq InSeq(ids) \cup {d.id} \cup Datagrams(tx')
    BY <1>3, <1>5, <1>7
  <1>12. InOrder(ids \o <<d.id>>, tx') /\ InOrder(ids, tx') /\ Send(d, Payload(d))
    BY <1>1, <1>3, <1>5, <1>7, <1>8, <1>10
  <1>. QED
    BY <1>1, <1>2, <1>3, <1>4, <1>6, <1>11, <1>12, SendTaken

(* The payload of the next datagram is taken out of the ring.              *)
LEMMA SendTransmitStart ==
    ASSUME OutFits, RxInv, Numbered, TxFramed, SendOk, TransmitStart
    PROVE  SendOk'
  <1>. DEFINE d == Outgoing
              n == Size(d)
              data == Front(Rest(tx, Hdr), d.len)
  <1>1. /\ pc = "tx" /\ txFrames > 0 /\ dst' = d
        /\ UNCHANGED <<accepted, peerGot, wire, chipTx, goneOut>>
    BY DEF TransmitStart, Transmitting, Sendable, SetDst, outVars
  <1>2. bulk = NoBulk
    BY <1>1, RunsAlone
  <1>3. /\ d \in DatagramType /\ d.id <= Len(accepted) /\ n \in 1..Len(tx)
        /\ \A j \in 1..n : tx[j] = Cell(d, j)
        /\ d.len \in OutLens
        /\ InOrder(Append(txDone, d.id), Rest(tx, n))
        /\ Datagrams(tx) \subseteq {d.id} \cup Datagrams(Rest(tx, n))
    BY <1>1, NextOut
  <1>4. d.len <= Scratch
    BY <1>3 DEF OutFits
  <1>5. /\ bulk' = [kind |-> "Transmit", d |-> d, data |-> data, pointer |-> 0]
        /\ tx' = Rest(tx, n)
    BY <1>4 DEF TransmitStart
  <1>. HIDE DEF d
  <1>6. data = Payload(d)
    <2>. DEFINE r == Rest(tx, Hdr)
                l == d.len
                p == Payload(d)
    <2>1. /\ Hdr \in Nat /\ l \in Nat /\ n = Hdr + l
          /\ p \in Seq(CellType) /\ Len(p) = l /\ tx \in Seq(CellType) /\ Len(tx) \in Nat
      BY <1>3, FrameCells, TxLine, LenProperties DEF Size
    <2>2. Hdr <= Len(tx) /\ Hdr + l <= Len(tx)
      BY <1>3, <2>1
    <2>3. /\ r \in Seq(CellType) /\ Len(r) = Len(tx) - Hdr
          /\ \A i \in 1..Len(r) : r[i] = tx[Hdr + i]
      BY <2>1, <2>2, RestCells
    <2>4. \A i \in 1..l : p[i] = Cell(d, Hdr + i)
      BY <2>1 DEF Payload
    <2>. HIDE DEF r, p
    <2>5. l <= Len(r) /\ Len(r) \in Nat
      BY <2>1, <2>2, <2>3
    <2>. HIDE DEF l
    <2>6. /\ Front(r, l) \in Seq(CellType) /\ Len(Front(r, l)) = l
          /\ \A i \in 1..Len(Front(r, l)) : Front(r, l)[i] = r[i]
      <3>1. r \in Seq(CellType) /\ l \in Nat /\ l <= Len(r)
        BY <2>1, <2>3, <2>5
      <3>. QED
        BY ONLY <3>1, FrontCells
    <2>7. ASSUME NEW i \in 1..l PROVE Front(r, l)[i] = p[i]
      <3>1. i \in 1..Len(r) /\ Hdr + i \in 1..n
        BY <2>1, <2>5
      <3>2. r[i] = Cell(d, Hdr + i)
        BY <1>3, <2>3, <3>1
      <3>. QED
        BY <2>4, <2>6, <3>2
    <2>8. Front(r, l) = p
      BY <2>1, <2>6, <2>7, SeqEqual
    <2>. QED
      BY <2>8 DEF r, l, p
  <1>. HIDE DEF data, n
  <1>7. txDone' = Append(txDone, d.id) /\ InSeq(txDone') = InSeq(txDone) \cup {d.id}
    <2>1. Staged = <<>> /\ Staged' = <<d.id>> /\ txOut' = txOut
      BY <1>1, <1>2, <1>5 DEF Staged, NoBulk, txOut
    <2>2. Ids(txOut) \in Seq(Nat) /\ txDone \in Seq(Nat) /\ d.id \in Nat
      BY <1>3, TxLine DEF DatagramType
    <2>3. txDone = Ids(txOut)
      BY <2>1, <2>2, ConcatEmptySeq DEF txDone
    <2>4. txDone' = txDone \o <<d.id>>
      BY <2>1, <2>3 DEF txDone
    <2>5. Append(txDone, d.id) = txDone \o <<d.id>>
      BY <2>2, AppendIsConcat
    <2>6. InSeq(Append(txDone, d.id)) = InSeq(txDone) \cup {d.id}
      BY <2>2, SentGrows
    <2>. QED
      BY <2>4, <2>5, <2>6
  <1>8. InOrder(txDone', tx')
    BY <1>3, <1>5, <1>7
  <1>9. 1..Len(accepted') \subseteq txAll'
    BY <1>1, <1>3, <1>5, <1>7 DEF SendOk, txAll
  <1>10. txOut' = txOut /\ chipTx' = <<>>
    BY <1>1 DEF SendOk, txOut
  <1>11. \A k \in 1..Len(txOut') : Genuine(txOut'[k])
    BY <1>10 DEF SendOk
  <1>12. bulk'.d = dst' /\ dst'.id <= Len(accepted') /\ bulk'.data = Payload(dst')
    BY <1>1, <1>3, <1>5, <1>6
  <1>. QED
    BY <1>1, <1>8, <1>9, <1>10, <1>11, <1>12 DEF SendOk, Genuine

(* A transfer to the chip has ended.                                       *)
LEMMA SendDmaSent ==
    ASSUME RxInv, SendOk, DmaSent(TRUE)
    PROVE  SendOk'
  <1>. DEFINE d == dst
              ids == Ids(txOut)
  <1>1. /\ bulk.kind = "Transmit" /\ Send(d, bulk.data) /\ bulk' = NoBulk
        /\ UNCHANGED <<tx, accepted, peerGot>>
    BY DEF DmaSent, Completing, txVars
  <1>2. /\ bulk.d = d /\ d.id <= Len(accepted) /\ Send(d, Payload(d)) /\ InOrder(txDone, tx)
    BY <1>1 DEF SendOk
  <1>3. d \in DatagramType /\ d.id \in Nat
    BY RxInvParts DEF TxType, DatagramType
  <1>4. ids \in Seq(Nat)
    BY TxLine
  <1>5. txDone = ids \o <<d.id>>
    BY <1>1, <1>2 DEF txDone, Staged
  <1>6. ids = Ids(txOut)
    OBVIOUS
  <1>. HIDE DEF d, ids
  <1>. DEFINE e == <<d.id>>
  <1>7. e \in Seq(Nat) /\ <<>> \in Seq(Nat) /\ InSeq(e) = {d.id}
    BY <1>3 DEF InSeq
  <1>8. txDone = ids \o e
    BY <1>5
  <1>. HIDE DEF e
  <1>9. InOrder(ids, tx)
    <2>1. e \o <<>> = e /\ ids \o <<>> = ids
      BY <1>4, <1>7, ConcatEmptySeq
    <2>2. ids \in Seq(Nat) /\ e \in Seq(Nat) /\ <<>> \in Seq(Nat) /\ InOrder(ids \o (e \o <<>>), tx)
      BY <1>2, <1>4, <1>7, <1>8, <2>1
    <2>3. InOrder(ids \o <<>>, tx)
      BY ONLY <2>2, OrderForget
    <2>. QED
      BY <2>1, <2>3
  <1>10. InSeq(txDone) = InSeq(ids) \cup {d.id}
    <2>1. ids \in Seq(Nat) /\ e \in Seq(Nat)
      BY <1>4, <1>7
    <2>2. InSeq(ids \o e) = InSeq(ids) \cup InSeq(e)
      BY ONLY <2>1, InSeqConcat
    <2>. QED
      BY <1>7, <1>8, <2>2
  <1>11. /\ InOrder(ids \o <<d.id>>, tx') /\ InOrder(ids, tx')
         /\ InSeq(txDone) \cup Datagrams(tx) \subseteq InSeq(ids) \cup {d.id} \cup Datagrams(tx')
    BY <1>1, <1>2, <1>5, <1>9, <1>10
  <1>. QED
    BY <1>1, <1>2, <1>3, <1>4, <1>6, <1>11, SendTaken

(* The chip's buffers, or the rings, are emptied.                          *)
LEMMA SendWiped ==
    ASSUME RxInv, SendOk, Wiped
    PROVE  SendOk'
  <1>. DEFINE n == Len(wire)
  <1>1. /\ wire' = <<>> /\ chipTx' = <<>> /\ goneOut' = goneOut \cup {wire[k].d.id : k \in 1..n}
        /\ UNCHANGED <<tx, accepted, peerGot, bulk, dst>>
    BY DEF Wiped, WipeBuffers, txVars
  <1>2. wire \in Seq(MessageType) /\ n \in Nat
    BY TxLine, LenProperties
  <1>3. n \in 0..Len(wire) /\ Rest(wire, n) = <<>>
    BY <1>2, RestCells
  <1>. HIDE DEF n
  <1>. QED
    BY <1>1, <1>3, SendForget

LEMMA SendEmptied ==
    ASSUME RxInv, SendOk, Emptied
    PROVE  SendOk'
  <1>1. /\ tx' = <<>> /\ goneOut' = goneOut \cup Datagrams(tx)
        /\ UNCHANGED <<accepted, peerGot, bulk, dst, chipTx, wire>>
    BY DEF Emptied, EmptyRings, chipTxVars
  <1>2. UNCHANGED txOut /\ UNCHANGED Staged
    BY <1>1 DEF txOut, Staged
  <1>3. UNCHANGED txDone
    BY <1>2 DEF txDone
  <1>4. InOrder(txDone', tx')
    <2>. DEFINE n == Len(tx)
    <2>1. tx \in Seq(CellType) /\ n \in Nat /\ InOrder(txDone, tx)
      BY TxLine, LenProperties DEF SendOk
    <2>2. n \in 0..Len(tx) /\ Rest(tx, n) = <<>>
      BY <2>1, RestCells
    <2>. HIDE DEF n
    <2>3. InOrder(txDone, Rest(tx, n))
      BY <2>1, <2>2, OrderRest
    <2>. QED
      BY <1>1, <1>3, <2>2, <2>3
  <1>5. txAll \subseteq txAll'
    BY <1>1, <1>3 DEF txAll
  <1>. QED
    BY <1>1, <1>2, <1>4, <1>5 DEF SendOk, Genuine

(* A datagram leaves the chip's TX buffer, or is given up.                 *)
LEMMA SendChipSends ==
    ASSUME RxInv, SendOk, NEW answered \in BOOLEAN, ChipSends(answered)
    PROVE  SendOk'
  <1>1. /\ wire # <<>> /\ wire' = Tail(wire)
        /\ UNCHANGED <<tx, accepted, bulk, dst, chipTx>>
    BY DEF ChipSends, txVars
  <1>2. CASE answered
    <2>1. peerGot' = Append(peerGot, Head(wire)) /\ goneOut' = goneOut
      BY <1>2 DEF ChipSends
    <2>2. txOut' = txOut
      BY <1>1, <2>1, SendAnswered
    <2>. QED
      BY <1>1, <2>1, <2>2, SendIdle
  <1>3. CASE ~answered
    <2>1. peerGot' = peerGot /\ goneOut' = goneOut \cup {Head(wire).d.id}
      BY <1>3 DEF ChipSends
    <2>2. wire \in Seq(MessageType)
      BY TxLine
    <2>3. Len(wire) \in Nat /\ Len(wire) # 0
      BY <1>1, <2>2, LenProperties, EmptySeq
    <2>4. 1 \in 0..Len(wire)
      BY <2>3
    <2>5. Tail(wire) = Rest(wire, 1) /\ Head(wire) = wire[1]
      BY <1>1, <2>2, <2>3 DEF Rest
    <2>6. {wire[k].d.id : k \in 1..1} = {Head(wire).d.id}
      BY <2>5
    <2>7. chipTx' = <<>>
      BY <1>1 DEF SendOk
    <2>. QED
      BY <1>1, <2>1, <2>4, <2>5, <2>6, <2>7, SendForget
  <1>. QED
    BY <1>2, <1>3

(* Every step of a bus without faults keeps the datagrams on their way.    *)
LEMMA SendOkStep ==
    ASSUME OutFits, RxInv, Numbered, TxFramed, SendOk, [Next]_vars, faults' = 0
    PROVE  SendOk'
  <1>0. faults \in Nat
    BY RxInvParts, LimitsAssumption DEF ControlPart, ControlType
  <1>1. CASE TxIdle
    <2>1. UNCHANGED txOut
      BY <1>1 DEF TxIdle, txView, txOut
    <2>. QED
      BY <1>1, <2>1, SendIdle DEF TxIdle, txView
  <1>2. ASSUME NEW staged \in BOOLEAN, TransmitFails(staged) PROVE FALSE
    <2>1. faults' = faults + 1
      BY <1>2 DEF TransmitFails
    <2>. QED
      BY <1>0, <2>1
  <1>3. ASSUME NEW ok \in BOOLEAN, DmaSent(ok) PROVE SendOk'
    <2>1. ~ok => faults' = faults + 1
      BY <1>3 DEF DmaSent, Completing
    <2>2. ok = TRUE
      BY <1>0, <2>1
    <2>. QED
      BY <1>3, <2>2, SendDmaSent
  <1>. QED
    BY <1>1, <1>2, <1>3, SendWiped, SendEmptied, SendChipSends, SendSendBegin, SendSendPayload,
       SendSendCommit, SendTransmitEmpty, SendTransmitStart, TxCases

-----------------------------------------------------------------------------
(* The invariant of both ways.                                             *)

LEMMA TxInvStep ==
    ASSUME OutFits, RxInv, TxInv, [Next]_vars
    PROVE  TxInv'
  <1>1. TxSound /\ Sending /\ TxConserved
    BY DEF TxInv
  <1>2. TxSound'
    BY <1>1, TxSoundStep
  <1>3. ASSUME faults' = 0 PROVE SendOk'
    <2>1. faults = 0
      BY <1>3, FaultsGrow
    <2>2. Numbered /\ TxFramed /\ SendOk
      BY <1>1, <2>1, TxSoundIs, SendOkIs DEF Clean
    <2>. QED
      BY <1>3, <2>2, SendOkStep
  <1>4. Sending'
    BY <1>3 DEF Sending, SendOk, Genuine, txOut
  <1>5. TxConserved'
    BY <1>3 DEF TxConserved, SendOk, Genuine, txAll, txDone, txOut
  <1>. QED
    BY <1>2, <1>4, <1>5 DEF TxInv

LEMMA TxInit == Init => TxInv
  <1>. SUFFICES ASSUME Init PROVE TxInv
    OBVIOUS
  <1>. DEFINE none == <<>>
  <1>1. /\ tx = none /\ accepted = none /\ peerGot = none /\ wire = none /\ chipTx = none
        /\ txFrames = 0 /\ call = NoCall /\ bulk = NoBulk /\ goneOut = {}
    BY DEF Init
  <1>2. none \in Seq(CellType) /\ none \in Seq(MessageType) /\ Len(none) = 0
    BY NoneTypes
  <1>. HIDE DEF none
  <1>3. none \o none = none /\ none = <<>>
    BY NoneTypes, ConcatEmptySeq DEF none
  <1>4. TxSound
    <2>1. Writing = none
      BY <1>1 DEF Writing, NoCall, none
    <2>2. Rest(none, 0) = none /\ Front(none, 0) = none
      <3>1. none \in Seq(CellType) /\ 0 \in Nat /\ 0 >= Len(none)
        BY <1>2
      <3>2. Rest(none, 0) = <<>>
        BY ONLY <3>1, RestCells
      <3>3. Front(none, 0) = none
        BY ONLY <3>1, FrontCells
      <3>. QED
        BY <1>3, <3>2, <3>3
    <2>3. TxFramed
      BY <1>1, <1>2, <1>3, <2>1, <2>2, WholeNone DEF TxFramed
    <2>. QED
      BY <1>1, <1>2, <2>3 DEF TxSound
  <1>5. SendOk
    <2>1. txOut = none
      BY <1>1, <1>3 DEF txOut
    <2>2. Ids(none) = none
      <3>1. Ids(none) \in Seq(Nat) /\ Len(Ids(none)) = 0
        BY <1>2, IdsType
      <3>. QED
        BY <1>3, <3>1, EmptySeq
    <2>3. txDone = none
      BY <1>1, <1>3, <2>1, <2>2 DEF txDone, Staged, NoBulk, none
    <2>4. InOrder(none, none)
      BY <1>2 DEF InOrder, Starts
    <2>5. 1..Len(accepted) \subseteq txAll
      BY <1>1, <1>2
    <2>. QED
      BY <1>1, <1>2, <1>3, <2>1, <2>3, <2>4, <2>5 DEF SendOk, NoBulk
  <1>. QED
    BY <1>4, <1>5, SendOkIs DEF TxInv

(* Status, commands, transfer, calls, both rings and the chip's buffers    *)
(* agree at every step of the handlers and of the application, if every    *)
(* payload given to send_to fits the scratch buffers.                      *)
THEOREM UdpInvariance ==
    ASSUME OutFits
    PROVE  Spec => []UdpInv
  <1>1. Init => UdpInv
    BY RxInit, RxConservedInit, TxInit DEF UdpInv
  <1>2. UdpInv /\ [Next]_vars => UdpInv'
    BY RxInvStep, RxConservedStep, TxInvStep DEF UdpInv
  <1>. QED
    BY <1>1, <1>2, PTL DEF Spec

(* If besides the bus does not fail under transmit, the tx ring holds the  *)
(* frames that are counted, whole, and behind them at most what a send_to  *)
(* in progress has written: the handler never finds a torn datagram.       *)
THEOREM TxFramedInvariance ==
    ASSUME OutFits, "transmit" \notin Faults
    PROVE  Spec => []TxFramed
  <1>1. UdpInv => TxFramed
    BY DEF UdpInv, TxInv, TxSound
  <1>. QED
    BY <1>1, UdpInvariance, PTL

(* On a bus without faults every datagram send_to accepted is sent in      *)
(* order and once, with its own payload and to its own destination, and    *)
(* none is lost in the driver.                                             *)
THEOREM TxConservedInvariance ==
    ASSUME OutFits
    PROVE  Spec => []TxConserved
  <1>1. UdpInv => TxConserved
    BY DEF UdpInv, TxInv
  <1>. QED
    BY <1>1, UdpInvariance, PTL

=============================================================================
