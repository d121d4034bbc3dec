------------------------------ MODULE SerialProofs ------------------------------
(***************************************************************************)
(* The ring buffer between the receive interrupt and serial_rx_thread      *)
(* keeps the order of the bytes and its count without a lock, the headroom *)
(* makes every byte find a place, and the transmit ring is never           *)
(* forgotten, for every size of the rings, the FIFOs and the margins that  *)
(* satisfies MarginAssumption.                                             *)
(***************************************************************************)
EXTENDS Serial, SequenceTheorems, TLAPS

Hand == IF task \in {"count", "room", "open", "deliver"} THEN <<char>> ELSE <<>>

\* All that has been received and not been replaced by a younger byte, oldest first.
Line(g, h, b, hd, tl, f) ==
  <<g>> \o h \o [i \in 1..((hd - tl) % RxSize) |-> b[(tl + i - 1) % RxSize]] \o f

RxLine == Line(got, Hand, buf, head, tail, rxFifo)
TxLine == <<sent>> \o txFifo \o xmit

UpTo(s, m) == \A i \in DOMAIN s : s[i] <= m
RxOrder == Rising(RxLine) /\ UpTo(RxLine, came)
TxOrder == Rising(TxLine) /\ UpTo(TxLine, wrote)

RxTypes ==
  /\ rxLeft \in Nat /\ came \in Nat /\ rxFifo \in Seq(Nat) /\ sneaked \in 0..Slack
  /\ open \in BOOLEAN
  /\ buf \in [RxSlots -> Nat] /\ head \in RxSlots /\ tail \in RxSlots /\ cnt \in RxSlots
  /\ ind \in BOOLEAN /\ task \in TaskPc /\ char \in Nat /\ got \in Nat
  /\ lost \in BOOLEAN /\ stale \in BOOLEAN
TxTypes ==
  /\ txLeft \in Nat /\ xmit \in Seq(Nat) /\ txFifo \in Seq(Nat)
  /\ wrote \in Nat /\ sent \in Nat
  /\ txi \in BOOLEAN /\ isr \in -1..MaxWrite /\ slip \in 0..MaxSlip

CountExact == cnt = ((head - tail) % RxSize) + (IF task = "count" THEN 1 ELSE 0)

\* The FIFO never holds more than what the UART lets in.
Quota == Len(rxFifo) <= Watermark + sneaked

\* Unless a throttle was undone, room is left for what may still come.
Roomy ==
  /\ lost => stale
  /\ ~stale =>
       /\ open => cnt < RxSize - Headroom
       /\ ~open => cnt + Len(rxFifo) + (Slack - sneaked) <= RxSize - 1

\* What the interrupt has written is in the FIFO, but for what slipped out.
Written == isr >= 0 => Len(txFifo) + slip >= isr

RxInv == RxTypes /\ CountExact /\ Quota /\ Roomy /\ RxOrder
TxInv == TxTypes /\ TxGoesOn /\ Written /\ TxOrder
IInv == RxInv /\ TxInv

-----------------------------------------------------------------------------
(* Remainders of sums of two positions in a ring. *)
LEMMA ModDiff ==
  ASSUME NEW N \in Nat \ {0}, NEW a \in 0..(N - 1), NEW b \in 0..(N - 1)
  PROVE  (a - b) % N = IF a >= b THEN a - b ELSE a - b + N
<1>1. CASE a >= b BY <1>1
<1>2. CASE a < b BY <1>2
<1> QED BY <1>1, <1>2

(* The remainder of a sum. *)
LEMMA ModSum ==
  ASSUME NEW N \in Nat \ {0}, NEW a \in 0..(N - 1), NEW k \in 0..N
  PROVE  (a + k) % N = IF a + k < N THEN a + k ELSE a + k - N
  OBVIOUS

(* The remainder of the next number. *)
LEMMA ModNext ==
  ASSUME NEW N \in Nat \ {0}, NEW a \in 0..(N - 1)
  PROVE  (a + 1) % N = IF a = N - 1 THEN 0 ELSE a + 1
  OBVIOUS

(* The distance from head of the i-th place behind tail. *)
LEMMA Place ==
  ASSUME NEW N \in Nat \ {0}, NEW hd \in 0..(N - 1), NEW tl \in 0..(N - 1), NEW i \in 1..N
  PROVE  /\ (tl + i - 1) % N \in 0..(N - 1)
         /\ i > (hd - tl) % N
              => (((tl + i - 1) % N) - hd) % N = i - 1 - ((hd - tl) % N)
         /\ i <= (hd - tl) % N
              => (((tl + i - 1) % N) - hd) % N = i - 1 - ((hd - tl) % N) + N
<1> DEFINE n == (hd - tl) % N
           p == (tl + (i - 1)) % N
<1>1. n = IF hd >= tl THEN hd - tl ELSE hd - tl + N BY ModDiff
<1>2. i - 1 \in 0..N OBVIOUS
<1>3. p = IF tl + (i - 1) < N THEN tl + (i - 1) ELSE tl + (i - 1) - N BY <1>2, ModSum
<1>4. p \in 0..(N - 1) /\ n \in 0..(N - 1) BY <1>1, <1>3
<1>5. (p - hd) % N = IF p >= hd THEN p - hd ELSE p - hd + N BY <1>4, ModDiff
<1>6. tl + i - 1 = tl + (i - 1) OBVIOUS
<1> HIDE DEF n, p
<1>7. /\ i > n => (p - hd) % N = i - 1 - n
      /\ i <= n => (p - hd) % N = i - 1 - n + N
  BY <1>1, <1>3, <1>5
<1> QED BY <1>4, <1>6, <1>7 DEF n, p

(* n places written from head on are behind those that were held. *)
LEMMA RingGrows ==
  ASSUME NEW N \in Nat \ {0}, NEW hd \in 0..(N - 1), NEW tl \in 0..(N - 1),
         NEW k \in Nat, ((hd - tl) % N) + k <= N - 1
  PROVE  /\ (hd + k) % N \in 0..(N - 1)
         /\ (((hd + k) % N) - tl) % N = ((hd - tl) % N) + k
<1> DEFINE n == (hd - tl) % N
           h == (hd + k) % N
<1>1. n = IF hd >= tl THEN hd - tl ELSE hd - tl + N BY ModDiff
<1>2. k \in 0..N BY <1>1
<1>3. h = IF hd + k < N THEN hd + k ELSE hd + k - N BY <1>2, ModSum
<1>4. h \in 0..(N - 1) BY <1>2, <1>3
<1>5. (h - tl) % N = IF h >= tl THEN h - tl ELSE h - tl + N BY <1>4, ModDiff
<1>6. n + k <= N - 1 OBVIOUS
<1> HIDE DEF n, h
<1>7. (h - tl) % N = n + k BY <1>1, <1>3, <1>5, <1>6
<1> QED BY <1>4, <1>7 DEF n, h

(* Taking the oldest byte of a ring that is not empty. *)
LEMMA RingShrinks ==
  ASSUME NEW N \in Nat \ {0}, NEW hd \in 0..(N - 1), NEW tl \in 0..(N - 1), hd # tl
  PROVE  /\ (tl + 1) % N \in 0..(N - 1)
         /\ (hd - tl) % N >= 1
         /\ (hd - ((tl + 1) % N)) % N = ((hd - tl) % N) - 1
<1> DEFINE n == (hd - tl) % N
           t == (tl + 1) % N
<1>0. N >= 2 OBVIOUS
<1>1. n = IF hd >= tl THEN hd - tl ELSE hd - tl + N BY ModDiff
<1>2. t = IF tl = N - 1 THEN 0 ELSE tl + 1 BY ModNext
<1>3. t \in 0..(N - 1) BY <1>0, <1>2
<1>4. (hd - t) % N = IF hd >= t THEN hd - t ELSE hd - t + N BY <1>3, ModDiff
<1> HIDE DEF n, t
<1>5. n >= 1 /\ (hd - t) % N = n - 1 BY <1>1, <1>2, <1>4
<1> QED BY <1>3, <1>5 DEF n, t

(* The i-th byte from the new tail is the one behind it from the old. *)
LEMMA NextPlace ==
  ASSUME NEW N \in Nat \ {0}, NEW tl \in 0..(N - 1), NEW i \in 1..(N - 1)
  PROVE  (((tl + 1) % N) + i - 1) % N = (tl + (i + 1) - 1) % N
<1>0. N >= 2 OBVIOUS
<1>1. (tl + 1) % N = IF tl = N - 1 THEN 0 ELSE tl + 1 BY ModNext
<1>2. CASE tl + 1 < N BY <1>1, <1>2
<1>3. CASE tl + 1 = N
  <2>1. (((tl + 1) % N) + i - 1) % N = (i - 1) % N BY <1>1, <1>3
  <2>2. (i - 1) % N = i - 1 OBVIOUS
  <2>3. (tl + (i + 1) - 1) % N = (tl + i) % N OBVIOUS
  <2>4. (tl + i) % N = IF tl + i < N THEN tl + i ELSE tl + i - N
    <3>1. i \in 0..N OBVIOUS
    <3> QED BY <3>1, ModSum
  <2> QED BY <1>3, <2>1, <2>2, <2>3, <2>4
<1> QED BY <1>2, <1>3

-----------------------------------------------------------------------------
(* A rising sequence stays rising when a larger number is appended, ... *)
LEMMA RisingAppend ==
  ASSUME NEW s \in Seq(Nat), NEW m \in Nat, Rising(s), UpTo(s, m)
  PROVE  Rising(Append(s, m + 1)) /\ UpTo(Append(s, m + 1), m + 1)
<1> DEFINE t == Append(s, m + 1)
<1>1. DOMAIN t = 1..(Len(s) + 1) /\ t[Len(s) + 1] = m + 1 /\ DOMAIN s = 1..Len(s) OBVIOUS
<1>2. \A i \in 1..Len(s) : t[i] = s[i] /\ s[i] \in Nat /\ s[i] <= m BY DEF UpTo
<1> HIDE DEF t
<1>3. UpTo(t, m + 1) BY <1>1, <1>2 DEF UpTo
<1>4. Rising(t) BY <1>1, <1>2 DEF Rising
<1> QED BY <1>3, <1>4 DEF t

(* ... and so does every part of it. *)
LEMMA RisingPart ==
  ASSUME NEW s \in Seq(Nat), NEW t \in Seq(Nat), NEW m \in Nat, NEW k \in Nat,
         Rising(s), UpTo(s, m),
         \A i \in 1..Len(t) : i + k <= Len(s) /\ t[i] = s[i + k]
  PROVE  Rising(t) /\ UpTo(t, m)
<1>1. DOMAIN s = 1..Len(s) /\ DOMAIN t = 1..Len(t) OBVIOUS
<1>2. \A i \in 1..Len(t) : i + k \in 1..Len(s) OBVIOUS
<1>3. UpTo(t, m) BY <1>1, <1>2 DEF UpTo
<1>4. Rising(t)
  <2> SUFFICES ASSUME NEW i \in 1..Len(t), NEW j \in 1..Len(t), i < j PROVE t[i] < t[j]
    BY <1>1 DEF Rising
  <2>1. i + k \in 1..Len(s) /\ j + k \in 1..Len(s) /\ i + k < j + k BY <1>2
  <2>2. s[i + k] < s[j + k] BY <1>1, <2>1 DEF Rising
  <2> QED BY <2>2
<1> QED BY <1>3, <1>4

(* The places of a concatenation. *)
LEMMA Concat ==
  ASSUME NEW s \in Seq(Nat), NEW t \in Seq(Nat)
  PROVE  /\ s \o t \in Seq(Nat) /\ Len(s \o t) = Len(s) + Len(t)
         /\ \A i \in 1..Len(s) : (s \o t)[i] = s[i]
         /\ \A i \in 1..Len(t) : (s \o t)[Len(s) + i] = t[i]
  OBVIOUS

(* The bytes received, place by place: l is the byte delivered last, the   *)
(* byte in the task's hand, n bytes of the ring from tl on and the FIFO.   *)
Placed(l, g, h, b, n, tl, f) ==
  /\ l \in Seq(Nat) /\ Len(l) = 1 + Len(h) + n + Len(f)
  /\ l[1] = g
  /\ \A i \in 1..Len(h) : l[1 + i] = h[i]
  /\ \A i \in 1..n : l[1 + Len(h) + i] = b[(tl + i - 1) % RxSize]
  /\ \A i \in 1..Len(f) : l[1 + Len(h) + n + i] = f[i]

(* The receive line, element by element. *)
LEMMA LineIs ==
  ASSUME NEW g \in Nat, NEW h \in Seq(Nat), NEW b \in [RxSlots -> Nat],
         NEW hd \in RxSlots, NEW tl \in RxSlots, NEW f \in Seq(Nat), RxSize \in Nat \ {0}
  PROVE  Placed(Line(g, h, b, hd, tl, f), g, h, b, (hd - tl) % RxSize, tl, f)
<1> DEFINE n == (hd - tl) % RxSize
           r == [i \in 1..n |-> b[(tl + i - 1) % RxSize]]
           gh == <<g>> \o h
           ghr == gh \o r
<1>1. n \in 0..(RxSize - 1) BY ModDiff DEF RxSlots
<1>2. \A i \in 1..n : (tl + i - 1) % RxSize \in RxSlots BY <1>1, Place DEF RxSlots
<1>3. r \in Seq(Nat) /\ Len(r) = n
  <2>1. r \in [1..n -> Nat] BY <1>2
  <2> HIDE DEF r, n
  <2> QED BY <1>1, <2>1
<1>4. \A i \in 1..n : r[i] = b[(tl + i - 1) % RxSize] OBVIOUS
<1> HIDE DEF n, r
<1>5. /\ gh \in Seq(Nat) /\ Len(gh) = 1 + Len(h) /\ gh[1] = g
      /\ \A i \in 1..Len(h) : gh[1 + i] = h[i]
  OBVIOUS
<1> HIDE DEF gh
<1>6. /\ ghr \in Seq(Nat) /\ Len(ghr) = Len(gh) + n
      /\ \A i \in 1..Len(gh) : ghr[i] = gh[i]
      /\ \A i \in 1..n : ghr[Len(gh) + i] = r[i]
  BY <1>3, <1>5, Concat
<1> HIDE DEF ghr
<1>7. /\ ghr \o f \in Seq(Nat) /\ Len(ghr \o f) = Len(ghr) + Len(f)
      /\ \A i \in 1..Len(ghr) : (ghr \o f)[i] = ghr[i]
      /\ \A i \in 1..Len(f) : (ghr \o f)[Len(ghr) + i] = f[i]
  BY <1>6, Concat
<1>8. Line(g, h, b, hd, tl, f) = ghr \o f BY DEF Line, n, r, gh, ghr
<1>9. Len(gh) \in Nat /\ Len(h) \in Nat /\ Len(f) \in Nat BY <1>5
<1> DEFINE l == Line(g, h, b, hd, tl, f)
<1>10. l \in Seq(Nat) /\ Len(l) = 1 + Len(h) + n + Len(f) BY <1>5, <1>6, <1>7, <1>8
<1>11. l[1] = g BY <1>1, <1>5, <1>6, <1>7, <1>8, <1>9
<1>12. ASSUME NEW i \in 1..Len(h) PROVE l[1 + i] = h[i]
  <2>1. 1 + i \in 1..Len(gh) /\ 1 + i \in 1..Len(ghr) BY <1>1, <1>5, <1>6, <1>9
  <2> QED BY <2>1, <1>5, <1>6, <1>7, <1>8
<1>13. ASSUME NEW i \in 1..n PROVE l[1 + Len(h) + i] = b[(tl + i - 1) % RxSize]
  <2>1. Len(gh) + i \in 1..Len(ghr) BY <1>1, <1>5, <1>6, <1>9
  <2>2. l[Len(gh) + i] = r[i] BY <2>1, <1>6, <1>7, <1>8
  <2> QED BY <2>2, <1>4, <1>5
<1>14. \A i \in 1..Len(f) : l[1 + Len(h) + n + i] = f[i] BY <1>1, <1>5, <1>6, <1>7, <1>8, <1>9
<1> QED BY <1>10, <1>11, <1>12, <1>13, <1>14 DEF n, Placed

-----------------------------------------------------------------------------
(* Receiving *)

Held == (head - tail) % RxSize

(* What the byte's places are in a state of the right types. *)
LEMMA RxLineIs ==
  ASSUME RxTypes
  PROVE  /\ Placed(RxLine, got, Hand, buf, Held, tail, rxFifo)
         /\ Held \in 0..(RxSize - 1) /\ Hand \in Seq(Nat) /\ Len(rxFifo) \in Nat
<1> USE SerialAssumption, MarginAssumption
<1>1. Hand \in Seq(Nat) BY DEF Hand, RxTypes
<1>2. RxSize \in Nat \ {0} OBVIOUS
<1>3. Held \in 0..(RxSize - 1) BY <1>2, ModDiff DEF Held, RxTypes, RxSlots
<1>4. got \in Nat /\ buf \in [RxSlots -> Nat] /\ head \in RxSlots /\ tail \in RxSlots
      /\ rxFifo \in Seq(Nat) /\ Len(rxFifo) \in Nat
  BY DEF RxTypes
<1>5. Placed(Line(got, Hand, buf, head, tail, rxFifo), got, Hand, buf,
             (head - tail) % RxSize, tail, rxFifo)
  BY <1>1, <1>2, <1>4, LineIs
<1> QED BY <1>1, <1>3, <1>4, <1>5 DEF RxLine, Held

(* Appending to the last part of a line is appending to the line. *)
LEMMA AppendLast ==
  ASSUME NEW a \in Seq(Nat), NEW b \in Seq(Nat), NEW x \in Nat
  PROVE  a \o Append(b, x) = Append(a \o b, x)
  OBVIOUS

(* A byte comes in behind all the others. *)
LEMMA RxArriveStep ==
  ASSUME RxInv, RxArrive
  PROVE  RxInv'
<1> USE SerialAssumption, MarginAssumption DEF RxInv, RxArrive, rxRing
<1>0. RxTypes' BY DEF RxTypes, tx
<1>1. /\ Len(rxFifo) \in Nat /\ Len(rxFifo') = Len(rxFifo) + 1
      /\ cnt \in 0..(RxSize - 1)
  BY DEF RxTypes, RxSlots
<1>2. CountExact' BY DEF CountExact
<1>3. Quota'
  <2>1. CASE MaySend BY <2>1, <1>1 DEF Quota, MaySend, RxTypes
  <2>2. CASE ~MaySend BY <2>2, <1>1 DEF Quota, RxTypes
  <2> QED BY <2>1, <2>2
<1>4. Roomy' BY <1>1 DEF Roomy, MaySend, RxTypes
<1>5. RxOrder'
  <2> DEFINE f == rxFifo
             a == <<got>> \o Hand \o [i \in 1..((head - tail) % RxSize) |-> buf[(tail + i - 1) % RxSize]]
  <2>1. RxLine = a \o rxFifo BY DEF RxLine, Line
  <2>2. Hand' = Hand BY DEF Hand
  <2>3. RxLine' = a \o Append(rxFifo, came + 1) BY <2>2 DEF RxLine, Line
  <2>4. a \in Seq(Nat)
    <3>1. RxSize \in Nat \ {0} /\ <<>> \in Seq(Nat) OBVIOUS
    <3>2. Hand \in Seq(Nat) BY RxLineIs
    <3>4. [i \in 1..((head - tail) % RxSize) |-> buf[(tail + i - 1) % RxSize]] \in Seq(Nat)
      <4> DEFINE n == (head - tail) % RxSize
      <4>1. n \in Nat /\ n \in 0..(RxSize - 1) BY RxLineIs DEF Held
      <4>2. \A i \in 1..n : (tail + i - 1) % RxSize \in RxSlots
        BY <3>1, <4>1, Place DEF RxTypes, RxSlots
      <4>3. [i \in 1..n |-> buf[(tail + i - 1) % RxSize]] \in [1..n -> Nat]
        BY <4>2 DEF RxTypes
      <4> HIDE DEF n
      <4>4. [i \in 1..n |-> buf[(tail + i - 1) % RxSize]] \in Seq(Nat) BY <4>1, <4>3
      <4> QED BY <4>4 DEF n
    <3> HIDE DEF RxInv
    <3> QED BY <3>2, <3>4 DEF RxTypes, RxInv
  <2>5. RxLine' = Append(RxLine, came + 1)
    <3>1. rxFifo \in Seq(Nat) /\ came + 1 \in Nat BY DEF RxTypes
    <3> HIDE DEF a, RxInv, RxArrive
    <3>2. a \o Append(rxFifo, came + 1) = Append(a \o rxFifo, came + 1)
      BY <2>4, <3>1, AppendLast, Zenon
    <3> QED BY <2>1, <2>3, <3>2, Zenon
  <2>6. RxLine \in Seq(Nat) BY RxLineIs DEF Placed
  <2> QED BY <2>5, <2>6, RisingAppend DEF RxOrder, RxTypes
<1> QED BY <1>0, <1>2, <1>3, <1>4, <1>5

(* How much of the FIFO fits. *)
LEMMA FitsBound ==
  ASSUME RxTypes
  PROVE  /\ Fits \in 0..Len(rxFifo) /\ cnt + Fits \in 0..(RxSize - 1)
         /\ Fits < Len(rxFifo) => cnt + Len(rxFifo) > RxSize - 1
  BY SerialAssumption DEF RxTypes, RxSlots, Fits

(* The interrupt empties the FIFO into the ring: every byte keeps its      *)
(* place in the line, those that do not fit are its end.                   *)
LEMMA RxIsrStep ==
  ASSUME RxInv, RxIsr
  PROVE  RxInv'
<1> USE SerialAssumption, MarginAssumption DEF RxInv, RxIsr
<1>1. /\ Len(rxFifo) \in Nat /\ Len(rxFifo') = 0 /\ cnt \in 0..(RxSize - 1)
      /\ head \in 0..(RxSize - 1) /\ tail \in 0..(RxSize - 1) /\ RxSize \in Nat \ {0}
  <2>1. /\ cnt \in 0..(RxSize - 1) /\ head \in 0..(RxSize - 1) /\ tail \in 0..(RxSize - 1)
        /\ rxFifo \in Seq(Nat)
    BY DEF RxTypes, RxSlots
  <2>2. rxFifo' = <<>> OBVIOUS
  <2> HIDE DEF RxInv, RxIsr
  <2> QED BY <2>1, <2>2
<1>2. /\ Fits \in 0..Len(rxFifo) /\ cnt + Fits \in 0..(RxSize - 1)
      /\ Fits < Len(rxFifo) => cnt + Len(rxFifo) > RxSize - 1
  <2>1. RxTypes OBVIOUS
  <2> HIDE DEF RxInv, RxIsr
  <2> QED BY <2>1, FitsBound, Zenon
<1>3. Held \in 0..(RxSize - 1) /\ Held <= cnt BY <1>1, RxLineIs DEF CountExact, Held
<1>4. Held + Fits <= RxSize - 1 /\ Fits \in Nat BY <1>1, <1>2, <1>3
<1>5. head' \in 0..(RxSize - 1) /\ Held' = Held + Fits
  <2>1. head' = (head + Fits) % RxSize /\ tail' = tail OBVIOUS
  <2> HIDE DEF RxInv, RxIsr
  <2> QED BY <2>1, <1>1, <1>4, RingGrows DEF Held
<1>6. buf' \in [RxSlots -> Nat]
  <2> SUFFICES ASSUME NEW i \in RxSlots
               PROVE  LET k == ((i - head) % RxSize) + 1
                      IN (IF k <= Fits THEN rxFifo[k] ELSE buf[i]) \in Nat
    OBVIOUS
  <2> DEFINE k == ((i - head) % RxSize) + 1
  <2>1. k \in 1..RxSize BY <1>1, ModDiff DEF RxSlots
  <2> HIDE DEF k
  <2>2. k <= Fits => k \in 1..Len(rxFifo) BY <2>1, <1>2, <1>1
  <2>3. (IF k <= Fits THEN rxFifo[k] ELSE buf[i]) \in Nat BY <2>2 DEF RxTypes
  <2> QED BY <2>3 DEF k
<1>7. RxTypes' BY <1>2, <1>5, <1>6 DEF RxTypes, RxSlots, tx
<1>8. CountExact' BY <1>1, <1>3, <1>4, <1>5 DEF CountExact, Held
<1>9. Quota' BY <1>1 DEF Quota, RxTypes
<1>10. Roomy' BY <1>1, <1>2 DEF Roomy, Quota, Short, RxTypes
<1>11. RxOrder'
  <2> DEFINE h == Len(Hand)
  <2>1. Hand' = Hand /\ Hand \in Seq(Nat) /\ h \in Nat BY RxLineIs DEF Hand
  <2>2. Placed(RxLine, got, Hand, buf, Held, tail, rxFifo) BY RxLineIs
  <2>3. Placed(RxLine', got, Hand, buf', Held', tail, rxFifo')
    <3>1. /\ got' = got /\ tail' = tail /\ rxFifo' \in Seq(Nat) /\ head' \in RxSlots
          /\ got \in Nat /\ tail \in RxSlots
      BY <1>7 DEF RxTypes
    <3>2. RxLine' = Line(got, Hand, buf', head', tail, rxFifo') BY <2>1, <3>1 DEF RxLine
    <3>3. Held' = (head' - tail) % RxSize BY <3>1 DEF Held
    <3> HIDE DEF RxInv, RxIsr
    <3> QED BY <1>1, <1>6, <2>1, <3>1, <3>2, <3>3, LineIs
  <2>10. rxFifo' = <<>> /\ Len(rxFifo') = 0 OBVIOUS
  <2>4. ASSUME NEW i \in 1..Held
        PROVE  buf'[(tail + i - 1) % RxSize] = buf[(tail + i - 1) % RxSize]
    <3> DEFINE q == (tail + i - 1) % RxSize
    <3>1. i \in 1..RxSize BY <1>3
    <3>2. q \in RxSlots /\ (q - head) % RxSize = i - 1 - Held + RxSize
      <4> HIDE DEF RxInv, RxIsr
      <4>1. /\ q \in 0..(RxSize - 1)
            /\ i <= (head - tail) % RxSize
                 => (q - head) % RxSize = i - 1 - ((head - tail) % RxSize) + RxSize
        <5>1. /\ RxSize \in Nat \ {0} /\ head \in 0..(RxSize - 1) /\ tail \in 0..(RxSize - 1)
              /\ i \in 1..RxSize
          BY <1>1, <3>1
        <5> QED BY <5>1, Place, ZenonT(60)
      <4> DEFINE d == (q - head) % RxSize
      <4>2. q \in RxSlots BY <4>1 DEF RxSlots
      <4>3. i <= Held => d = i - 1 - Held + RxSize BY <4>1, Zenon DEF Held
      <4> HIDE DEF q, d
      <4>4. d = i - 1 - Held + RxSize BY <4>3, <1>3
      <4> QED BY <4>2, <4>4 DEF d
    <3> HIDE DEF q
    <3>3. ~(((q - head) % RxSize) + 1 <= Fits) BY <3>2, <1>3, <1>4, <1>1
    <3>4. buf'[q] = buf[q] BY <3>2, <3>3
    <3> QED BY <3>4 DEF q
  <2>5. ASSUME NEW i \in 1..Fits
        PROVE  buf'[(tail + (Held + i) - 1) % RxSize] = rxFifo[i]
    <3> DEFINE q == (tail + (Held + i) - 1) % RxSize
    <3>1. Held + i \in 1..RxSize /\ Held + i > Held BY <1>3, <1>4, <1>1
    <3>2. q \in RxSlots /\ (q - head) % RxSize = (Held + i) - 1 - Held
      <4> HIDE DEF RxInv, RxIsr
      <4> DEFINE j == Held + i
      <4> HIDE DEF j
      <4>1. /\ (tail + j - 1) % RxSize \in 0..(RxSize - 1)
            /\ j > (head - tail) % RxSize
                 => (((tail + j - 1) % RxSize) - head) % RxSize = j - 1 - ((head - tail) % RxSize)
        <5>1. /\ RxSize \in Nat \ {0} /\ head \in 0..(RxSize - 1) /\ tail \in 0..(RxSize - 1)
              /\ j \in 1..RxSize
          BY <1>1, <3>1 DEF j
        <5> QED BY <5>1, Place, ZenonT(60)
      <4> DEFINE d == (q - head) % RxSize
      <4>2. q \in RxSlots BY <4>1 DEF RxSlots, j
      <4>3. q = (tail + j - 1) % RxSize BY DEF j
      <4> HIDE DEF q
      <4>4. j > Held => d = j - 1 - Held BY <4>1, <4>3, Zenon DEF Held
      <4> HIDE DEF d
      <4>5. d = j - 1 - Held
        <5>1. j > Held BY <3>1, Zenon DEF j
        <5> QED BY <4>4, <5>1, Zenon
      <4>6. d = (Held + i) - 1 - Held BY <4>5, Zenon DEF j
      <4> QED BY <4>2, <4>6, Zenon DEF d
    <3> HIDE DEF q
    <3>3. ((q - head) % RxSize) + 1 = i BY <3>2, <1>3, <1>4
    <3>4. buf'[q] = rxFifo[i] BY <3>2, <3>3
    <3> QED BY <3>4 DEF q
  <2>6. \A i \in 1..Len(RxLine') : i + 0 <= Len(RxLine) /\ RxLine'[i] = RxLine[i + 0]
    <3> SUFFICES ASSUME NEW i \in 1..Len(RxLine')
                 PROVE  i <= Len(RxLine) /\ RxLine'[i] = RxLine[i]
      BY <2>3 DEF Placed
    <3> HIDE DEF RxInv, RxIsr
    <3>0. /\ Len(RxLine') = 1 + h + Held + Fits /\ RxLine'[1] = got
          /\ \A j \in 1..h : RxLine'[1 + j] = Hand[j]
          /\ \A j \in 1..(Held + Fits) : RxLine'[1 + h + j] = buf'[(tail + j - 1) % RxSize]
      <4>1. Len(RxLine') = 1 + h + (Held + Fits) + 0 BY <2>3, <2>10, <1>5 DEF Placed
      <4>2. /\ RxLine'[1] = got /\ \A j \in 1..h : RxLine'[1 + j] = Hand[j]
            /\ \A j \in 1..(Held + Fits) : RxLine'[1 + h + j] = buf'[(tail + j - 1) % RxSize]
        BY <2>3, <1>5 DEF Placed
      <4> HIDE DEF h
      <4>3. Len(RxLine') = 1 + h + Held + Fits BY <4>1, <1>3, <1>4, <2>1
      <4> QED BY <4>2, <4>3
    <3>1. i \in 1..(1 + h + Held + Fits) BY <3>0
    <3>2. i <= Len(RxLine)
      <4>1. Len(RxLine) = 1 + h + Held + Len(rxFifo) BY <2>2 DEF Placed
      <4> HIDE DEF h
      <4> QED BY <4>1, <3>1, <2>1, <1>2, <1>3, <1>1
    <3>3. CASE i = 1 BY <3>2, <3>3, <2>2, <3>0 DEF Placed
    <3>4. CASE i \in 2..(1 + h)
      <4>1. i - 1 \in 1..h /\ i = 1 + (i - 1) BY <3>4, <2>1
      <4>2. RxLine[1 + (i - 1)] = Hand[i - 1] BY <4>1, <2>2 DEF Placed
      <4> QED BY <4>1, <4>2, <3>0, <3>2
    <3>5. CASE i \in (2 + h)..(1 + h + Held)
      <4> DEFINE j == i - 1 - h
      <4>1. j \in 1..Held /\ i = 1 + h + j /\ j \in 1..(Held + Fits)
        BY <3>5, <2>1, <1>3, <1>4
      <4> HIDE DEF j
      <4>2. RxLine[1 + h + j] = buf[(tail + j - 1) % RxSize] BY <4>1, <2>2 DEF Placed
      <4> QED BY <4>1, <4>2, <3>0, <3>2, <2>4
    <3>6. CASE i \in (2 + h + Held)..(1 + h + Held + Fits)
      <4> DEFINE j == i - 1 - h - Held
      <4>1. /\ j \in 1..Fits /\ j \in 1..Len(rxFifo) /\ i = 1 + h + (Held + j)
            /\ i = 1 + h + Held + j /\ Held + j \in 1..(Held + Fits)
        BY <3>6, <2>1, <1>2, <1>3, <1>4, <1>1
      <4> HIDE DEF j
      <4>2. RxLine'[i] = buf'[(tail + (Held + j) - 1) % RxSize] BY <4>1, <3>0
      <4>3. RxLine[1 + h + Held + j] = rxFifo[j] BY <4>1, <2>2 DEF Placed
      <4> QED BY <4>1, <4>2, <4>3, <2>5, <3>2
    <3> HIDE DEF h
    <3> QED BY <3>1, <3>3, <3>4, <3>5, <3>6, <2>1, <1>3, <1>4
  <2>7. came' = came /\ came \in Nat BY DEF RxTypes
  <2> HIDE DEF RxInv, RxIsr
  <2>8. Rising(RxLine) /\ UpTo(RxLine, came) BY DEF RxInv, RxOrder
  <2>9. RxLine \in Seq(Nat) /\ RxLine' \in Seq(Nat) BY <2>2, <2>3 DEF Placed
  <2> QED BY <2>6, <2>7, <2>8, <2>9, RisingPart DEF RxOrder
<1> QED BY <1>7, <1>8, <1>9, <1>10, <1>11

(* A step that moves no byte keeps the line. *)
LEMMA SameLine ==
  ASSUME RxOrder, UNCHANGED <<came, rxFifo, buf, head, tail, got>>, Hand' = Hand
  PROVE  RxOrder'
<1>1. RxLine' = RxLine BY DEF RxLine, Line
<1>2. Rising(RxLine') /\ UpTo(RxLine', came) BY <1>1 DEF RxOrder
<1> QED BY <1>2 DEF RxOrder

(* The task wakes, finds the ring empty, looks at the room, opens. *)
LEMMA TaskStaysStep ==
  ASSUME RxInv, TaskWake \/ (TaskTest /\ tail = head) \/ TaskRoom \/ TaskOpen
  PROVE  RxInv'
<1> USE SerialAssumption, MarginAssumption
    DEF RxInv, TaskWake, TaskTest, TaskRoom, TaskOpen, rxRing
<1>0. /\ UNCHANGED <<rxLeft, came, rxFifo, sneaked, buf, head, tail, cnt, char, got, lost>>
      /\ task \in {"wait", "test", "room", "open"} /\ task' \in TaskPc /\ task # "count" /\ task' # "count"
      /\ Hand' = Hand
  BY DEF Hand, TaskPc
<1>1. RxTypes' BY <1>0 DEF RxTypes, tx
<1>2. CountExact' BY <1>0 DEF CountExact
<1>3. Quota' BY <1>0 DEF Quota
<1>4. Roomy'
  <2>1. CASE TaskOpen
    <3>1. open' = TRUE /\ stale' = (stale \/ Short(cnt)) BY <2>1
    <3>2. cnt \in 0..(RxSize - 1) /\ stale \in BOOLEAN BY DEF RxTypes, RxSlots
    <3>3. lost => stale BY DEF Roomy
    <3> HIDE DEF RxInv, TaskWake, TaskTest, TaskRoom, TaskOpen
    <3>4. (~stale' => ~Short(cnt)) /\ (lost' => stale') BY <3>1, <3>3, <1>0, Zenon
    <3>5. ~Short(cnt) => cnt < RxSize - Headroom BY <3>2 DEF Short
    <3>6. ~stale' => cnt' < RxSize - Headroom BY <3>4, <3>5, <1>0
    <3> QED BY <3>1, <3>4, <3>6 DEF Roomy
  <2>2. CASE ~TaskOpen
    <3>1. open' = open /\ stale' = stale BY <2>2
    <3> QED BY <3>1, <1>0 DEF Roomy
  <2> QED BY <2>1, <2>2
<1>5. RxOrder' BY <1>0, SameLine
<1> QED BY <1>1, <1>2, <1>3, <1>4, <1>5

(* The count follows the byte. *)
LEMMA TaskCountStep ==
  ASSUME RxInv, TaskCount
  PROVE  RxInv'
<1> USE SerialAssumption, MarginAssumption DEF RxInv, TaskCount
<1>0. Hand' = Hand BY DEF Hand
<1>1. Held \in 0..(RxSize - 1) /\ cnt = Held + 1 /\ Held' = Held
  BY RxLineIs DEF CountExact, Held
<1>2. cnt' \in RxSlots /\ cnt' = Held BY <1>1 DEF RxTypes, RxSlots
<1>3. RxTypes' BY <1>2 DEF RxTypes, tx, TaskPc
<1>4. CountExact' BY <1>1, <1>2 DEF CountExact, Held
<1>5. Quota' BY DEF Quota
<1>6. Roomy' BY <1>1, <1>2 DEF Roomy, RxTypes, RxSlots
<1>7. RxOrder' BY <1>0, SameLine
<1> QED BY <1>3, <1>4, <1>5, <1>6, <1>7

(* The oldest byte of the ring goes to the task's hand: its place in the   *)
(* line stays, since the interrupt writes only behind the others.          *)
LEMMA TaskTakeStep ==
  ASSUME RxInv, TaskTest, tail # head
  PROVE  RxInv'
<1> USE SerialAssumption, MarginAssumption
<1>0. /\ UNCHANGED <<rxLeft, came, rxFifo, sneaked, open, buf, head, cnt, ind, got, lost, stale>>
      /\ task = "test" /\ task' = "count" /\ char' = buf[tail] /\ tail' = (tail + 1) % RxSize
  BY DEF TaskTest
<1>1. RxTypes BY DEF RxInv
<1>2. /\ head \in 0..(RxSize - 1) /\ tail \in 0..(RxSize - 1) /\ RxSize \in Nat \ {0}
      /\ got \in Nat /\ rxFifo \in Seq(Nat) /\ buf \in [RxSlots -> Nat] /\ Len(rxFifo) \in Nat
  BY <1>1 DEF RxTypes, RxSlots
<1>3. tail' \in 0..(RxSize - 1) /\ Held >= 1 /\ Held' = Held - 1
  BY <1>0, <1>2, RingShrinks DEF Held
<1>4. Held \in 0..(RxSize - 1) BY <1>1, RxLineIs
<1>5. buf[tail] \in Nat BY <1>2 DEF RxSlots
<1>6. RxTypes' BY <1>0, <1>1, <1>3, <1>5 DEF RxTypes, RxSlots, TaskPc
<1>7. CountExact'
  <2>1. cnt = Held + 0 BY <1>0 DEF RxInv, CountExact, Held
  <2>2. cnt' = Held' + 1 BY <2>1, <1>0, <1>3, <1>4
  <2> QED BY <2>2, <1>0 DEF CountExact, Held
<1>8. Quota' /\ Roomy' BY <1>0 DEF RxInv, Quota, Roomy
<1>9. RxOrder'
  <2>1. Hand = <<>> /\ Hand' = <<char'>> BY <1>0 DEF Hand
  <2>2. Placed(RxLine, got, <<>>, buf, Held, tail, rxFifo) BY <1>1, <2>1, RxLineIs
  <2>3. Placed(RxLine', got, <<char'>>, buf, Held', tail', rxFifo)
    <3>1. Line(got, <<char'>>, buf, head, tail', rxFifo) = RxLine' BY <1>0, <2>1 DEF RxLine
    <3>2. Held' = (head - tail') % RxSize BY <1>0 DEF Held
    <3>3. <<char'>> \in Seq(Nat) /\ head \in RxSlots /\ tail' \in RxSlots
      BY <1>0, <1>2, <1>3, <1>5 DEF RxSlots
    <3> QED BY <3>1, <3>2, <3>3, <1>2, LineIs
  <2>4. /\ RxLine \in Seq(Nat) /\ Len(RxLine) = 1 + Held + Len(rxFifo) /\ RxLine[1] = got
        /\ \A i \in 1..Held : RxLine[1 + i] = buf[(tail + i - 1) % RxSize]
        /\ \A i \in 1..Len(rxFifo) : RxLine[1 + Held + i] = rxFifo[i]
    <3>1. Len(<<>>) = 0 OBVIOUS
    <3> QED BY <3>1, <2>2, <1>2, <1>4 DEF Placed
  <2>5. /\ RxLine' \in Seq(Nat) /\ Len(RxLine') = 1 + Held + Len(rxFifo)
        /\ RxLine'[1] = got /\ RxLine'[2] = buf[tail]
        /\ \A i \in 1..(Held - 1) : RxLine'[2 + i] = buf[(tail' + i - 1) % RxSize]
        /\ \A i \in 1..Len(rxFifo) : RxLine'[1 + Held + i] = rxFifo[i]
    <3>1. Len(<<char'>>) = 1 /\ 1 \in 1..Len(<<char'>>) /\ <<char'>>[1] = buf[tail]
      BY <1>0
    <3>2. 1 + 1 + (Held - 1) = 1 + Held BY <1>4
    <3> QED BY <3>1, <3>2, <2>3, <1>2, <1>3, <1>4 DEF Placed
  <2>6. \A i \in 1..Len(RxLine') : i + 0 <= Len(RxLine) /\ RxLine'[i] = RxLine[i + 0]
    <3> SUFFICES ASSUME NEW i \in 1..Len(RxLine')
                 PROVE  i <= Len(RxLine) /\ RxLine'[i] = RxLine[i]
      BY <2>5
    <3>1. i \in 1..(1 + Held + Len(rxFifo)) /\ i <= Len(RxLine) BY <2>4, <2>5
    <3>2. CASE i = 1
      <4>1. RxLine[1] = RxLine'[1] BY <2>4, <2>5
      <4> QED BY <4>1, <3>1, <3>2
    <3>3. CASE i = 2
      <4>0. 1 \in 1..Held BY <1>3, <1>4
      <4>1. RxLine[1 + 1] = buf[(tail + 1 - 1) % RxSize] BY <2>4, <4>0, Zenon
      <4>2. (tail + 1 - 1) % RxSize = tail BY <1>2
      <4> QED BY <4>1, <4>2, <3>1, <3>3, <2>5
    <3>4. CASE i \in 3..(1 + Held)
      <4> DEFINE j == i - 2
      <4>1. /\ j \in 1..(Held - 1) /\ j \in 1..(RxSize - 1) /\ i = 2 + j
            /\ j + 1 \in 1..Held /\ i = 1 + (j + 1)
        BY <3>4, <1>4
      <4> HIDE DEF j
      <4>2. RxLine'[i] = buf[(tail' + j - 1) % RxSize] BY <4>1, <2>5
      <4>3. RxLine[i] = buf[(tail + (j + 1) - 1) % RxSize] BY <4>1, <2>4
      <4>4. (((tail + 1) % RxSize) + j - 1) % RxSize = (tail + (j + 1) - 1) % RxSize
        BY <4>1, <1>2, NextPlace, Zenon
      <4> QED BY <4>2, <4>3, <4>4, <1>0, <3>1
    <3>5. CASE i \in (2 + Held)..(1 + Held + Len(rxFifo))
      <4>1. i - 1 - Held \in 1..Len(rxFifo) /\ i = 1 + Held + (i - 1 - Held)
        BY <3>5, <1>2, <1>4
      <4>2. RxLine'[1 + Held + (i - 1 - Held)] = RxLine[1 + Held + (i - 1 - Held)]
        BY <4>1, <2>4, <2>5
      <4> QED BY <4>1, <4>2, <3>1
    <3> QED BY <3>1, <3>2, <3>3, <3>4, <3>5, <1>2, <1>4
  <2>7. came' = came /\ came \in Nat /\ Rising(RxLine) /\ UpTo(RxLine, came)
    BY <1>0, <1>1 DEF RxInv, RxOrder, RxTypes
  <2> QED BY <2>4, <2>5, <2>6, <2>7, RisingPart DEF RxOrder
<1> QED BY <1>6, <1>7, <1>8, <1>9 DEF RxInv

(* serialRxProcess gets the byte: the line loses its first element. *)
LEMMA TaskDeliverStep ==
  ASSUME RxInv, TaskDeliver
  PROVE  RxInv'
<1> USE SerialAssumption, MarginAssumption
<1>0. /\ UNCHANGED <<rxLeft, came, rxFifo, sneaked, open, buf, head, tail, cnt, ind, char, lost, stale>>
      /\ task = "deliver" /\ task' = "test" /\ got' = char
  BY DEF TaskDeliver, rxRing
<1>1. RxTypes /\ Held' = Held BY <1>0 DEF RxInv, Held
<1>2. RxTypes' BY <1>0, <1>1 DEF RxTypes, TaskPc
<1>3. CountExact' /\ Quota' /\ Roomy' BY <1>0 DEF RxInv, CountExact, Quota, Roomy
<1>4. RxOrder'
  <2>1. Hand = <<char>> /\ Hand' = <<>> BY <1>0 DEF Hand
  <2>2. Placed(RxLine, got, <<char>>, buf, Held, tail, rxFifo) BY <1>1, <2>1, RxLineIs
  <2>3. Placed(RxLine', char, <<>>, buf, Held, tail, rxFifo)
    <3>1. Line(char, <<>>, buf, head, tail, rxFifo) = RxLine' BY <1>0, <2>1 DEF RxLine
    <3>2. <<>> \in Seq(Nat) OBVIOUS
    <3>3. /\ char \in Nat /\ buf \in [RxSlots -> Nat] /\ head \in RxSlots /\ tail \in RxSlots
          /\ rxFifo \in Seq(Nat) /\ RxSize \in Nat \ {0}
      BY <1>1 DEF RxTypes
    <3>4. Placed(Line(char, <<>>, buf, head, tail, rxFifo), char, <<>>, buf,
                 (head - tail) % RxSize, tail, rxFifo)
      BY <3>2, <3>3, LineIs
    <3> QED BY <3>1, <3>4 DEF Held
  <2>4. Held \in Nat /\ Len(rxFifo) \in Nat BY <1>1, RxLineIs
  <2>5. /\ RxLine \in Seq(Nat) /\ Len(RxLine) = 2 + Held + Len(rxFifo) /\ RxLine[2] = char
        /\ \A i \in 1..Held : RxLine[2 + i] = buf[(tail + i - 1) % RxSize]
        /\ \A i \in 1..Len(rxFifo) : RxLine[2 + Held + i] = rxFifo[i]
    <3>1. Len(<<char>>) = 1 /\ 1 \in 1..Len(<<char>>) /\ <<char>>[1] = char OBVIOUS
    <3> QED BY <3>1, <2>2, <2>4 DEF Placed
  <2>6. /\ RxLine' \in Seq(Nat) /\ Len(RxLine') = 1 + Held + Len(rxFifo) /\ RxLine'[1] = char
        /\ \A i \in 1..Held : RxLine'[1 + i] = buf[(tail + i - 1) % RxSize]
        /\ \A i \in 1..Len(rxFifo) : RxLine'[1 + Held + i] = rxFifo[i]
    <3>1. /\ RxLine' \in Seq(Nat) /\ Len(RxLine') = 1 + 0 + Held + Len(rxFifo)
          /\ RxLine'[1] = char
          /\ \A i \in 1..Held : RxLine'[1 + 0 + i] = buf[(tail + i - 1) % RxSize]
          /\ \A i \in 1..Len(rxFifo) : RxLine'[1 + 0 + Held + i] = rxFifo[i]
      <4>1. Len(<<>>) = 0 OBVIOUS
      <4> QED BY <4>1, <2>3, Zenon DEF Placed
    <3>2. 1 + 0 = 1 OBVIOUS
    <3> QED BY <3>1, <3>2, Zenon
  <2>7. \A i \in 1..Len(RxLine') : i + 1 <= Len(RxLine) /\ RxLine'[i] = RxLine[i + 1]
    <3> SUFFICES ASSUME NEW i \in 1..Len(RxLine')
                 PROVE  i + 1 <= Len(RxLine) /\ RxLine'[i] = RxLine[i + 1]
      OBVIOUS
    <3>1. i \in 1..(1 + Held + Len(rxFifo)) /\ i + 1 <= Len(RxLine) BY <2>4, <2>5, <2>6
    <3>2. CASE i = 1 BY <3>1, <3>2, <2>5, <2>6
    <3>3. CASE i \in 2..(1 + Held)
      <4>1. i - 1 \in 1..Held /\ i = 1 + (i - 1) /\ i + 1 = 2 + (i - 1) BY <3>3, <2>4
      <4>2. RxLine'[1 + (i - 1)] = RxLine[2 + (i - 1)] BY <4>1, <2>5, <2>6
      <4> QED BY <4>1, <4>2, <3>1
    <3>4. CASE i \in (2 + Held)..(1 + Held + Len(rxFifo))
      <4> DEFINE j == i - 1 - Held
      <4>1. j \in 1..Len(rxFifo) /\ i = 1 + Held + j /\ i + 1 = 2 + Held + j
        BY <3>4, <2>4
      <4> HIDE DEF j
      <4> QED BY <4>1, <3>1, <2>5, <2>6
    <3> QED BY <3>1, <3>2, <3>3, <3>4, <2>4
  <2>8. came' = came /\ came \in Nat /\ Rising(RxLine) /\ UpTo(RxLine, came)
    BY <1>0, <1>1 DEF RxInv, RxOrder, RxTypes
  <2> QED BY <2>5, <2>6, <2>7, <2>8, RisingPart DEF RxOrder
<1> QED BY <1>2, <1>3, <1>4 DEF RxInv

-----------------------------------------------------------------------------
(* Sending *)

(* The bytes accepted for sending, place by place. *)
TxPlaced(l, x, f, r) ==
  /\ l \in Seq(Nat) /\ Len(l) = 1 + Len(f) + Len(r)
  /\ l[1] = x
  /\ \A i \in 1..Len(f) : l[1 + i] = f[i]
  /\ \A i \in 1..Len(r) : l[1 + Len(f) + i] = r[i]

(* The transmit line, element by element. *)
LEMMA TxLineIs ==
  ASSUME NEW x \in Nat, NEW f \in Seq(Nat), NEW r \in Seq(Nat)
  PROVE  TxPlaced(<<x>> \o f \o r, x, f, r)
<1> DEFINE xf == <<x>> \o f
<1>1. xf \in Seq(Nat) /\ Len(xf) = 1 + Len(f) /\ xf[1] = x /\ \A i \in 1..Len(f) : xf[1 + i] = f[i]
  OBVIOUS
<1> HIDE DEF xf
<1>2. /\ xf \o r \in Seq(Nat) /\ Len(xf \o r) = Len(xf) + Len(r)
      /\ \A i \in 1..Len(xf) : (xf \o r)[i] = xf[i]
      /\ \A i \in 1..Len(r) : (xf \o r)[Len(xf) + i] = r[i]
  BY <1>1, Concat
<1>3. 1 \in 1..Len(xf) /\ \A i \in 1..Len(f) : 1 + i \in 1..Len(xf) BY <1>1
<1>4. /\ xf \o r \in Seq(Nat) /\ Len(xf \o r) = 1 + Len(f) + Len(r)
      /\ (xf \o r)[1] = x
      /\ \A i \in 1..Len(f) : (xf \o r)[1 + i] = f[i]
      /\ \A i \in 1..Len(r) : (xf \o r)[1 + Len(f) + i] = r[i]
  BY <1>1, <1>2, <1>3
<1> QED BY <1>4 DEF xf, TxPlaced

(* Moving the first element of one part to the end of the part before it.  *)
LEMMA MoveOver ==
  ASSUME NEW s \in Seq(Nat), NEW c \in Seq(Nat), c # <<>>
  PROVE  Append(s, Head(c)) \o Tail(c) = s \o c
<1> DEFINE t == Tail(c)
           a == Append(s, Head(c))
           m == Len(s)
           k == Len(c)
<1>1. /\ Head(c) \in Nat /\ Head(c) = c[1] /\ t \in Seq(Nat) /\ k \in Nat \ {0} /\ Len(t) = k - 1
      /\ \A i \in 1..Len(t) : t[i] = c[i + 1]
  OBVIOUS
<1>2. /\ a \in Seq(Nat) /\ Len(a) = m + 1 /\ a[m + 1] = c[1] /\ \A i \in 1..m : a[i] = s[i]
      /\ m \in Nat
  BY <1>1
<1> HIDE DEF a, t
<1>3. /\ a \o t \in Seq(Nat) /\ Len(a \o t) = Len(a) + Len(t)
      /\ \A i \in 1..Len(a) : (a \o t)[i] = a[i]
      /\ \A i \in 1..Len(t) : (a \o t)[Len(a) + i] = t[i]
  BY <1>1, <1>2, Concat
<1>4. /\ s \o c \in Seq(Nat) /\ Len(s \o c) = m + k
      /\ \A i \in 1..m : (s \o c)[i] = s[i]
      /\ \A i \in 1..k : (s \o c)[m + i] = c[i]
  BY Concat
<1> DEFINE l == a \o t
           r == s \o c
<1> HIDE DEF m, k, l, r
<1>5. /\ l \in Seq(Nat) /\ r \in Seq(Nat) /\ Len(l) = m + k /\ Len(r) = m + k
      /\ \A i \in 1..(m + 1) : l[i] = a[i]
      /\ \A i \in 1..(k - 1) : l[m + 1 + i] = t[i]
      /\ \A i \in 1..m : r[i] = s[i]
      /\ \A i \in 1..k : r[m + i] = c[i]
  <2>1. /\ l \in Seq(Nat) /\ Len(l) = (m + 1) + (k - 1)
        /\ \A i \in 1..(m + 1) : l[i] = a[i]
        /\ \A i \in 1..(k - 1) : l[m + 1 + i] = t[i]
    BY <1>1, <1>2, <1>3 DEF l
  <2>2. (m + 1) + (k - 1) = m + k BY <1>1, <1>2
  <2>3. /\ r \in Seq(Nat) /\ Len(r) = m + k
        /\ \A i \in 1..m : r[i] = s[i]
        /\ \A i \in 1..k : r[m + i] = c[i]
    BY <1>4, Zenon DEF r
  <2>4. Len(l) = m + k BY <2>1, <2>2
  <2> QED BY <2>1, <2>3, <2>4, Zenon
<1>6. ASSUME NEW i \in 1..(m + k) PROVE l[i] = r[i]
  <2>1. CASE i \in 1..m
    <3>1. i \in 1..(m + 1) BY <2>1, <1>2
    <3> QED BY <3>1, <2>1, <1>2, <1>5
  <2>2. CASE i = m + 1
    <3>1. 1 \in 1..k /\ m + 1 \in 1..(m + 1) BY <1>1, <1>2
    <3>2. l[m + 1] = c[1] BY <3>1, <1>2, <1>5
    <3>3. r[m + 1] = c[1] BY <3>1, <1>5
    <3> QED BY <2>2, <3>2, <3>3
  <2>3. CASE i \in (m + 2)..(m + k)
    <3> DEFINE j == i - m - 1
    <3>1. j \in 1..(k - 1) /\ i = m + 1 + j /\ i = m + (j + 1) /\ j + 1 \in 1..k
      BY <2>3, <1>1, <1>2
    <3> HIDE DEF j
    <3>2. l[m + 1 + j] = t[j] /\ t[j] = c[j + 1] BY <3>1, <1>1, <1>5
    <3>3. r[m + (j + 1)] = c[j + 1] BY <3>1, <1>5
    <3> QED BY <3>1, <3>2, <3>3
  <2> QED BY <2>1, <2>2, <2>3, <1>1, <1>2
<1>7. l = r BY <1>5, <1>6, SeqEqual
<1> QED BY <1>7 DEF l, r, a, t

(* A writer's byte is the last of the line, in the FIFO or in the ring. *)
LEMMA TxWriteStep ==
  ASSUME TxInv, TxWrite
  PROVE  TxInv'
<1> USE SerialAssumption, MarginAssumption
<1>0. TxTypes /\ Len(txFifo) \in Nat /\ wrote + 1 \in Nat /\ UNCHANGED <<sent, txi, isr, slip>>
  BY DEF TxInv, TxTypes, TxWrite
<1>1. CASE wrote' = wrote
  <2>1. xmit' = xmit /\ txFifo' = txFifo /\ ~PastRing /\ txLeft' = txLeft - 1 /\ txLeft > 0
    BY <1>0, <1>1 DEF TxWrite, TxTypes
  <2>2. TxTypes' BY <2>1, <1>0, <1>1 DEF TxTypes
  <2>3. TxLine' = TxLine BY <2>1, <1>0 DEF TxLine
  <2>4. TxOrder' BY <2>3, <1>1 DEF TxInv, TxOrder, Rising, UpTo
  <2> QED BY <2>1, <2>2, <2>4, <1>0 DEF TxInv, TxGoesOn, Written, NoIsr
<1>2. CASE PastRing /\ wrote' # wrote
  <2>1. xmit = <<>> /\ xmit' = <<>> /\ txFifo' = Append(txFifo, wrote + 1) /\ wrote' = wrote + 1
        /\ txLeft' = txLeft - 1 /\ txLeft > 0
    BY <1>2 DEF TxWrite, PastRing
  <2>2. TxTypes' BY <2>1, <1>0 DEF TxTypes
  <2>3. TxLine' = Append(TxLine, wrote + 1)
    <3>1. <<sent>> \in Seq(Nat) /\ txFifo \in Seq(Nat) BY <1>0 DEF TxTypes
    <3>2. <<sent>> \o txFifo \in Seq(Nat) BY <3>1
    <3>3. TxLine = <<sent>> \o txFifo BY <2>1, <3>2 DEF TxLine
    <3>4. <<sent>> \o Append(txFifo, wrote + 1) = Append(<<sent>> \o txFifo, wrote + 1)
      BY <3>1, <1>0, AppendLast
    <3>5. Append(<<sent>> \o txFifo, wrote + 1) \in Seq(Nat) BY <3>2, <1>0
    <3>6. TxLine' = Append(<<sent>> \o txFifo, wrote + 1) \o <<>>
      BY <2>1, <3>4, <1>0 DEF TxLine
    <3> QED BY <3>3, <3>5, <3>6
  <2>4. Written' BY <2>1, <1>0 DEF TxInv, Written, TxTypes
  <2>5. TxGoesOn' BY <2>1 DEF TxGoesOn
  <2>6. TxLine \in Seq(Nat) BY <1>0, TxLineIs DEF TxTypes, TxLine, TxPlaced
  <2>7. TxOrder' BY <2>1, <2>3, <2>6, <1>0, RisingAppend DEF TxInv, TxOrder, TxTypes
  <2> QED BY <2>2, <2>4, <2>5, <2>7 DEF TxInv
<1>3. CASE ~PastRing /\ wrote' # wrote
  <2>1. xmit' = Append(xmit, wrote + 1) /\ txFifo' = txFifo /\ wrote' = wrote + 1
        /\ txLeft' = txLeft - 1 /\ txLeft > 0
    BY <1>3 DEF TxWrite
  <2>2. TxTypes' BY <2>1, <1>0 DEF TxTypes
  <2>3. TxLine' = Append(TxLine, wrote + 1)
    <3>1. <<sent>> \o txFifo \in Seq(Nat) /\ xmit \in Seq(Nat) BY <1>0 DEF TxTypes
    <3>2. TxLine' = (<<sent>> \o txFifo) \o Append(xmit, wrote + 1) BY <2>1, <1>0 DEF TxLine
    <3> QED BY <3>1, <3>2, <1>0, AppendLast DEF TxLine
  <2>4. Written' BY <2>1, <1>0 DEF TxInv, Written
  <2>5. TxGoesOn' BY <2>1, <1>0, <1>3 DEF TxInv, TxGoesOn, PastRing, NoIsr
  <2>6. TxLine \in Seq(Nat) BY <1>0, TxLineIs DEF TxTypes, TxLine, TxPlaced
  <2>7. TxOrder' BY <2>1, <2>3, <2>6, <1>0, RisingAppend DEF TxInv, TxOrder, TxTypes
  <2> QED BY <2>2, <2>4, <2>5, <2>7 DEF TxInv
<1> QED BY <1>1, <1>2, <1>3

(* The line's next byte leaves the FIFO; falling to the level raises the   *)
(* interrupt.                                                              *)
LEMMA TxShiftStep ==
  ASSUME TxInv, TxShift
  PROVE  TxInv'
<1> USE SerialAssumption, MarginAssumption
<1>0. /\ TxTypes /\ txFifo # <<>> /\ sent' = Head(txFifo) /\ txFifo' = Tail(txFifo)
      /\ UNCHANGED <<txLeft, xmit, wrote, isr>>
      /\ txi' = (txi \/ Len(txFifo) = TxLevel + 1)
      /\ slip' = (IF NoIsr THEN slip ELSE slip + 1) /\ (NoIsr \/ slip < MaxSlip)
  BY DEF TxInv, TxShift
<1>1. /\ txFifo \in Seq(Nat) /\ xmit \in Seq(Nat) /\ sent' \in Nat /\ txFifo' \in Seq(Nat)
      /\ Len(txFifo) \in Nat /\ Len(txFifo') = Len(txFifo) - 1 /\ Len(txFifo) >= 1
      /\ Len(xmit) \in Nat /\ sent' = txFifo[1]
      /\ \A i \in 1..Len(txFifo') : txFifo'[i] = txFifo[i + 1]
  BY <1>0 DEF TxTypes
<1>2. TxTypes'
  <2>1. slip' \in 0..MaxSlip
    <3>1. CASE NoIsr BY <3>1, <1>0 DEF TxTypes
    <3>2. CASE ~NoIsr BY <3>2, <1>0 DEF TxTypes
    <3> QED BY <3>1, <3>2
  <2>2. txi' \in BOOLEAN BY <1>0
  <2>3. /\ txLeft' \in Nat /\ xmit' \in Seq(Nat) /\ wrote' \in Nat /\ isr' \in -1..MaxWrite
    BY <1>0 DEF TxTypes
  <2> QED BY <2>1, <2>2, <2>3, <1>1 DEF TxTypes
<1>3. Written'
  <2>1. CASE NoIsr
    <3>1. isr' = -1 BY <2>1, <1>0 DEF NoIsr
    <3> QED BY <3>1 DEF Written
  <2>2. CASE ~NoIsr
    <3>1. slip' = slip + 1 /\ slip \in Nat /\ isr \in Int /\ isr' = isr
      BY <2>2, <1>0 DEF TxTypes
    <3>2. Len(txFifo') + slip' = Len(txFifo) + slip BY <3>1, <1>1
    <3>3. isr >= 0 => Len(txFifo) + slip >= isr BY DEF TxInv, Written
    <3> QED BY <3>1, <3>2, <3>3 DEF Written
  <2> QED BY <2>1, <2>2
<1>4. TxGoesOn'
  <2>1. xmit = <<>> \/ Len(txFifo) > TxLevel \/ txi \/ ~NoIsr BY DEF TxInv, TxGoesOn
  <2>2. NoIsr' <=> NoIsr BY <1>0 DEF NoIsr
  <2>3. CASE Len(txFifo) > TxLevel /\ Len(txFifo) # TxLevel + 1
    <3>1. Len(txFifo') > TxLevel BY <2>3, <1>1
    <3> QED BY <3>1 DEF TxGoesOn
  <2>4. CASE Len(txFifo) = TxLevel + 1 \/ txi BY <2>4, <1>0, Zenon DEF TxGoesOn
  <2>5. CASE xmit = <<>> \/ ~NoIsr BY <2>5, <2>2, <1>0 DEF TxGoesOn
  <2> QED BY <2>1, <2>3, <2>4, <2>5
<1>5. TxOrder'
  <2>1. /\ TxLine \in Seq(Nat) /\ Len(TxLine) = 1 + Len(txFifo) + Len(xmit)
        /\ \A i \in 1..Len(txFifo) : TxLine[1 + i] = txFifo[i]
        /\ \A i \in 1..Len(xmit) : TxLine[1 + Len(txFifo) + i] = xmit[i]
    <3>1. sent \in Nat BY <1>0 DEF TxTypes
    <3>2. TxPlaced(TxLine, sent, txFifo, xmit) BY <3>1, <1>1, TxLineIs DEF TxLine
    <3> QED BY <3>2, Zenon DEF TxPlaced
  <2>2. /\ TxLine' \in Seq(Nat) /\ Len(TxLine') = 1 + Len(txFifo') + Len(xmit)
        /\ TxLine'[1] = sent'
        /\ \A i \in 1..Len(txFifo') : TxLine'[1 + i] = txFifo'[i]
        /\ \A i \in 1..Len(xmit) : TxLine'[1 + Len(txFifo') + i] = xmit[i]
    <3>1. TxLine' = <<sent'>> \o txFifo' \o xmit BY <1>0 DEF TxLine
    <3>2. TxPlaced(TxLine', sent', txFifo', xmit) BY <3>1, <1>1, TxLineIs
    <3> QED BY <3>2, Zenon DEF TxPlaced
  <2>3. \A i \in 1..Len(TxLine') : i + 1 <= Len(TxLine) /\ TxLine'[i] = TxLine[i + 1]
    <3> SUFFICES ASSUME NEW i \in 1..Len(TxLine')
                 PROVE  i + 1 <= Len(TxLine) /\ TxLine'[i] = TxLine[i + 1]
      OBVIOUS
    <3>1. i \in 1..(Len(txFifo) + Len(xmit)) /\ i + 1 <= Len(TxLine) BY <2>1, <2>2, <1>1
    <3>2. CASE i = 1
      <4>1. 1 \in 1..Len(txFifo) BY <1>1
      <4>2. TxLine[1 + 1] = txFifo[1] BY <4>1, <2>1
      <4> QED BY <4>2, <3>1, <3>2, <2>2, <1>1
    <3>3. CASE i \in 2..Len(txFifo)
      <4> DEFINE j == i - 1
      <4>1. /\ j \in 1..Len(txFifo') /\ i = 1 + j /\ j + 1 \in 1..Len(txFifo)
            /\ i + 1 = 1 + (j + 1)
        BY <3>3, <1>1
      <4> HIDE DEF j
      <4>2. TxLine'[i] = txFifo'[j] /\ TxLine[i + 1] = txFifo[j + 1] BY <4>1, <2>1, <2>2
      <4> QED BY <4>1, <4>2, <3>1, <1>1
    <3>4. CASE i \in (Len(txFifo) + 1)..(Len(txFifo) + Len(xmit))
      <4> DEFINE j == i - Len(txFifo)
      <4>1. /\ j \in 1..Len(xmit) /\ i = 1 + Len(txFifo') + j
            /\ i + 1 = 1 + Len(txFifo) + j
        BY <3>4, <1>1
      <4> HIDE DEF j
      <4>2. TxLine'[i] = xmit[j] /\ TxLine[i + 1] = xmit[j] BY <4>1, <2>1, <2>2
      <4> QED BY <4>2, <3>1
    <3> QED BY <3>1, <3>2, <3>3, <3>4, <1>1
  <2>4. wrote' = wrote /\ wrote \in Nat /\ Rising(TxLine) /\ UpTo(TxLine, wrote)
    BY <1>0 DEF TxInv, TxOrder, TxTypes
  <2> QED BY <2>1, <2>2, <2>3, <2>4, RisingPart DEF TxOrder
<1> QED BY <1>2, <1>3, <1>4, <1>5 DEF TxInv

(* The transmit interrupt moves the oldest byte of the ring into the FIFO, *)
(* and ends with more in it than the level, or with an empty ring.         *)
LEMMA TxIsrStep ==
  ASSUME TxInv, TxIsr
  PROVE  TxInv'
<1> USE SerialAssumption, MarginAssumption
<1>0. TxTypes /\ Len(txFifo) \in Nat BY DEF TxInv, TxTypes
<1>1. CASE TxIsrBegin
  <2>1. UNCHANGED <<txLeft, xmit, txFifo, wrote, sent>> /\ txi' = FALSE /\ isr' = 0 /\ slip' = 0
    BY <1>1 DEF TxIsrBegin
  <2>2. TxTypes'
    <3>1. 0 \in -1..MaxWrite /\ 0 \in 0..MaxSlip OBVIOUS
    <3>2. isr' \in -1..MaxWrite /\ slip' \in 0..MaxSlip /\ txi' \in BOOLEAN BY <3>1, <2>1
    <3> QED BY <3>2, <2>1, <1>0 DEF TxTypes
  <2>3. TxLine' = TxLine BY <2>1 DEF TxLine
  <2>4. TxOrder' BY <2>1, <2>3 DEF TxInv, TxOrder, Rising, UpTo
  <2>5. TxGoesOn' /\ Written' BY <2>1, <1>0 DEF TxGoesOn, Written, NoIsr
  <2> QED BY <2>2, <2>4, <2>5 DEF TxInv
<1>2. CASE TxIsrMove
  <2>1. /\ UNCHANGED <<txLeft, wrote, sent, txi, slip>> /\ xmit # <<>> /\ isr < MaxWrite
        /\ txFifo' = Append(txFifo, Head(xmit)) /\ xmit' = Tail(xmit) /\ isr' = isr + 1
        /\ isr # -1
    BY <1>2 DEF TxIsrMove, MayMove, NoIsr
  <2>2. Head(xmit) \in Nat /\ Tail(xmit) \in Seq(Nat) /\ Len(txFifo') = Len(txFifo) + 1
    BY <2>1, <1>0 DEF TxTypes
  <2>3. TxTypes' BY <2>1, <2>2, <1>0 DEF TxTypes
  <2>4. isr \in 0..MaxWrite /\ slip \in Nat BY <2>1, <1>0 DEF TxTypes
  <2>7. TxGoesOn' BY <2>1, <2>4 DEF TxGoesOn, NoIsr
  <2>8. Written' BY <2>1, <2>2, <2>4, <1>0 DEF TxInv, Written
  <2>5. TxLine' = TxLine
    <3>1. TxLine' = (<<sent>> \o Append(txFifo, Head(xmit))) \o Tail(xmit)
      BY <2>1 DEF TxLine
    <3>2. <<sent>> \in Seq(Nat) /\ txFifo \in Seq(Nat) /\ xmit \in Seq(Nat)
      BY <1>0 DEF TxTypes
    <3>3. <<sent>> \o Append(txFifo, Head(xmit)) = Append(<<sent>> \o txFifo, Head(xmit))
      BY <3>2, <2>2, AppendLast
    <3>4. <<sent>> \o txFifo \in Seq(Nat) BY <3>2
    <3>5. Append(<<sent>> \o txFifo, Head(xmit)) \o Tail(xmit) = (<<sent>> \o txFifo) \o xmit
      BY <3>2, <3>4, <2>1, MoveOver
    <3> QED BY <3>1, <3>3, <3>5 DEF TxLine
  <2>6. TxOrder' BY <2>1, <2>5 DEF TxInv, TxOrder, Rising, UpTo
  <2> QED BY <2>3, <2>6, <2>7, <2>8 DEF TxInv
<1>3. CASE TxIsrEnd
  <2>1. UNCHANGED <<txLeft, xmit, txFifo, wrote, sent, txi, slip>> /\ isr' = -1 /\ isr # -1 /\ ~MayMove
    BY <1>3 DEF TxIsrEnd, NoIsr
  <2>2. TxTypes' BY <2>1, <1>0 DEF TxTypes
  <2>3. TxLine' = TxLine BY <2>1 DEF TxLine
  <2>4. TxOrder' BY <2>1, <2>3 DEF TxInv, TxOrder, Rising, UpTo
  <2>5. Written' BY <2>1 DEF Written
  <2>6. xmit = <<>> \/ Len(txFifo) > TxLevel
    <3>1. CASE isr >= MaxWrite BY <3>1, <2>1, <1>0 DEF TxInv, Written, TxTypes
    <3>2. CASE isr < MaxWrite BY <3>2, <2>1, <1>0 DEF MayMove, TxTypes
    <3> QED BY <3>1, <3>2, <1>0 DEF TxTypes
  <2>7. TxGoesOn' BY <2>1, <2>6 DEF TxGoesOn
  <2> QED BY <2>2, <2>4, <2>5, <2>7 DEF TxInv
<1> QED BY <1>1, <1>2, <1>3 DEF TxIsr

-----------------------------------------------------------------------------
(* The types, taken apart. *)
LEMMA TypesSplit == TypeOK <=> RxTypes /\ TxTypes
  BY DEF TypeOK, RxTypes, TxTypes

(* The invariant holds at the start. *)
LEMMA InitIInv == Init => IInv
<1> SUFFICES ASSUME Init PROVE IInv OBVIOUS
<1> USE SerialAssumption, MarginAssumption
<1>0. 0 \in RxSlots /\ RxSize \in Nat \ {0} /\ 0 \in 0..Slack /\ 0 \in 0..MaxSlip /\ -1 \in -1..MaxWrite
  BY DEF RxSlots
<1>1. rxLeft \in Nat /\ txLeft \in Nat BY DEF Init
<1>2. RxTypes
  <2>1. buf \in [RxSlots -> Nat] BY DEF Init
  <2>2. rxFifo \in Seq(Nat) /\ came \in Nat /\ char \in Nat /\ got \in Nat
    BY DEF Init
  <2>3. /\ head \in RxSlots /\ tail \in RxSlots /\ cnt \in RxSlots /\ sneaked \in 0..Slack
        /\ task \in TaskPc
    BY <1>0 DEF Init, TaskPc
  <2>4. open \in BOOLEAN /\ ind \in BOOLEAN /\ lost \in BOOLEAN /\ stale \in BOOLEAN
    BY DEF Init
  <2> HIDE SerialAssumption, MarginAssumption
  <2> QED BY <1>1, <2>1, <2>2, <2>3, <2>4, Zenon DEF RxTypes
<1>3. TxTypes
  <2>1. xmit \in Seq(Nat) /\ txFifo \in Seq(Nat) /\ wrote \in Nat /\ sent \in Nat BY DEF Init
  <2>2. isr \in -1..MaxWrite /\ slip \in 0..MaxSlip BY <1>0 DEF Init
  <2>3. txi \in BOOLEAN BY DEF Init
  <2> HIDE SerialAssumption, MarginAssumption
  <2> QED BY <1>1, <2>1, <2>2, <2>3, Zenon DEF TxTypes
<1>4. (0 - 0) % RxSize = 0
  <2>1. 0 % RxSize = 0 BY <1>0
  <2> QED BY <2>1
<1>5. CountExact
  <2>1. head = 0 /\ tail = 0 /\ cnt = 0 /\ task = "wait" BY DEF Init
  <2> QED BY <2>1, <1>4 DEF CountExact
<1>6. Quota /\ Roomy BY DEF Init, Quota, Roomy
<1>7. RxOrder
  <2>1. Hand = <<>> /\ Held = 0 BY <1>4 DEF Init, Hand, Held
  <2>2. Placed(RxLine, 0, <<>>, buf, 0, tail, <<>>) BY <1>2, <2>1, RxLineIs DEF Init
  <2>3. RxLine \in Seq(Nat) /\ Len(RxLine) = 1 /\ RxLine[1] = 0
    <3>1. Len(<<>>) = 0 OBVIOUS
    <3> QED BY <3>1, <2>2 DEF Placed
  <2>4. came = 0 BY DEF Init
  <2> QED BY <2>3, <2>4 DEF RxOrder, Rising, UpTo
<1>8. TxOrder
  <2>1. TxPlaced(TxLine, 0, <<>>, <<>>)
    <3>1. sent = 0 /\ txFifo = <<>> /\ xmit = <<>> /\ <<>> \in Seq(Nat) BY DEF Init
    <3> QED BY <3>1, TxLineIs DEF TxLine
  <2>2. TxLine \in Seq(Nat) /\ Len(TxLine) = 1 /\ TxLine[1] = 0
    <3>1. Len(<<>>) = 0 OBVIOUS
    <3> QED BY <3>1, <2>1 DEF TxPlaced
  <2>3. wrote = 0 BY DEF Init
  <2> QED BY <2>2, <2>3 DEF TxOrder, Rising, UpTo
<1>9. TxGoesOn /\ Written BY DEF Init, TxGoesOn, Written
<1> QED BY <1>2, <1>3, <1>5, <1>6, <1>7, <1>8, <1>9 DEF IInv, RxInv, TxInv

(* A step of one direction leaves the other alone. *)
LEMMA TxKept == TxInv /\ UNCHANGED tx => TxInv'
<1> SUFFICES ASSUME TxInv, UNCHANGED tx PROVE TxInv' OBVIOUS
<1>1. UNCHANGED <<txLeft, xmit, txFifo, wrote, sent, txi, isr, slip>> BY DEF tx
<1>2. TxTypes' /\ TxGoesOn' /\ Written'
  BY <1>1 DEF TxInv, TxTypes, TxGoesOn, Written, NoIsr
<1>3. TxLine' = TxLine BY <1>1 DEF TxLine
<1>4. TxOrder' BY <1>1, <1>3 DEF TxInv, TxOrder, Rising, UpTo
<1> QED BY <1>2, <1>4 DEF TxInv

(* Receiving depends on its own variables only. *)
LEMMA RxKept == RxInv /\ UNCHANGED rx => RxInv'
<1> SUFFICES ASSUME RxInv, UNCHANGED rx PROVE RxInv' OBVIOUS
<1>1. UNCHANGED <<rxLeft, came, rxFifo, sneaked, open, buf, head, tail, cnt, ind, task, char,
                  got, lost, stale>>
  BY DEF rx, rxRing
<1>2. RxTypes' BY <1>1 DEF RxInv, RxTypes
<1>3. CountExact' /\ Quota' /\ Roomy' BY <1>1 DEF RxInv, CountExact, Quota, Roomy
<1>4. Hand' = Hand BY <1>1 DEF Hand
<1>5. RxOrder' BY <1>1, <1>4, SameLine DEF RxInv
<1> QED BY <1>2, <1>3, <1>5 DEF RxInv

(* The invariant is inductive. *)
LEMMA NextIInv == IInv /\ [Next]_vars => IInv'
<1> SUFFICES ASSUME IInv, [Next]_vars PROVE IInv' OBVIOUS
<1>0. RxInv /\ TxInv BY DEF IInv
<1>1. CASE RxArrive
  <2>1. UNCHANGED tx BY <1>1 DEF RxArrive
  <2> QED BY <2>1, <1>0, <1>1, RxArriveStep, TxKept DEF IInv
<1>2. CASE RxIsr
  <2>1. UNCHANGED tx BY <1>2 DEF RxIsr
  <2> QED BY <2>1, <1>0, <1>2, RxIsrStep, TxKept DEF IInv
<1>3. CASE RxTask
  <2>1. UNCHANGED tx
    BY <1>3 DEF RxTask, TaskWake, TaskTest, TaskCount, TaskRoom, TaskOpen, TaskDeliver
  <2>2. RxInv'
    BY <1>3, <1>0, TaskStaysStep, TaskCountStep, TaskTakeStep, TaskDeliverStep DEF RxTask
  <2> QED BY <2>1, <2>2, <1>0, TxKept DEF IInv
<1>4. CASE TxWrite
  <2>1. UNCHANGED rx BY <1>4 DEF TxWrite
  <2> QED BY <2>1, <1>0, <1>4, TxWriteStep, RxKept DEF IInv
<1>5. CASE TxShift
  <2>1. UNCHANGED rx BY <1>5 DEF TxShift
  <2> QED BY <2>1, <1>0, <1>5, TxShiftStep, RxKept DEF IInv
<1>6. CASE TxIsr
  <2>1. UNCHANGED rx BY <1>6 DEF TxIsr, TxIsrBegin, TxIsrMove, TxIsrEnd
  <2> QED BY <2>1, <1>0, <1>6, TxIsrStep, RxKept DEF IInv
<1>7. CASE UNCHANGED vars
  <2>1. UNCHANGED rx /\ UNCHANGED tx BY <1>7 DEF vars
  <2> QED BY <2>1, <1>0, RxKept, TxKept DEF IInv
<1> QED BY <1>1, <1>2, <1>3, <1>4, <1>5, <1>6, <1>7 DEF Next

(* The inductive invariant of both directions, behind the theorems below. *)
THEOREM Invariant == Spec => []IInv
  BY InitIInv, NextIInv, PTL DEF Spec

(* Bytes pass in order and each at most once, and the counter of the ring  *)
(* agrees with its positions, whatever the sizes of ring and FIFO are and  *)
(* however interrupt and task interleave (circ_buf.c:72-85).               *)
THEOREM BytesInOrder == Spec => []InOrder
<1>1. IInv => InOrder
  <2> SUFFICES ASSUME IInv PROVE InOrder OBVIOUS
  <2>1. TypeOK BY TypesSplit DEF IInv, RxInv, TxInv
  <2>2. Rising(<<sent>> \o txFifo \o xmit) BY DEF IInv, TxInv, TxOrder, TxLine
  <2>3. Rising(<<got>> \o Hand \o InRing \o rxFifo)
    BY DEF IInv, RxInv, RxOrder, RxLine, Line, InRing
  <2>4. CountExact BY DEF IInv, RxInv
  <2> QED BY <2>1, <2>2, <2>3, <2>4 DEF InOrder, Hand, CountExact
<1> QED BY <1>1, Invariant, PTL

(* No byte finds the ring full unless a throttle was undone: the headroom  *)
(* of serial.c:526-530 is enough for what is still on its way whenever     *)
(* MarginAssumption holds.                                                 *)
THEOREM NoByteIsLost == Spec => []NoneLost
<1>1. IInv => NoneLost BY DEF IInv, RxInv, Roomy, NoneLost
<1> QED BY <1>1, Invariant, PTL

(* The transmit ring is never forgotten (serial.c:564-581): the interrupt  *)
(* leaves more in the FIFO than the level that raises it again, or an      *)
(* empty ring.                                                             *)
THEOREM SendingGoesOn == Spec => []TxGoesOn
<1>1. IInv => TxGoesOn BY DEF IInv, TxInv
<1> QED BY <1>1, Invariant, PTL
=============================================================================
