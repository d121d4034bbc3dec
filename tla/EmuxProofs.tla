------------------------------ MODULE EmuxProofs ------------------------------
(***************************************************************************)
(* The transfers of a virtual port for any number of tasks, any ring whose *)
(* size is a power of two, and any lengths: bytes in order, each into the  *)
(* buffer of a call that is in progress, and a truthful result for a       *)
(* transfer that began with nothing of another one left.                   *)
(*                                                                         *)
(* The argument is about such a transfer.  While it has the port, every    *)
(* other task is outside or has not yet taken the port, the receive task   *)
(* is at the end of a transfer only when this one has all its bytes, and   *)
(* the event bit and the callback are its own.                             *)
(***************************************************************************)
EXTENDS Emux, SequenceTheorems, TLAPS

Waiting == {"await", "wait", "woken", "expired"}
Filled == {"complete", "notify"}
Before == {"nonblock", "timed"}

(* The ring is kept between tail and head, and holds bytes. *)
RingOK ==
    /\ cnt = 0 \/ cnt < BufSize
    /\ BufSize > 0 => Masked(head + 1) = Masked(tail + cnt)
    /\ ring \in Seq(1..MaxBytes) /\ Len(ring) = cnt

(* Bytes are numbered as they arrive. *)
Numbered ==
    /\ last <= arrived
    /\ \A i \in DOMAIN ring : ring[i] <= arrived
    /\ \A u \in Users : \A i \in DOMAIN buffer[u] : buffer[u][i] <= arrived

Ordered ==
    /\ Increasing(ring) /\ \A i \in DOMAIN ring : ring[i] > last
    /\ \A u \in Users : Increasing(buffer[u])
    /\ need > 0 => cnt = 0 /\ target \in Users

(* A transfer that began clean and owes bytes has the port to itself. *)
Alone ==
    need > 0 /\ clean[target] =>
      /\ pc[target] \in InCall /\ busy /\ rx = "next"
      /\ Len(buffer[target]) + need = want[target]
      /\ \A v \in Users \ {target} : pc[v] = "out"

(* What holds of a clean transfer while it has the port. *)
OwnTransfer(u) ==
    /\ \A v \in Users \ {u} : pc[v] \in {"out"} \union Before
    /\ pc[u] \in InCall => target = u /\ Len(buffer[u]) + need = want[u]
    /\ pc[u] \in Filled => /\ Len(buffer[u]) = want[u] /\ need = 0
                           /\ rx = "next" /\ doneCb = u
    /\ pc[u] \in Waiting => doneCb = NoUser /\ (event \/ pc[u] = "woken" => need = 0)
    /\ pc[u] = "ongoing" => doneCb = u /\ rx \in {"next", "set", "call"}

(* What holds of it afterwards. *)
Told(u) ==
    /\ ret[u] # "none" => (ret[u] = "Success" <=> Len(buffer[u]) = want[u])
    /\ doneCb = u => ret[u] = "Success"

Clean ==
    \A u \in Users : clean[u] =>
      /\ pc[u] \in InCall \union Filled => OwnTransfer(u)
      /\ pc[u] = "out" => Told(u)

IInv == TypeOK /\ RingOK /\ Numbered /\ Ordered /\ Alone /\ Clean

(* The invariant holds at the start. *)
LEMMA InitIInv == Init => IInv
<1> SUFFICES ASSUME Init PROVE IInv OBVIOUS
<1> USE EmuxAssumption DEF Init
<1>1. TypeOK
  <2>1. <<>> \in Seq(1..MaxBytes) /\ Len(<<>>) = 0 OBVIOUS
  <2>2. buffer \in [Users -> Seq(1..MaxBytes)] BY <2>1
  <2>3. /\ pc \in [Users -> Pc] /\ want \in [Users -> 0..MaxLen]
        /\ ret \in [Users -> {"none", "Success", "Timeout"}] /\ clean \in [Users -> BOOLEAN]
    BY DEF Pc
  <2>4. /\ target \in Users \union {NoUser} /\ need \in 0..MaxLen
        /\ doneCb \in Users \union {NoUser} /\ busy \in BOOLEAN /\ event \in BOOLEAN
        /\ rx \in RxPc /\ arrived \in 0..MaxBytes /\ last \in 0..MaxBytes
        /\ calls \in 0..MaxCalls
    <3>1. 0 \in 0..MaxLen /\ 0 \in 0..MaxBytes /\ 0 \in 0..MaxCalls OBVIOUS
    <3>2. busy \in BOOLEAN /\ event \in BOOLEAN OBVIOUS
    <3>3. rx \in RxPc BY DEF RxPc
    <3> QED BY <3>1, <3>2, <3>3
  <2>5. /\ slots \in [Slots -> 0..MaxBytes] /\ head \in Slots \union {-1}
        /\ tail \in Slots \union {0} /\ cnt \in 0..BufSize
    OBVIOUS
  <2> QED BY <2>2, <2>3, <2>4, <2>5 DEF TypeOK
<1>5. RingOK /\ DOMAIN ring = {}
  <2>1. ring = [i \in 1..0 |-> slots[Masked(tail + i - 1)]] BY DEF ring, Taken
  <2>2. DOMAIN ring = 1..0 BY <2>1, Zenon
  <2>3. ring \in [1..0 -> 1..MaxBytes] BY <2>1
  <2>4. ring \in Seq(1..MaxBytes) /\ Len(ring) = 0 BY <2>2, <2>3
  <2>5. BufSize > 0 => Masked(head + 1) = Masked(tail + cnt) BY DEF Masked
  <2> QED BY <2>2, <2>4, <2>5 DEF RingOK
<1>2. Numbered /\ Ordered BY <1>5 DEF Numbered, Ordered, Increasing
<1>3. Alone BY DEF Alone
<1>4. Clean
  <2> SUFFICES ASSUME NEW u \in Users
               PROVE  pc[u] \notin InCall \union Filled /\ Told(u)
    BY DEF Clean
  <2>1. pc[u] = "out" /\ ret[u] = "none" /\ doneCb # u OBVIOUS
  <2> QED BY <2>1 DEF Told, InCall, Filled
<1> QED BY <1>1, <1>2, <1>3, <1>4, <1>5 DEF IInv

(* A byte put behind older ones. *)
LEMMA ByteAppended ==
  ASSUME NEW M \in Nat, NEW s \in Seq(1..M), NEW n \in 1..M,
         Increasing(s), \A i \in DOMAIN s : s[i] < n
  PROVE  /\ Append(s, n) \in Seq(1..M)
         /\ Len(Append(s, n)) = Len(s) + 1
         /\ Increasing(Append(s, n))
         /\ \A i \in DOMAIN Append(s, n) : Append(s, n)[i] <= n
         /\ \A i \in DOMAIN Append(s, n) : Append(s, n)[i] = n \/ \E j \in DOMAIN s : Append(s, n)[i] = s[j]
<1> DEFINE t == Append(s, n)
<1>1. /\ t \in Seq(1..M) /\ Len(t) = Len(s) + 1 /\ DOMAIN s = 1..Len(s)
      /\ DOMAIN t = 1..(Len(s) + 1) /\ Len(s) \in Nat
  OBVIOUS
<1>2. t[Len(s) + 1] = n /\ \A i \in 1..Len(s) : t[i] = s[i] OBVIOUS
<1>3. \A i \in DOMAIN s : s[i] \in Nat OBVIOUS
<1> HIDE DEF t
<1>4. \A i \in DOMAIN t : i \in DOMAIN s \/ i = Len(s) + 1 BY <1>1
<1>5. Increasing(t)
  <2> SUFFICES ASSUME NEW i \in DOMAIN t, NEW j \in DOMAIN t, i < j PROVE t[i] < t[j]
    BY DEF Increasing
  <2>1. i \in DOMAIN s /\ t[i] = s[i] BY <1>1, <1>2, <1>4
  <2>2. CASE j \in DOMAIN s BY <1>1, <1>2, <2>1, <2>2 DEF Increasing
  <2>3. CASE j = Len(s) + 1 BY <1>2, <2>1, <2>3
  <2> QED BY <1>4, <2>2, <2>3
<1>6. \A i \in DOMAIN t : t[i] <= n BY <1>1, <1>2, <1>3, <1>4
<1>7. \A i \in DOMAIN t : t[i] = n \/ \E j \in DOMAIN s : t[i] = s[j]
  BY <1>1, <1>2, <1>4
<1> QED BY <1>1, <1>5, <1>6, <1>7 DEF t

(* The two parts of a sequence. *)
LEMMA Parts ==
  ASSUME NEW M \in Nat, NEW s \in Seq(1..M), NEW d \in 0..Len(s)
  PROVE  /\ SubSeq(s, 1, d) \in Seq(1..M) /\ DOMAIN SubSeq(s, 1, d) = 1..d
         /\ Len(SubSeq(s, 1, d)) = d
         /\ \A i \in 1..d : SubSeq(s, 1, d)[i] = s[i]
         /\ SubSeq(s, d + 1, Len(s)) \in Seq(1..M)
         /\ Len(SubSeq(s, d + 1, Len(s))) = Len(s) - d
         /\ DOMAIN SubSeq(s, d + 1, Len(s)) = 1..(Len(s) - d)
         /\ \A i \in 1..(Len(s) - d) : SubSeq(s, d + 1, Len(s))[i] = s[i + d]
<1> DEFINE a == SubSeq(s, 1, d)
           b == SubSeq(s, d + 1, Len(s))
<1>1. Len(s) \in Nat /\ DOMAIN s = 1..Len(s) /\ d \in Nat /\ d <= Len(s) OBVIOUS
<1>2. a \in Seq(1..M) /\ Len(a) = d /\ \A i \in 1..d : a[i] = s[i] BY <1>1
<1>3. /\ b \in Seq(1..M) /\ Len(b) = Len(s) - d
      /\ \A i \in 1..(Len(s) - d) : b[i] = s[i + d]
  <2> DEFINE n == Len(s)
             m == d + 1
  <2>1. n \in Int /\ m \in Int /\ n = Len(s) BY <1>1
  <2>2. \A i \in m..n : s[i] \in 1..M
    <3>1. \A i \in m..n : i \in DOMAIN s BY <1>1
    <3> QED BY <3>1
  <2> HIDE DEF n, m
  <2>3. /\ SubSeq(s, m, n) \in Seq(1..M)
        /\ Len(SubSeq(s, m, n)) = IF m <= n THEN n - m + 1 ELSE 0
        /\ \A i \in 1..(n - m + 1) : SubSeq(s, m, n)[i] = s[m + i - 1]
    BY <2>1, <2>2, SubSeqProperties
  <2>4. b = SubSeq(s, m, n) /\ m = d + 1 /\ n \in Nat /\ d \in Nat /\ d <= n
    BY <1>1, <2>1 DEF n, m
  <2> HIDE DEF b
  <2>5. Len(b) = n - d BY <2>3, <2>4
  <2>6. ASSUME NEW i \in 1..(n - d) PROVE b[i] = s[i + d]
    <3>1. m + i - 1 = i + d /\ i \in 1..(n - m + 1) BY <2>4
    <3> QED BY <2>3, <2>4, <3>1
  <2> QED BY <2>1, <2>3, <2>4, <2>5, <2>6
<1> HIDE DEF a, b
<1>4. DOMAIN a = 1..d /\ DOMAIN b = 1..(Len(s) - d)
  <2>1. DOMAIN a = 1..Len(a) /\ DOMAIN b = 1..Len(b) BY <1>2, <1>3
  <2> QED BY <1>2, <1>3, <2>1
<1> QED BY <1>2, <1>3, <1>4 DEF a, b

(* The remainder of a sum. *)
LEMMA Wraps ==
  ASSUME NEW N \in Nat \ {0}, NEW a \in 0..(N - 1), NEW k \in 0..N
  PROVE  /\ (a + k) % N = IF a + k < N THEN a + k ELSE a + k - N
         /\ (a + k) % N \in 0..(N - 1)
  OBVIOUS

(* Two places of a ring less than its size apart are not the same. *)
LEMMA Apart ==
  ASSUME NEW N \in Nat \ {0}, NEW a \in 0..(N - 1), NEW k \in 0..(N - 1), NEW i \in 0..(k - 1)
  PROVE  (a + i) % N # (a + k) % N
<1>1. i \in 0..N /\ k \in 0..N OBVIOUS
<1>2. (a + i) % N = IF a + i < N THEN a + i ELSE a + i - N BY <1>1, Wraps
<1>3. (a + k) % N = IF a + k < N THEN a + k ELSE a + k - N BY <1>1, Wraps
<1> QED BY <1>1, <1>2, <1>3

(* Going on from a place reached. *)
LEMMA GoesOn ==
  ASSUME NEW N \in Nat \ {0}, NEW a \in 0..(N - 1), NEW n \in 0..N, NEW j \in 0..(N - n)
  PROVE  (((a + n) % N) + j) % N = (a + (n + j)) % N
<1> DEFINE t == (a + n) % N
<1>1. t = (IF a + n < N THEN a + n ELSE a + n - N) /\ t \in 0..(N - 1) BY Wraps
<1>2. j \in 0..N /\ n + j \in 0..N OBVIOUS
<1>3. (a + (n + j)) % N = IF a + (n + j) < N THEN a + (n + j) ELSE a + (n + j) - N
  BY <1>2, Wraps
<1> HIDE DEF t
<1>4. (t + j) % N = IF t + j < N THEN t + j ELSE t + j - N BY <1>1, <1>2, Wraps
<1> QED BY <1>1, <1>3, <1>4 DEF t

(* What the ring holds, place by place. *)
LEMMA Places ==
  ASSUME TypeOK, RingOK
  PROVE  /\ cnt \in Nat /\ DOMAIN ring = 1..cnt
         /\ \A i \in 1..cnt : /\ ring[i] = slots[(tail + (i - 1)) % BufSize]
                              /\ ring[i] \in 1..MaxBytes
<1>1. cnt \in Nat BY EmuxAssumption DEF TypeOK
<1>2. ring = [i \in 1..cnt |-> slots[Masked(tail + i - 1)]] BY DEF ring, Taken
<1>3. DOMAIN ring = 1..cnt /\ \A i \in 1..cnt : ring[i] = slots[Masked(tail + i - 1)]
  BY <1>2, Zenon
<1>4. ASSUME NEW i \in 1..cnt PROVE Masked(tail + i - 1) = (tail + (i - 1)) % BufSize
  <2>1. tail \in Int BY DEF TypeOK, Slots
  <2>2. tail + i - 1 = tail + (i - 1) BY <2>1
  <2> QED BY <2>2 DEF Masked
<1>5. ASSUME NEW i \in 1..cnt PROVE ring[i] \in 1..MaxBytes
  <2>1. ring \in Seq(1..MaxBytes) /\ Len(ring) = cnt BY DEF RingOK
  <2> QED BY <2>1, ElementOfSeq
<1> QED BY <1>1, <1>3, <1>4, <1>5

(* A byte goes into the ring behind the others. *)
LEMMA Inserted ==
  ASSUME TypeOK, RingOK, NEW b \in 1..MaxBytes, RingMayTake, Insert(b)
  PROVE  /\ slots' \in [Slots -> 0..MaxBytes] /\ head' \in Slots
         /\ tail' \in Slots \union {0} /\ cnt' \in 0..BufSize
         /\ RingOK' /\ ring' = Append(ring, b)
<1> USE EmuxAssumption
<1> DEFINE N == BufSize
           c == cnt
           tl == tail
           hd == (head + 1) % N
<1>1. /\ N \in Nat \ {0} /\ c \in 0..(N - 1) /\ c # N - 1 /\ tl \in 0..(N - 1)
      /\ hd = (tl + c) % N
  BY DEF TypeOK, RingOK, RingMayTake, Masked, Slots
<1>2. /\ tail' = tl /\ cnt' = c + 1 /\ head' = hd /\ slots' = [slots EXCEPT ![hd] = b]
  BY DEF Insert, Masked
<1>3. slots \in [0..(N - 1) -> 0..MaxBytes] BY DEF TypeOK, Slots
<1>4. DOMAIN ring = 1..c /\ \A i \in 1..c : /\ ring[i] = slots[(tl + (i - 1)) % N]
                                            /\ ring[i] \in 1..MaxBytes
  BY Places
<1>5. ring' = [i \in 1..cnt' |-> slots'[(tail' + i - 1) % N]] BY DEF ring, Taken, Masked
<1> HIDE DEF N, c, tl, hd
<1>6. hd \in 0..(N - 1) /\ c \in 0..N BY <1>1, Wraps
<1>7. slots' \in [0..(N - 1) -> 0..MaxBytes] /\ slots'[hd] = b
  BY <1>2, <1>3, <1>6
<1>8. ASSUME NEW i \in 1..c
      PROVE  slots'[(tl + i - 1) % N] = ring[i]
  <2>1. tl + i - 1 = tl + (i - 1) /\ i - 1 \in 0..(c - 1) /\ i - 1 \in 0..N BY <1>1
  <2>2. (tl + (i - 1)) % N # hd BY <1>1, <2>1, Apart
  <2>3. (tl + (i - 1)) % N \in 0..(N - 1) BY <1>1, <2>1, Wraps
  <2>4. slots'[(tl + (i - 1)) % N] = slots[(tl + (i - 1)) % N] BY <1>2, <1>3, <2>2, <2>3
  <2> QED BY <1>4, <2>1, <2>4
<1>9. slots'[(tl + (c + 1) - 1) % N] = b
  <2>1. tl + (c + 1) - 1 = tl + c BY <1>1
  <2> QED BY <1>1, <1>7, <2>1
<1>10. ring' = [i \in 1..(c + 1) |-> slots'[(tl + i - 1) % N]] BY <1>2, <1>5
<1>11. /\ DOMAIN ring' = 1..(c + 1)
       /\ \A i \in 1..(c + 1) : ring'[i] = slots'[(tl + i - 1) % N]
  BY <1>10, Zenon
<1>12. ring \in Seq(1..MaxBytes) /\ Len(ring) = c BY DEF RingOK, c
<1> DEFINE q == Append(ring, b)
<1>13. /\ q \in Seq(1..MaxBytes) /\ Len(q) = c + 1 /\ DOMAIN q = 1..(c + 1)
       /\ q[c + 1] = b /\ \A i \in 1..c : q[i] = ring[i]
  BY <1>1, <1>12
<1> HIDE DEF q
<1>14. \A i \in 1..(c + 1) : i \in 1..c \/ i = c + 1 BY <1>1
<1>15. \A i \in 1..(c + 1) : ring'[i] = q[i]
  <2> SUFFICES ASSUME NEW i \in 1..(c + 1) PROVE ring'[i] = q[i] OBVIOUS
  <2>1. CASE i \in 1..c BY <1>8, <1>11, <1>13, <2>1
  <2>2. CASE i = c + 1 BY <1>9, <1>11, <1>13, <2>2
  <2> QED BY <1>14, <2>1, <2>2
<1>16. ring' = q
  <2>1. q = [i \in 1..(c + 1) |-> q[i]] BY <1>13
  <2>2. ring' = [i \in 1..(c + 1) |-> ring'[i]] BY <1>10, <1>11
  <2> QED BY <1>15, <2>1, <2>2
<1>17. RingOK'
  <2>1. cnt' < N BY <1>1, <1>2
  <2>2. (head' + 1) % N = (tail' + cnt') % N
    <3>1. 1 \in 0..(N - c) /\ hd = (tl + c) % N BY <1>1
    <3>2. (hd + 1) % N = (tl + (c + 1)) % N BY <1>1, <1>6, <3>1, GoesOn
    <3> QED BY <1>2, <3>2
  <2>3. ring' \in Seq(1..MaxBytes) /\ Len(ring') = cnt' BY <1>2, <1>13, <1>16
  <2> QED BY <2>1, <2>2, <2>3 DEF RingOK, Masked, N
<1>18. cnt' \in 0..BufSize /\ tail' \in Slots /\ head' \in Slots
  BY <1>1, <1>2, <1>6 DEF Slots, N
<1>19. slots' \in [Slots -> 0..MaxBytes] BY <1>7 DEF Slots, N
<1> QED BY <1>16, <1>17, <1>18, <1>19 DEF q

(* n bytes leave the ring at its other end. *)
LEMMA Removed ==
  ASSUME TypeOK, RingOK, NEW n \in 0..cnt, Remove(n)
  PROVE  /\ tail' \in Slots \union {0} /\ cnt' \in 0..BufSize /\ cnt' = cnt - n
         /\ RingOK'
         /\ Taken(n) = SubSeq(ring, 1, n)
         /\ ring' = SubSeq(ring, n + 1, Len(ring))
<1> USE EmuxAssumption
<1>1. ring \in Seq(1..MaxBytes) /\ Len(ring) = cnt /\ cnt \in 0..BufSize /\ BufSize \in Nat
  BY DEF RingOK, TypeOK
<1>2. /\ cnt' = cnt - n /\ head' = head /\ slots' = slots
      /\ tail' = IF n > 0 THEN (tail + n) % BufSize ELSE tail
  BY DEF Remove, Masked
<1>3. /\ cnt \in Nat /\ DOMAIN ring = 1..cnt
      /\ \A i \in 1..cnt : /\ ring[i] = slots[(tail + (i - 1)) % BufSize]
                           /\ ring[i] \in 1..MaxBytes
  BY Places
<1>4. tail \in Slots \union {0} /\ tail \in Nat BY DEF TypeOK, Slots
<1>5. n \in Nat /\ n <= cnt /\ cnt' \in Nat /\ cnt' \in 0..BufSize BY <1>1, <1>2
<1> DEFINE a == SubSeq(ring, 1, n)
           z == SubSeq(ring, n + 1, Len(ring))
<1>6. /\ a \in Seq(1..MaxBytes) /\ DOMAIN a = 1..n /\ \A i \in 1..n : a[i] = ring[i]
      /\ z \in Seq(1..MaxBytes) /\ Len(z) = cnt' /\ DOMAIN z = 1..cnt'
      /\ \A i \in 1..cnt' : z[i] = ring[i + n]
  <2>1. /\ ring \in Seq(1..MaxBytes) /\ n \in 0..Len(ring) /\ MaxBytes \in Nat
        /\ cnt' = Len(ring) - n
    BY <1>1, <1>2
  <2> QED BY ONLY <2>1, Parts
<1> HIDE DEF a, z
<1>7. Taken(n) = a
  <2>1. Taken(n) = [i \in 1..n |-> slots[(tail + i - 1) % BufSize]] BY DEF Taken, Masked
  <2>2. ASSUME NEW i \in 1..n PROVE slots[(tail + i - 1) % BufSize] = a[i]
    <3>1. tail + i - 1 = tail + (i - 1) /\ i \in 1..cnt BY <1>3, <1>4, <1>5
    <3> QED BY <1>3, <1>6, <3>1
  <2>3. a = [i \in 1..n |-> a[i]] BY <1>6
  <2> QED BY <2>1, <2>2, <2>3
<1>8. n > 0 => BufSize \in Nat \ {0} /\ tail \in 0..(BufSize - 1) /\ cnt < BufSize
  BY <1>1, <1>4, <1>5 DEF RingOK, Slots
<1>9. ASSUME NEW j \in Nat, j <= cnt', BufSize > 0
      PROVE  (tail' + j) % BufSize = (tail + (n + j)) % BufSize
  <2>1. CASE n > 0
    <3>1. n \in 0..BufSize /\ j \in 0..(BufSize - n) BY <1>1, <1>2, <1>3, <1>5, <1>8, <1>9, <2>1
    <3> QED BY <1>2, <1>8, <2>1, <3>1, GoesOn
  <2>2. CASE n = 0
    <3>1. n + j = j /\ tail' = tail BY <1>2, <2>2
    <3> QED BY <3>1
  <2> QED BY <1>5, <2>1, <2>2
<1>10. ring' = z
  <2>1. ring' = [i \in 1..cnt' |-> slots[(tail' + i - 1) % BufSize]]
    BY <1>2 DEF ring, Taken, Masked
  <2>2. tail' \in Nat
    <3>1. CASE n > 0
      <4>1. (tail + n) % BufSize \in 0..(BufSize - 1)
        <5>1. n \in 0..BufSize BY <1>1, <1>3, <1>5, <1>8, <3>1
        <5> QED BY <1>8, <3>1, <5>1, Wraps
      <4> QED BY <1>2, <3>1, <4>1
    <3>2. CASE n = 0 BY <1>2, <1>4, <3>2
    <3> QED BY <1>5, <3>1, <3>2
  <2>3. ASSUME NEW i \in 1..cnt' PROVE slots[(tail' + i - 1) % BufSize] = z[i]
    <3>1. /\ tail' + i - 1 = tail' + (i - 1) /\ i - 1 \in Nat /\ i - 1 <= cnt'
          /\ n + (i - 1) = (i + n) - 1 /\ i + n \in 1..cnt /\ BufSize > 0
      BY <1>1, <1>2, <1>5, <2>2
    <3>2. (tail' + (i - 1)) % BufSize = (tail + ((i + n) - 1)) % BufSize BY <1>9, <3>1
    <3>3. ring[i + n] = slots[(tail + ((i + n) - 1)) % BufSize] BY <1>3, <3>1
    <3>4. z[i] = ring[i + n] BY <1>6
    <3> QED BY <3>1, <3>2, <3>3, <3>4
  <2>4. z = [i \in 1..cnt' |-> z[i]] BY <1>6
  <2> QED BY <2>1, <2>3, <2>4
<1>11. tail' \in Slots \union {0}
  <2>1. CASE n > 0
    <3>1. n \in 0..BufSize BY <1>1, <1>3, <1>5, <1>8, <2>1
    <3>2. (tail + n) % BufSize \in 0..(BufSize - 1) BY <1>8, <2>1, <3>1, Wraps
    <3> QED BY <1>2, <2>1, <3>2 DEF Slots
  <2>2. CASE n = 0 BY <1>2, <1>4, <2>2
  <2> QED BY <1>5, <2>1, <2>2
<1>12. RingOK'
  <2>1. cnt' = 0 \/ cnt' < BufSize BY <1>1, <1>2, <1>5 DEF RingOK
  <2>2. ASSUME BufSize > 0 PROVE (head' + 1) % BufSize = (tail' + cnt') % BufSize
    <3>1. (head + 1) % BufSize = (tail + cnt) % BufSize BY <2>2 DEF RingOK, Masked
    <3>2. (tail' + cnt') % BufSize = (tail + (n + cnt')) % BufSize BY <1>5, <1>9, <2>2
    <3>3. n + cnt' = cnt BY <1>2, <1>3, <1>5
    <3> QED BY <1>2, <3>1, <3>2, <3>3
  <2> QED BY <1>6, <1>10, <2>1, <2>2 DEF RingOK, Masked
<1> QED BY <1>2, <1>5, <1>7, <1>10, <1>11, <1>12 DEF a, z

(* The ring cut in two. *)
LEMMA RingCut ==
  ASSUME NEW M \in Nat, NEW s \in Seq(1..M), NEW d \in 0..Len(s), Increasing(s)
  PROVE  /\ SubSeq(s, 1, d) \in Seq(1..M) /\ Len(SubSeq(s, 1, d)) = d
         /\ Increasing(SubSeq(s, 1, d))
         /\ \A i \in DOMAIN SubSeq(s, 1, d) : i \in DOMAIN s /\ SubSeq(s, 1, d)[i] = s[i]
         /\ SubSeq(s, d + 1, Len(s)) \in Seq(1..M)
         /\ Len(SubSeq(s, d + 1, Len(s))) = Len(s) - d
         /\ Increasing(SubSeq(s, d + 1, Len(s)))
         /\ \A i \in DOMAIN SubSeq(s, d + 1, Len(s)) :
               i + d \in DOMAIN s /\ SubSeq(s, d + 1, Len(s))[i] = s[i + d]
<1> DEFINE a == SubSeq(s, 1, d)
           b == SubSeq(s, d + 1, Len(s))
<1>1. Len(s) \in Nat /\ DOMAIN s = 1..Len(s) /\ d \in Nat /\ d <= Len(s) OBVIOUS
<1>2. /\ a \in Seq(1..M) /\ Len(a) = d /\ \A i \in 1..d : a[i] = s[i] /\ DOMAIN a = 1..d
  BY Parts
<1>3. /\ b \in Seq(1..M) /\ Len(b) = Len(s) - d /\ DOMAIN b = 1..(Len(s) - d)
      /\ \A i \in 1..(Len(s) - d) : b[i] = s[i + d]
  <2>1. M \in Nat /\ s \in Seq(1..M) /\ d \in 0..Len(s) OBVIOUS
  <2> QED BY ONLY <2>1, Parts
<1> HIDE DEF a, b
<1>4. DOMAIN a = 1..d /\ DOMAIN b = 1..(Len(s) - d) BY <1>2, <1>3
<1>5. \A i \in DOMAIN a : i \in DOMAIN s /\ a[i] = s[i] BY <1>1, <1>2, <1>4
<1>6. \A i \in DOMAIN b : i + d \in DOMAIN s /\ b[i] = s[i + d]
  <2> SUFFICES ASSUME NEW i \in 1..(Len(s) - d)
               PROVE  i + d \in DOMAIN s /\ b[i] = s[i + d]
    BY <1>4, Zenon
  <2>1. i + d \in DOMAIN s BY <1>1
  <2> QED BY <1>3, <2>1, Zenon
<1>7. Increasing(a) BY <1>5 DEF Increasing
<1>8. Increasing(b)
  <2> SUFFICES ASSUME NEW i \in DOMAIN b, NEW j \in DOMAIN b, i < j PROVE b[i] < b[j]
    BY DEF Increasing
  <2>1. i + d < j + d BY <1>1, <1>4
  <2> QED BY <1>6, <2>1 DEF Increasing
<1> QED BY <1>2, <1>3, <1>5, <1>6, <1>7, <1>8 DEF a, b

(* The ring drained into the buffer of u. *)
LEMMA Drains ==
  ASSUME TypeOK, RingOK, Numbered, Ordered, NEW u \in Users, Drain(u)
  PROVE  /\ Drained(u) \in 0..want[u]
         /\ buffer' \in [Users -> Seq(1..MaxBytes)] /\ Len(buffer'[u]) = Drained(u)
         /\ \A v \in Users \ {u} : buffer'[v] = buffer[v]
         /\ slots' \in [Slots -> 0..MaxBytes] /\ head' \in Slots \union {-1}
         /\ tail' \in Slots \union {0} /\ cnt' \in 0..BufSize /\ RingOK'
         /\ last' \in 0..MaxBytes /\ last' <= arrived
         /\ Drained(u) < want[u] => cnt' = 0
         /\ Increasing(buffer'[u]) /\ Increasing(ring')
         /\ \A i \in DOMAIN ring' : ring'[i] > last' /\ ring'[i] <= arrived
         /\ \A i \in DOMAIN buffer'[u] : buffer'[u][i] <= arrived
<1> DEFINE d == Drained(u)
<1> USE EmuxAssumption
<1>1. /\ ring \in Seq(1..MaxBytes) /\ Len(ring) = cnt /\ cnt \in Nat
      /\ want[u] \in Nat /\ last \in 0..MaxBytes /\ arrived \in 0..MaxBytes
      /\ buffer \in [Users -> Seq(1..MaxBytes)]
  BY DEF TypeOK, RingOK
<1>2. /\ d \in Nat /\ d <= want[u] /\ d <= cnt
      /\ d < want[u] => d = cnt
  BY <1>1 DEF Drained, Smaller
<1>3. d \in 0..Len(ring) /\ d \in 0..cnt /\ d \in 0..want[u] BY <1>1, <1>2
<1>4. /\ buffer' = [buffer EXCEPT ![u] = SubSeq(ring, 1, d)]
      /\ ring' = SubSeq(ring, d + 1, Len(ring)) /\ cnt' = cnt - d
      /\ last' = IF d > 0 THEN ring[d] ELSE last
      /\ slots' \in [Slots -> 0..MaxBytes] /\ head' \in Slots \union {-1}
      /\ tail' \in Slots \union {0} /\ cnt' \in 0..BufSize /\ RingOK'
  <2>1. /\ buffer' = [buffer EXCEPT ![u] = Taken(d)] /\ Remove(d)
        /\ last' = IF d > 0 THEN Taken(d)[d] ELSE last
    BY DEF Drain
  <2> HIDE DEF d
  <2>2. /\ Taken(d) = SubSeq(ring, 1, d) /\ ring' = SubSeq(ring, d + 1, Len(ring))
        /\ tail' \in Slots \union {0} /\ cnt' \in 0..BufSize /\ cnt' = cnt - d /\ RingOK'
    BY <1>3, <2>1, Removed
  <2>3. d > 0 => SubSeq(ring, 1, d)[d] = ring[d]
    <3>1. d > 0 => d \in 1..d BY <1>2
    <3>2. \A i \in 1..d : SubSeq(ring, 1, d)[i] = ring[i] BY <1>1, <1>3, Parts
    <3> QED BY <3>1, <3>2
  <2>4. slots' \in [Slots -> 0..MaxBytes] /\ head' \in Slots \union {-1}
    BY <2>1 DEF Remove, TypeOK
  <2> QED BY <2>1, <2>2, <2>3, <2>4
<1> HIDE DEF d
<1>5. Increasing(ring) /\ MaxBytes \in Nat BY DEF Ordered
<1>15. buffer'[u] = SubSeq(ring, 1, d) BY <1>1, <1>4
<1>6. /\ buffer'[u] = SubSeq(ring, 1, d) /\ Len(SubSeq(ring, 1, d)) = d
      /\ SubSeq(ring, 1, d) \in Seq(1..MaxBytes) /\ Increasing(SubSeq(ring, 1, d))
      /\ \A i \in DOMAIN SubSeq(ring, 1, d) : i \in DOMAIN ring /\ SubSeq(ring, 1, d)[i] = ring[i]
  BY <1>1, <1>3, <1>5, <1>15, RingCut
<1>7. buffer' \in [Users -> Seq(1..MaxBytes)] /\ \A v \in Users \ {u} : buffer'[v] = buffer[v]
  BY <1>1, <1>4, <1>6
<1>8. /\ ring' \in Seq(1..MaxBytes) /\ Len(ring') = Len(ring) - d /\ Increasing(ring')
      /\ \A i \in DOMAIN ring' : i + d \in DOMAIN ring /\ ring'[i] = ring[i + d]
  <2> DEFINE z == SubSeq(ring, d + 1, Len(ring))
  <2>1. /\ z \in Seq(1..MaxBytes) /\ Len(z) = Len(ring) - d /\ Increasing(z)
        /\ \A i \in DOMAIN z : i + d \in DOMAIN ring /\ z[i] = ring[i + d]
    <3>1. ring \in Seq(1..MaxBytes) /\ d \in 0..Len(ring) /\ Increasing(ring) /\ MaxBytes \in Nat
      BY <1>1, <1>3, <1>5
    <3> QED BY ONLY <3>1, RingCut
  <2>2. ring' = z BY <1>4
  <2> HIDE DEF z
  <2> QED BY <2>1, <2>2
<1>9. \A i \in DOMAIN ring : ring[i] <= arrived /\ ring[i] \in 1..MaxBytes /\ ring[i] > last
  BY <1>1 DEF Numbered, Ordered
<1>10. last' \in 0..MaxBytes /\ last' <= arrived
  <2>1. CASE d > 0
    <3>1. d \in DOMAIN ring BY <1>1, <1>2, <2>1
    <3> QED BY <1>4, <1>9, <2>1, <3>1
  <2>2. CASE ~ (d > 0) BY <1>1, <1>4, <2>2 DEF Numbered
  <2> QED BY <2>1, <2>2
<1>11. \A i \in DOMAIN ring' : ring'[i] > last' /\ ring'[i] <= arrived
  <2> SUFFICES ASSUME NEW i \in DOMAIN ring' PROVE ring'[i] > last' /\ ring'[i] <= arrived
    OBVIOUS
  <2>1. i + d \in DOMAIN ring /\ ring'[i] = ring[i + d] BY <1>8
  <2>2. i \in 1..Len(ring') BY <1>8
  <2>3. CASE d > 0
    <3>1. d \in DOMAIN ring /\ d < i + d BY <1>1, <1>2, <2>2, <2>3
    <3>2. ring[d] < ring[i + d] BY <1>5, <2>1, <3>1 DEF Increasing
    <3> QED BY <1>4, <1>9, <2>1, <2>3, <3>1, <3>2
  <2>4. CASE ~ (d > 0) BY <1>4, <1>9, <2>1, <2>4
  <2> QED BY <2>3, <2>4
<1>12. d < want[u] => cnt' = 0 BY <1>1, <1>2, <1>4
<1>14. \A i \in DOMAIN buffer'[u] : buffer'[u][i] <= arrived BY <1>6, <1>9
<1> QED BY <1>3, <1>6, <1>7, <1>8, <1>10, <1>11, <1>12, <1>4, <1>14 DEF d

(* The steps that do not touch the ring. *)
LEMMA RingKept ==
  ASSUME RingOK, UNCHANGED store
  PROVE  RingOK' /\ ring' = ring /\ cnt' = cnt
<1>1. ring' = ring BY DEF store, ring, Taken, Masked
<1> QED BY <1>1 DEF RingOK, store, Masked

(* The steps that move no byte. *)
LEMMA BytesKept ==
  ASSUME RingOK, Numbered, Ordered, UNCHANGED <<store, buffer, arrived, last>>,
         need' = 0 \/ UNCHANGED <<need, target>>, need \in Nat
  PROVE  RingOK' /\ Numbered' /\ Ordered'
<1>1. RingOK' /\ ring' = ring /\ cnt' = cnt BY RingKept
<1>2. Numbered' BY <1>1 DEF Numbered
<1>3. Ordered' BY <1>1 DEF Ordered
<1> QED BY <1>1, <1>2, <1>3

(* A byte arrives. *)
LEMMA RxByteIInv == ASSUME IInv, RxByte PROVE IInv'
<1> USE EmuxAssumption DEF IInv
<1> DEFINE n == arrived + 1
<1>1. /\ rx = "next" /\ arrived < MaxBytes /\ arrived' = n
      /\ UNCHANGED <<target, doneCb, busy, event, pc, want, ret, calls, clean>>
  BY DEF RxByte
<1>2. n \in 1..MaxBytes /\ n > arrived /\ arrived \in Nat /\ need \in Nat BY <1>1 DEF TypeOK
<1>3. last \in Nat /\ last <= arrived /\ last < n BY <1>1 DEF TypeOK, Numbered
<1> HIDE DEF n
<1>4. CASE need > 0 /\ buffer' = [buffer EXCEPT ![target] = Append(@, n)] /\ need' = need - 1
           /\ last' = n /\ rx' = (IF need = 1 THEN "set" ELSE "next") /\ UNCHANGED store
  <2>0. RingOK' /\ ring' = ring /\ cnt' = cnt BY <1>4, RingKept
  <2>1. target \in Users BY <1>4 DEF Ordered
  <2>2. /\ buffer[target] \in Seq(1..MaxBytes) /\ Increasing(buffer[target])
        /\ \A i \in DOMAIN buffer[target] : buffer[target][i] <= arrived
        /\ \A i \in DOMAIN buffer[target] : buffer[target][i] \in Nat
    BY <2>1 DEF TypeOK, Ordered, Numbered
  <2>3. \A i \in DOMAIN buffer[target] : buffer[target][i] < n BY <1>2, <2>2
  <2>4. /\ buffer'[target] \in Seq(1..MaxBytes)
        /\ Len(buffer'[target]) = Len(buffer[target]) + 1
        /\ Increasing(buffer'[target])
        /\ \A i \in DOMAIN buffer'[target] : buffer'[target][i] <= n
    <3>1. buffer'[target] = Append(buffer[target], n) BY <1>4, <2>1 DEF TypeOK
    <3> DEFINE b == buffer[target]
    <3>2. /\ MaxBytes \in Nat /\ b \in Seq(1..MaxBytes) /\ n \in 1..MaxBytes /\ Increasing(b)
          /\ \A i \in DOMAIN b : b[i] < n
      BY <1>2, <2>2, <2>3
    <3> HIDE DEF b, IInv
    <3> HIDE EmuxAssumption
    <3>3. /\ Append(b, n) \in Seq(1..MaxBytes) /\ Len(Append(b, n)) = Len(b) + 1
          /\ Increasing(Append(b, n))
          /\ \A i \in DOMAIN Append(b, n) : Append(b, n)[i] <= n
      BY <3>2, ByteAppended
    <3> QED BY <3>1, <3>3, Zenon DEF b
  <2>5. /\ buffer' \in [Users -> Seq(1..MaxBytes)]
        /\ \A u \in Users \ {target} : buffer'[u] = buffer[u]
    BY <1>4, <2>1, <2>4 DEF TypeOK
  <2>6. TypeOK'
    <3>1. need' \in 0..MaxLen /\ rx' \in RxPc BY <1>2, <1>4 DEF TypeOK, RxPc
    <3>2. arrived' \in 0..MaxBytes /\ last' \in 0..MaxBytes BY <1>1, <1>2, <1>4
    <3> QED BY <1>1, <1>4, <2>5, <3>1, <3>2 DEF TypeOK, store
  <2>7. Numbered'
    <3>1. \A u \in Users \ {target} : \A i \in DOMAIN buffer[u] : buffer[u][i] <= n
      <4>1. \A u \in Users : \A i \in DOMAIN buffer[u] : buffer[u][i] \in Nat BY DEF TypeOK
      <4> QED BY <1>2, <4>1 DEF Numbered
    <3>2. \A i \in DOMAIN ring : ring[i] <= n
      <4>1. \A i \in DOMAIN ring : ring[i] \in Nat BY DEF RingOK
      <4> QED BY <1>2, <4>1 DEF Numbered
    <3> QED BY <1>1, <1>2, <1>4, <2>0, <2>1, <2>4, <2>5, <3>1, <3>2 DEF Numbered
  <2>8. Ordered'
    <3>1. cnt' = 0 /\ DOMAIN ring' = {}
      <4>1. cnt = 0 /\ DOMAIN ring = 1..cnt BY <1>4, Places DEF Ordered
      <4> QED BY <2>0, <4>1
    <3>2. Increasing(ring') /\ \A i \in DOMAIN ring' : ring'[i] > last'
      BY <3>1 DEF Increasing
    <3> QED BY <1>1, <1>4, <2>1, <2>4, <2>5, <3>1, <3>2 DEF Ordered
  <2>9. Alone' BY <1>1, <1>2, <1>4, <2>1, <2>2, <2>4, <2>5 DEF Alone
  <2>10. Clean'
    <3> SUFFICES ASSUME NEW u \in Users, clean[u]
                 PROVE  /\ pc[u] \in InCall \union Filled => OwnTransfer(u)'
                        /\ pc[u] = "out" => Told(u)'
      BY <1>1 DEF Clean
    <3>1. CASE u = target
      <4>1. /\ pc[u] \in InCall /\ Len(buffer[u]) + need = want[u]
            /\ Len(buffer[u]) \in Nat /\ Len(buffer'[u]) = Len(buffer[u]) + 1
        BY <1>4, <2>2, <2>4, <3>1 DEF Alone
      <4>2. OwnTransfer(u) BY <4>1 DEF Clean
      <4>3. Len(buffer'[u]) + need' = want[u] BY <1>2, <1>4, <4>1
      <4>4. pc[u] \notin Filled /\ pc[u] # "out" BY <4>1 DEF InCall, Filled
      <4> QED BY <1>1, <1>4, <4>2, <4>3, <4>4 DEF OwnTransfer
    <3>2. CASE u # target
      <4>1. pc[u] \notin InCall \union Filled
        BY <1>4, <3>2 DEF Clean, OwnTransfer
      <4> QED BY <1>1, <1>4, <2>5, <3>2, <4>1 DEF Clean, Told
    <3> QED BY <3>1, <3>2
  <2> QED BY <2>0, <2>6, <2>7, <2>8, <2>9, <2>10
<1>5. CASE need = 0 /\ RingMayTake /\ Insert(n) /\ UNCHANGED <<buffer, need, last, rx>>
  <2>0. /\ slots' \in [Slots -> 0..MaxBytes] /\ head' \in Slots
        /\ tail' \in Slots \union {0} /\ cnt' \in 0..BufSize
        /\ RingOK' /\ ring' = Append(ring, n)
    BY <1>2, <1>5, Inserted
  <2>1. /\ ring \in Seq(1..MaxBytes) /\ Increasing(ring)
        /\ \A i \in DOMAIN ring : ring[i] < n
    <3>1. \A i \in DOMAIN ring : ring[i] \in Nat BY DEF RingOK
    <3> QED BY <1>2, <3>1 DEF RingOK, Ordered, Numbered
  <2>2. /\ ring' \in Seq(1..MaxBytes) /\ Len(ring') = Len(ring) + 1 /\ Increasing(ring')
        /\ \A i \in DOMAIN ring' : ring'[i] <= n
        /\ \A i \in DOMAIN ring' : ring'[i] = n \/ \E j \in DOMAIN ring : ring'[i] = ring[j]
    BY <1>2, <2>0, <2>1, ByteAppended
  <2>3. TypeOK'
    <3>2. arrived' \in 0..MaxBytes BY <1>1, <1>2
    <3> QED BY <1>1, <1>5, <2>0, <3>2 DEF TypeOK
  <2>4. Numbered'
    <3>1. \A u \in Users : \A i \in DOMAIN buffer[u] : buffer[u][i] <= n
      <4>1. \A u \in Users : \A i \in DOMAIN buffer[u] : buffer[u][i] \in Nat BY DEF TypeOK
      <4> QED BY <1>2, <4>1 DEF Numbered
    <3> QED BY <1>1, <1>3, <1>2, <1>5, <2>2, <3>1 DEF Numbered
  <2>5. Ordered' BY <1>3, <1>5, <2>2 DEF Ordered
  <2>6. Alone' BY <1>1, <1>5 DEF Alone
  <2>7. Clean' BY <1>1, <1>5 DEF Clean, OwnTransfer, Told
  <2> QED BY <2>0, <2>3, <2>4, <2>5, <2>6, <2>7
<1>6. CASE need = 0 /\ UNCHANGED <<buffer, need, last, rx, store>>
  <2>0. RingOK' /\ ring' = ring /\ cnt' = cnt BY <1>6, RingKept
  <2>1. TypeOK'
    <3>1. arrived' \in 0..MaxBytes BY <1>1, <1>2
    <3> QED BY <1>1, <1>6, <3>1 DEF TypeOK, store
  <2>2. Numbered'
    <3>1. /\ \A u \in Users : \A i \in DOMAIN buffer[u] : buffer[u][i] \in Nat
          /\ \A i \in DOMAIN ring : ring[i] \in Nat
      <4>1. \A u \in Users : buffer[u] \in Seq(1..MaxBytes) BY DEF TypeOK
      <4>2. ring \in Seq(1..MaxBytes) BY DEF RingOK
      <4> QED BY <4>1, <4>2
    <3>2. \A u \in Users : \A i \in DOMAIN buffer[u] : buffer[u][i] <= n
      BY <1>2, <3>1 DEF Numbered
    <3>3. \A i \in DOMAIN ring : ring[i] <= n BY <1>2, <3>1 DEF Numbered
    <3> QED BY <1>1, <1>2, <1>3, <1>6, <2>0, <3>2, <3>3 DEF Numbered
  <2>3. Ordered' BY <1>1, <1>6, <2>0 DEF Ordered
  <2>4. Alone' BY <1>1, <1>6 DEF Alone
  <2>5. Clean' BY <1>1, <1>6 DEF Clean, OwnTransfer, Told
  <2> QED BY <2>0, <2>1, <2>2, <2>3, <2>4, <2>5
<1> QED BY <1>4, <1>5, <1>6 DEF RxByte, n

(* The end of MUX_PortReceiveCallback: what it does to the event bit, to   *)
(* the callback and to rxState it does to a transfer that has its bytes.   *)
LEMMA RxSetIInv == ASSUME IInv, RxSet PROVE IInv'
<1> USE DEF IInv
<1>1. /\ rx = "set" /\ rx' = "call" /\ event' \in BOOLEAN
      /\ pc' = [u \in Users |-> IF pc[u] = "wait" THEN "woken" ELSE pc[u]]
      /\ UNCHANGED <<transfer, store, want, buffer, ret, arrived, history>>
  BY DEF RxSet
<1>2. TypeOK'
  <2>1. pc' \in [Users -> Pc] BY <1>1 DEF TypeOK, Pc, InCall
  <2>2. rx' \in RxPc BY <1>1 DEF RxPc
  <2> QED BY <1>1, <2>1, <2>2 DEF TypeOK, store, transfer, history
<1>3. RingOK' /\ Numbered' /\ Ordered' BY <1>1, BytesKept DEF TypeOK, transfer, history
<1>4. Alone' BY <1>1 DEF Alone, transfer, history
<1>5. Clean'
  <2> SUFFICES ASSUME NEW u \in Users, clean[u]
               PROVE  /\ pc'[u] \in InCall \union Filled => OwnTransfer(u)'
                      /\ pc'[u] = "out" => Told(u)'
    BY <1>1 DEF Clean, history
  <2>1. pc'[u] = IF pc[u] = "wait" THEN "woken" ELSE pc[u] BY <1>1
  <2>2. CASE pc'[u] \in InCall \union Filled
    <3>1. pc[u] \in InCall \union Filled BY <2>1, <2>2 DEF InCall
    <3>2. OwnTransfer(u) BY <3>1 DEF Clean
    <3>3. pc[u] \notin Filled BY <1>1, <3>2 DEF OwnTransfer
    <3>4. target = u /\ need = 0
      <4>1. target = u BY <3>1, <3>2, <3>3 DEF OwnTransfer
      <4>2. ~ (need > 0) BY <1>1, <4>1 DEF Alone
      <4> QED BY <4>1, <4>2 DEF TypeOK
    <3>5. pc'[u] \notin Filled BY <2>1, <3>3 DEF Filled
    <3>6. \A v \in Users \ {u} : pc'[v] \in {"out"} \union Before
      BY <1>1, <3>2 DEF OwnTransfer, Before
    <3>7. pc'[u] \in Waiting => pc[u] \in Waiting BY <2>1 DEF Waiting
    <3>8. pc'[u] = "ongoing" => pc[u] = "ongoing" BY <2>1
    <3>9. OwnTransfer(u)'
      BY <1>1, <3>1, <3>2, <3>3, <3>4, <3>5, <3>6, <3>7, <3>8 DEF OwnTransfer, transfer
    <3> QED BY <2>2, <3>9 DEF InCall, Filled
  <2>3. CASE pc'[u] = "out"
    BY <1>1, <2>1, <2>3 DEF Clean, Told, InCall, Filled, transfer
  <2> QED BY <2>2, <2>3
<1> QED BY <1>2, <1>3, <1>4, <1>5

(* The receive task calls the callback. *)
LEMMA RxCallIInv == ASSUME IInv, RxCall PROVE IInv'
<1> USE DEF IInv
<1>1. rx = "call" /\ UNCHANGED <<transfer, event, store, want, buffer, arrived, history>>
  BY DEF RxCall
<1>2. RingOK' /\ Numbered' /\ Ordered' BY <1>1, BytesKept DEF TypeOK, transfer, history
<1>3. ASSUME rx' # "next" PROVE Alone' BY <1>1 DEF Alone, transfer, history
<1>4. CASE doneCb = NoUser /\ rx' = "idle" /\ UNCHANGED <<ret, pc>>
  <2>1. TypeOK' BY <1>1, <1>4 DEF TypeOK, store, transfer, history, RxPc
  <2>2. Alone' BY <1>1, <1>4 DEF Alone, transfer, history
  <2>3. Clean'
    <3> SUFFICES ASSUME NEW u \in Users, clean[u]
                 PROVE  /\ pc[u] \in InCall \union Filled => OwnTransfer(u)'
                        /\ pc[u] = "out" => Told(u)'
      BY <1>1, <1>4 DEF Clean, history
    <3>1. pc[u] \in InCall \union Filled => OwnTransfer(u)'
      BY <1>1, <1>4, EmuxAssumption DEF Clean, OwnTransfer, transfer
    <3>2. pc[u] = "out" => Told(u)' BY <1>1, <1>4 DEF Clean, Told, transfer
    <3> QED BY <3>1, <3>2
  <2> QED BY <1>2, <2>1, <2>2, <2>3
<1>5. CASE doneCb # NoUser /\ rx' = "clear" /\ Notified(doneCb)
  <2>1. doneCb \in Users BY <1>5 DEF TypeOK
  <2>2. /\ ret' = [ret EXCEPT ![doneCb] = "Success"]
        /\ pc' = [pc EXCEPT ![doneCb] = IF pc[doneCb] = "ongoing" THEN "out" ELSE pc[doneCb]]
    BY <1>5, <2>1 DEF Notified
  <2>3. /\ ret'[doneCb] = "Success"
        /\ pc'[doneCb] = IF pc[doneCb] = "ongoing" THEN "out" ELSE pc[doneCb]
        /\ \A v \in Users \ {doneCb} : ret'[v] = ret[v] /\ pc'[v] = pc[v]
    BY <2>1, <2>2 DEF TypeOK
  <2>4. TypeOK'
    <3>1. pc[doneCb] \in Pc /\ "out" \in Pc BY <2>1 DEF TypeOK, Pc
    <3>2. pc' \in [Users -> Pc] BY <2>2, <3>1 DEF TypeOK
    <3>3. ret' \in [Users -> {"none", "Success", "Timeout"}] BY <2>2 DEF TypeOK
    <3>4. rx' \in RxPc BY <1>5 DEF RxPc
    <3> QED BY <1>1, <3>2, <3>3, <3>4 DEF TypeOK, store, transfer, history
  <2>5. Alone' BY <1>1, <1>5 DEF Alone, transfer, history
  <2>6. Clean'
    <3> SUFFICES ASSUME NEW u \in Users, clean[u]
                 PROVE  /\ pc'[u] \in InCall \union Filled => OwnTransfer(u)'
                        /\ pc'[u] = "out" => Told(u)'
      BY <1>1 DEF Clean, history
    <3>1. CASE pc[u] \in InCall \union Filled
      <4>1. OwnTransfer(u) BY <3>1 DEF Clean
      <4>2. pc[u] \in InCall BY <1>1, <3>1, <4>1 DEF OwnTransfer
      <4>3. pc[u] = "ongoing" \/ pc[u] \in Waiting BY <4>2 DEF InCall, Waiting
      <4>4. CASE pc[u] = "ongoing"
        <5>1. doneCb = u /\ target = u /\ Len(buffer[u]) + need = want[u]
          BY <4>1, <4>2, <4>4 DEF OwnTransfer
        <5>2. need = 0 /\ Len(buffer[u]) \in Nat
          <6>1. ~ (need > 0) BY <1>1, <5>1 DEF Alone
          <6> QED BY <6>1 DEF TypeOK
        <5>3. Len(buffer[u]) = want[u] BY <5>1, <5>2
        <5>4. pc'[u] = "out" /\ ret'[u] = "Success" BY <2>3, <4>4, <5>1
        <5> QED BY <1>1, <5>3, <5>4 DEF Told, InCall, Filled, transfer
      <4>5. CASE pc[u] \in Waiting BY <1>5, <4>1, <4>5 DEF OwnTransfer
      <4> QED BY <4>3, <4>4, <4>5
    <3>2. CASE pc[u] \notin InCall \union Filled
      <4>1. pc'[u] = pc[u] BY <2>3, <3>2 DEF InCall
      <4>2. pc[u] = "out" => Told(u)'
        <5> SUFFICES ASSUME pc[u] = "out" PROVE Told(u)' OBVIOUS
        <5>1. Told(u) BY DEF Clean
        <5>2. ret'[u] = ret[u] BY <2>3, <5>1 DEF Told
        <5> QED BY <1>1, <5>1, <5>2 DEF Told, transfer
      <4> QED BY <3>2, <4>1, <4>2
    <3> QED BY <3>1, <3>2
  <2> QED BY <1>2, <2>4, <2>5, <2>6
<1> QED BY <1>4, <1>5 DEF RxCall

(* The receive task clears what it has served, and ends. *)
LEMMA RxEndIInv == ASSUME IInv, RxClear \/ RxIdle PROVE IInv'
<1> USE DEF IInv
<1>1. /\ rx \in {"clear", "idle"} /\ rx' \in {"idle", "next"} /\ (rx = "clear" => rx' = "idle")
      /\ \/ doneCb' = NoUser /\ busy' = busy
         \/ doneCb' = doneCb /\ busy' = FALSE
      /\ UNCHANGED <<target, need, event, store, users, arrived, history>>
  BY DEF RxClear, RxIdle
<1>2. TypeOK' BY <1>1 DEF TypeOK, store, RxPc, users, history
<1>3. RingOK' /\ Numbered' /\ Ordered' BY <1>1, BytesKept DEF TypeOK, users, history
<1>4. Alone' BY <1>1 DEF Alone, users, history
<1>5. Clean'
  <2> SUFFICES ASSUME NEW u \in Users, clean[u]
               PROVE  /\ pc[u] \in InCall \union Filled => OwnTransfer(u)'
                      /\ pc[u] = "out" => Told(u)'
    BY <1>1 DEF Clean, users, history
  <2>1. ASSUME pc[u] \in InCall \union Filled PROVE OwnTransfer(u)'
    <3>1. OwnTransfer(u) BY <2>1 DEF Clean
    <3>2. pc[u] \notin Filled /\ pc[u] # "ongoing" BY <1>1, <3>1 DEF OwnTransfer
    <3> QED BY <1>1, <3>1, <3>2 DEF OwnTransfer, users
  <2>2. ASSUME pc[u] = "out" PROVE Told(u)'
    BY <1>1, <2>2, EmuxAssumption DEF Clean, Told, users
  <2> QED BY <2>1, <2>2
<1> QED BY <1>2, <1>3, <1>4, <1>5

(* A call begins, while nobody has the port. *)
LEMMA BeginIInv == ASSUME IInv, NEW u \in Users, Begin(u) PROVE IInv'
<1> USE DEF IInv
<1>1. PICK k \in Before, m \in 1..MaxLen :
        /\ pc[u] = "out" /\ ~ busy
        /\ want' = [want EXCEPT ![u] = m] /\ pc' = [pc EXCEPT ![u] = k]
        /\ buffer' = [buffer EXCEPT ![u] = <<>>] /\ ret' = [ret EXCEPT ![u] = "none"]
        /\ calls' = calls + 1 /\ calls < MaxCalls
        /\ UNCHANGED <<transfer, event, store, rx, arrived, last, clean>>
  BY DEF Begin, Before
<1>2. /\ pc'[u] = k /\ buffer'[u] = <<>>
      /\ \A v \in Users \ {u} : /\ pc'[v] = pc[v] /\ want'[v] = want[v]
                                /\ buffer'[v] = buffer[v] /\ ret'[v] = ret[v]
  BY <1>1 DEF TypeOK
<1>3. TypeOK'
  <2>1. pc' \in [Users -> Pc] BY <1>1 DEF TypeOK, Pc, Before
  <2>2. buffer' \in [Users -> Seq(1..MaxBytes)]
    <3>1. <<>> \in Seq(1..MaxBytes) OBVIOUS
    <3> QED BY <1>1, <3>1 DEF TypeOK
  <2>3. want' \in [Users -> 0..MaxLen] /\ ret' \in [Users -> {"none", "Success", "Timeout"}]
    <3>1. m \in 0..MaxLen OBVIOUS
    <3> QED BY <1>1, <3>1 DEF TypeOK
  <2>4. calls' \in 0..MaxCalls BY <1>1, EmuxAssumption DEF TypeOK
  <2> QED BY <1>1, <2>1, <2>2, <2>3, <2>4 DEF TypeOK, store, transfer
<1>8. RingOK' /\ ring' = ring /\ cnt' = cnt BY <1>1, RingKept
<1>4. Numbered' BY <1>1, <1>2, <1>8 DEF Numbered
<1>5. Ordered' BY <1>1, <1>2, <1>8 DEF Ordered, Increasing, transfer
<1>6. Alone' BY <1>1 DEF Alone, transfer
<1>7. Clean'
  <2> SUFFICES ASSUME NEW w \in Users, clean[w]
               PROVE  /\ pc'[w] \in InCall \union Filled => OwnTransfer(w)'
                      /\ pc'[w] = "out" => Told(w)'
    BY <1>1 DEF Clean
  <2>1. CASE w = u BY <1>2, <2>1 DEF Before, InCall, Filled
  <2>2. CASE w # u
    <3>1. pc'[w] \in InCall \union Filled => OwnTransfer(w)'
      BY <1>1, <1>2, <2>2 DEF Clean, OwnTransfer, transfer
    <3>2. pc'[w] = "out" => Told(w)' BY <1>1, <1>2, <2>2 DEF Clean, Told, transfer
    <3> QED BY <3>1, <3>2
  <2> QED BY <2>1, <2>2
<1> QED BY <1>3, <1>4, <1>5, <1>6, <1>7, <1>8

(* What is missing of a transfer of w bytes when d have been drained. *)
LEMMA Missing ==
  ASSUME NEW n \in Nat, NEW w \in 0..n, NEW d \in 0..w
  PROVE  /\ w - d \in 0..n /\ (w - d > 0 => d < w)
         /\ d + (w - d) = w /\ (w - d = 0 => d = w)
  OBVIOUS

(* A transfer takes the port, and what it can from the ring. *)
LEMMA TakesPortIInv ==
  ASSUME IInv, NEW u \in Users, NonBlock(u) \/ Timed(u) PROVE IInv'
<1> USE EmuxAssumption DEF IInv
<1> DEFINE d == Drained(u)
<1>1. /\ Drain(u) /\ TakesPort(u) /\ pc[u] \in Before
      /\ UNCHANGED <<event, rx, want, arrived, calls>>
  BY DEF NonBlock, Timed, Before
<1>2. /\ d \in 0..want[u] /\ want[u] \in 0..MaxLen
      /\ buffer' \in [Users -> Seq(1..MaxBytes)] /\ Len(buffer'[u]) = d
      /\ \A v \in Users \ {u} : buffer'[v] = buffer[v]
      /\ slots' \in [Slots -> 0..MaxBytes] /\ head' \in Slots \union {-1}
      /\ tail' \in Slots \union {0} /\ cnt' \in 0..BufSize /\ RingOK'
      /\ last' \in 0..MaxBytes /\ last' <= arrived
      /\ d < want[u] => cnt' = 0
      /\ Increasing(buffer'[u]) /\ Increasing(ring')
      /\ \A i \in DOMAIN ring' : ring'[i] > last' /\ ring'[i] <= arrived
      /\ \A i \in DOMAIN buffer'[u] : buffer'[u][i] <= arrived
  BY <1>1, Drains DEF TypeOK
<1> HIDE DEF d
<1>3. /\ clean' \in [Users -> BOOLEAN]
      /\ clean'[u] => /\ \A v \in Users \ {u} : pc[v] = "out"
                      /\ ~ event /\ rx = "next" /\ ret[u] = "none"
                      /\ pc[u] = "timed" => doneCb = NoUser
      /\ \A v \in Users \ {u} : clean'[v] => clean[v] /\ pc[v] = "out"
  <2>1. Others(u) = {v \in Users \ {u} : pc[v] # "out"} BY DEF Others
  <2>2. clean' = [v \in Users |->
                   IF v = u THEN Others(u) = {} /\ ~event /\ rx = "next" /\ ret[u] = "none"
                                 /\ (pc[u] = "timed" => doneCb = NoUser)
                   ELSE clean[v] /\ v \notin Others(u)]
    BY <1>1 DEF TakesPort
  <2>3. event \in BOOLEAN /\ \A v \in Users : clean[v] \in BOOLEAN BY DEF TypeOK
  <2>4. (Others(u) = {} /\ ~event /\ rx = "next" /\ ret[u] = "none"
          /\ (pc[u] = "timed" => doneCb = NoUser)) \in BOOLEAN
    OBVIOUS
  <2>5. \A v \in Users : (clean[v] /\ v \notin Others(u)) \in BOOLEAN BY <2>3
  <2>6. clean' \in [Users -> BOOLEAN] BY <2>2, <2>4, <2>5, Zenon
  <2>7. clean'[u] <=> (Others(u) = {} /\ ~event /\ rx = "next" /\ ret[u] = "none"
                       /\ (pc[u] = "timed" => doneCb = NoUser))
    BY <2>2, Zenon
  <2>8. \A v \in Users \ {u} : clean'[v] <=> clean[v] /\ v \notin Others(u)
    BY <2>2, Zenon
  <2> HIDE DEF Others
  <2> QED BY <2>1, <2>6, <2>7, <2>8
<1>4. /\ target' \in Users \union {NoUser} /\ need' = want[u] - d
      /\ need' > 0 => target' = u /\ busy' = TRUE
      /\ busy' \in BOOLEAN
      /\ \/ doneCb' = u /\ pc[u] = "nonblock" /\ ret' = ret
            /\ pc' = [pc EXCEPT ![u] = IF need' = 0 THEN "complete" ELSE "ongoing"]
            /\ target' = u
         \/ doneCb' = doneCb /\ pc[u] = "timed" /\ need' > 0 /\ ret' = ret
            /\ pc' = [pc EXCEPT ![u] = "await"]
         \/ doneCb' = doneCb /\ pc[u] = "timed" /\ need' = 0
            /\ ret' = [ret EXCEPT ![u] = "Success"] /\ pc' = [pc EXCEPT ![u] = "out"]
  <2>1. CASE NonBlock(u)
    <3>1. /\ target' = u /\ doneCb' = u /\ busy' = TRUE /\ need' = want[u] - d
          /\ pc[u] = "nonblock" /\ UNCHANGED ret
          /\ pc' = [pc EXCEPT ![u] = IF need' = 0 THEN "complete" ELSE "ongoing"]
      BY <2>1 DEF NonBlock, d
    <3> QED BY <3>1
  <2>2. CASE Timed(u)
    <3>1. d < want[u] => want[u] - d > 0 BY <1>2
    <3>2. d = want[u] => want[u] - d = 0 BY <1>2
    <3>3. pc[u] = "timed" /\ UNCHANGED doneCb BY <2>2 DEF Timed
    <3>4. CASE /\ d < want[u]
               /\ target' = u /\ need' = want[u] - d /\ busy' = TRUE
               /\ pc' = [pc EXCEPT ![u] = "await"] /\ UNCHANGED ret
      BY <3>1, <3>3, <3>4
    <3>5. CASE /\ d = want[u]
               /\ target' = NoUser /\ need' = 0 /\ busy' = FALSE
               /\ pc' = [pc EXCEPT ![u] = "out"] /\ ret' = [ret EXCEPT ![u] = "Success"]
      <4>1. NoUser \in Users \union {NoUser} /\ FALSE \in BOOLEAN /\ need' = want[u] - d
        BY <3>2, <3>5
      <4>2. ~ (need' > 0) BY <3>5
      <4> QED BY <3>3, <3>5, <4>1, <4>2
    <3> QED BY <2>2, <3>4, <3>5 DEF Timed, d
  <2> QED BY <2>1, <2>2
<1>5. /\ pc'[u] \in {"complete", "ongoing", "await", "out"}
      /\ \A v \in Users \ {u} : pc'[v] = pc[v] /\ ret'[v] = ret[v]
      /\ pc' \in [Users -> Pc] /\ ret' \in [Users -> {"none", "Success", "Timeout"}]
  <2>1. \A x \in {"complete", "ongoing", "await", "out"} : x \in Pc BY DEF Pc, InCall
  <2>2. pc \in [Users -> Pc] /\ ret \in [Users -> {"none", "Success", "Timeout"}] BY DEF TypeOK
  <2> HIDE DEF IInv
  <2>3. \E x \in {"complete", "ongoing", "await", "out"} : pc' = [pc EXCEPT ![u] = x]
    BY <1>4
  <2>4. ret' = ret \/ ret' = [ret EXCEPT ![u] = "Success"] BY <1>4
  <2> QED BY <2>1, <2>2, <2>3, <2>4
<1>6. need' \in 0..MaxLen /\ (need' > 0 => d < want[u]) /\ Len(buffer'[u]) + need' = want[u]
      /\ (need' = 0 => d = want[u])
  <2>1. need' = want[u] - d /\ d \in 0..want[u] /\ want[u] \in 0..MaxLen /\ Len(buffer'[u]) = d
        /\ MaxLen \in Nat
    BY <1>2, <1>4
  <2> HIDE DEF IInv
  <2> HIDE EmuxAssumption
  <2>2. /\ want[u] - d \in 0..MaxLen /\ (want[u] - d > 0 => d < want[u])
        /\ d + (want[u] - d) = want[u] /\ (want[u] - d = 0 => d = want[u])
    BY <2>1, Missing, ZenonT(30)
  <2> QED BY <2>1, <2>2, Zenon
<1>7. TypeOK'
  <2>1. doneCb' \in Users \union {NoUser} BY <1>4 DEF TypeOK
  <2> QED BY <1>1, <1>2, <1>3, <1>4, <1>5, <1>6, <2>1 DEF TypeOK
<1>8. Numbered' BY <1>1, <1>2 DEF Numbered
<1>9. Ordered'
  <2>1. \A v \in Users : Increasing(buffer'[v]) BY <1>2 DEF Ordered
  <2> QED BY <1>2, <1>4, <1>6, <2>1 DEF Ordered, Increasing
<1>10. ASSUME need' > 0 PROVE pc'[u] \in {"ongoing", "await"} /\ target' = u /\ busy' = TRUE
  BY <1>4, <1>10 DEF TypeOK
<1>11. Alone'
  <2> SUFFICES ASSUME need' > 0, clean'[u]
               PROVE  /\ pc'[u] \in InCall /\ rx' = "next"
                      /\ \A v \in Users \ {u} : pc'[v] = "out"
    BY <1>1, <1>6, <1>10 DEF Alone
  <2> QED BY <1>1, <1>3, <1>5, <1>10 DEF InCall
<1>12. Clean'
  <2> SUFFICES ASSUME NEW w \in Users, clean'[w]
               PROVE  /\ pc'[w] \in InCall \union Filled => OwnTransfer(w)'
                      /\ pc'[w] = "out" => Told(w)'
    BY DEF Clean
  <2>1. CASE w # u
    <3>1. clean[w] /\ pc[w] = "out" /\ pc'[w] = "out" /\ Told(w) /\ doneCb' \in {doneCb, u}
      BY <1>3, <1>4, <1>5, <2>1 DEF Clean
    <3>2. Told(w)' BY <1>1, <1>2, <1>5, <2>1, <3>1 DEF Told
    <3> QED BY <3>1, <3>2 DEF InCall, Filled
  <2>2. CASE w = u
    <3>1. /\ \A v \in Users \ {u} : pc'[v] \in {"out"} \union Before
          /\ ~ event /\ rx = "next" /\ event' = event /\ rx' = rx /\ want'[u] = want[u]
          /\ pc[u] = "timed" => doneCb = NoUser
      BY <1>1, <1>3, <1>5, <2>2
    <3>2. CASE pc'[u] = "complete"
      <4>1. need' = 0 /\ doneCb' = u BY <1>4, <3>2 DEF TypeOK
      <4>2. Len(buffer'[u]) = want[u] BY <1>2, <1>6, <4>1
      <4> QED BY <2>2, <3>1, <3>2, <4>1, <4>2 DEF OwnTransfer, InCall, Filled, Waiting
    <3>3. CASE pc'[u] = "ongoing"
      <4>1. need' # 0 /\ doneCb' = u /\ target' = u BY <1>4, <3>3 DEF TypeOK
      <4> QED BY <1>6, <2>2, <3>1, <3>3, <4>1 DEF OwnTransfer, InCall, Filled, Waiting
    <3>4. CASE pc'[u] = "await"
      <4>1. need' > 0 /\ doneCb' = NoUser /\ target' = u BY <1>4, <3>1, <3>4 DEF TypeOK
      <4> QED BY <1>6, <2>2, <3>1, <3>4, <4>1 DEF OwnTransfer, InCall, Filled, Waiting
    <3>5. CASE pc'[u] = "out"
      <4>1. need' = 0 /\ ret'[u] = "Success" BY <1>4, <3>5 DEF TypeOK
      <4>2. Len(buffer'[u]) = want[u] BY <1>2, <1>6, <4>1
      <4> QED BY <2>2, <3>1, <3>5, <4>1, <4>2 DEF Told, InCall, Filled
    <3> QED BY <1>5, <3>2, <3>3, <3>4, <3>5
  <2> QED BY <2>1, <2>2
<1> QED BY <1>2, <1>7, <1>8, <1>9, <1>11, <1>12

(* A transfer that was filled from the ring ends. *)
LEMMA FilledIInv ==
  ASSUME IInv, NEW u \in Users, NonBlockIdle(u) \/ NonBlockNotify(u) PROVE IInv'
<1> USE DEF IInv
<1>1. /\ pc[u] \in Filled
      /\ UNCHANGED <<target, need, doneCb, event, store, rx, want, buffer, arrived, history>>
  BY DEF NonBlockIdle, NonBlockNotify, Filled, transfer
<1>2. ~ (need > 0 /\ clean[target])
  BY <1>1 DEF Alone, Filled, InCall, Ordered
<1>3. \A w \in Users \ {u} : clean[w] => pc[w] \in {"out"} \union Before
  BY <1>1 DEF Clean, OwnTransfer, Filled, Before, InCall, TypeOK, Pc
<1>4. RingOK' /\ Numbered' /\ Ordered' BY <1>1, BytesKept DEF TypeOK, history
<1>5. Alone' BY <1>1, <1>2 DEF Alone, history
<1>6. clean[u] => OwnTransfer(u) BY <1>1 DEF Clean
<1>7. CASE NonBlockIdle(u)
  <2>1. /\ busy' = FALSE /\ pc' = [pc EXCEPT ![u] = "notify"] /\ UNCHANGED ret
        /\ pc'[u] = "notify" /\ \A v \in Users \ {u} : pc'[v] = pc[v]
    BY <1>7 DEF NonBlockIdle, TypeOK
  <2>2. TypeOK'
    <3>1. pc' \in [Users -> Pc] BY <2>1 DEF TypeOK, Pc
    <3> QED BY <1>1, <2>1, <3>1 DEF TypeOK, store, history
  <2>3. Clean'
    <3> SUFFICES ASSUME NEW w \in Users, clean[w]
                 PROVE  /\ pc'[w] \in InCall \union Filled => OwnTransfer(w)'
                        /\ pc'[w] = "out" => Told(w)'
      BY <1>1 DEF Clean, history
    <3>1. CASE w = u
      BY <1>1, <1>6, <2>1, <3>1 DEF OwnTransfer, Filled, InCall, Waiting
    <3>2. CASE w # u
      BY <1>1, <1>3, <2>1, <3>2 DEF Clean, Told, Filled, InCall, Before
    <3> QED BY <3>1, <3>2
  <2> QED BY <1>4, <1>5, <2>2, <2>3
<1>8. CASE NonBlockNotify(u)
  <2>1. /\ pc' = [pc EXCEPT ![u] = "out",
                           ![doneCb] = IF doneCb # u /\ pc[doneCb] = "ongoing"
                                       THEN "out" ELSE @]
        /\ ret' = [ret EXCEPT ![u] = "Success", ![doneCb] = "Success"]
        /\ busy' = busy
    BY <1>8 DEF NonBlockNotify, transfer
  <2>2. /\ pc'[u] = "out" /\ ret'[u] = "Success"
        /\ \A v \in Users \ {u} : pc'[v] = IF v = doneCb /\ pc[v] = "ongoing" THEN "out" ELSE pc[v]
        /\ \A v \in Users \ {u} : ret'[v] = IF v = doneCb THEN "Success" ELSE ret[v]
    BY <2>1 DEF TypeOK
  <2>3. TypeOK'
    <3>1. pc' \in [Users -> Pc]
      <4>1. \A v \in Users : pc'[v] \in Pc BY <2>2 DEF TypeOK, Pc
      <4>2. pc' = [v \in Users |-> pc'[v]] BY <2>1 DEF TypeOK
      <4> QED BY <4>1, <4>2
    <3>2. ret' \in [Users -> {"none", "Success", "Timeout"}]
      <4>1. \A v \in Users : ret'[v] \in {"none", "Success", "Timeout"} BY <2>2 DEF TypeOK
      <4>2. ret' = [v \in Users |-> ret'[v]] BY <2>1 DEF TypeOK
      <4> QED BY <4>1, <4>2
    <3> QED BY <1>1, <2>1, <3>1, <3>2 DEF TypeOK, store, history
  <2>4. Clean'
    <3> SUFFICES ASSUME NEW w \in Users, clean[w]
                 PROVE  /\ pc'[w] \in InCall \union Filled => OwnTransfer(w)'
                        /\ pc'[w] = "out" => Told(w)'
      BY <1>1 DEF Clean, history
    <3>1. CASE w = u
      <4>1. Len(buffer[u]) = want[u] BY <1>1, <1>6, <3>1 DEF OwnTransfer
      <4> QED BY <1>1, <2>2, <3>1, <4>1 DEF Told, InCall, Filled
    <3>2. CASE w # u
      <4>1. pc'[w] = pc[w] /\ pc[w] \notin InCall \union Filled
        BY <1>3, <2>2, <3>2 DEF Before, InCall, Filled
      <4>2. pc[w] = "out" => Told(w)'
        BY <1>1, <2>2, <3>2 DEF Clean, Told
      <4> QED BY <4>1, <4>2
    <3> QED BY <3>1, <3>2
  <2> QED BY <1>4, <1>5, <2>3, <2>4
<1> QED BY <1>7, <1>8

(* MUX_ReceiveTimeout begins to wait, or its time is over. *)
LEMMA AwaitIInv ==
  ASSUME IInv, NEW u \in Users, Await(u) \/ Expire(u) PROVE IInv'
<1> USE DEF IInv
<1>1. /\ pc[u] \in Waiting
      /\ pc'[u] \in {"woken", "wait", "expired"}
      /\ pc' \in [Users -> Pc] /\ \A v \in Users \ {u} : pc'[v] = pc[v]
      /\ pc'[u] = "woken" => event
      /\ event' \in BOOLEAN /\ (event' => event)
      /\ UNCHANGED <<transfer, store, rx, want, buffer, ret, arrived, history>>
  <2>1. {"woken", "wait", "expired"} \subseteq Pc BY DEF Pc, InCall
  <2>2. CASE Await(u) BY <2>1, <2>2 DEF Await, Waiting, TypeOK
  <2>3. CASE Expire(u) BY <2>1, <2>3 DEF Expire, Waiting, TypeOK
  <2> QED BY <2>2, <2>3
<1>2. TypeOK' BY <1>1 DEF TypeOK, store, transfer, history
<1>3. RingOK' /\ Numbered' /\ Ordered' BY <1>1, BytesKept DEF TypeOK, transfer, history
<1>4. Alone' BY <1>1 DEF Alone, InCall, Waiting, Ordered, transfer, history
<1>5. Clean'
  <2> SUFFICES ASSUME NEW w \in Users, clean[w]
               PROVE  /\ pc'[w] \in InCall \union Filled => OwnTransfer(w)'
                      /\ pc'[w] = "out" => Told(w)'
    BY <1>1 DEF Clean, history
  <2>1. CASE w = u
    <3>1. OwnTransfer(u) BY <1>1, <2>1 DEF Clean, Waiting, InCall
    <3> QED BY <1>1, <2>1, <3>1 DEF OwnTransfer, Waiting, InCall, Filled, transfer
  <2>2. CASE w # u
    <3>1. pc[w] \notin InCall \union Filled /\ pc'[w] = pc[w]
      BY <1>1, <2>2 DEF Clean, OwnTransfer, Waiting, Before
    <3> QED BY <1>1, <3>1 DEF Clean, Told, transfer
  <2> QED BY <2>1, <2>2
<1> QED BY <1>2, <1>3, <1>4, <1>5

(* MUX_ReceiveTimeout returns. *)
LEMMA TimedEndIInv == ASSUME IInv, NEW u \in Users, TimedEnd(u) PROVE IInv'
<1> USE EmuxAssumption DEF IInv
<1>1. /\ pc[u] \in {"woken", "expired"} /\ event' = FALSE
      /\ target' = NoUser /\ need' = 0 /\ busy' = FALSE
      /\ ret' = [ret EXCEPT ![u] = IF Completed(u) THEN "Success" ELSE "Timeout"]
      /\ pc' = [pc EXCEPT ![u] = "out"]
      /\ UNCHANGED <<doneCb, store, rx, want, buffer, arrived, history>>
  BY DEF TimedEnd, ReleasePort
<1>2. /\ pc'[u] = "out" /\ \A v \in Users \ {u} : pc'[v] = pc[v] /\ ret'[v] = ret[v]
      /\ ret'[u] = IF Completed(u) THEN "Success" ELSE "Timeout"
  BY <1>1 DEF TypeOK
<1>3. TypeOK'
  <2>1. pc' \in [Users -> Pc] BY <1>1 DEF TypeOK, Pc
  <2>2. ret' \in [Users -> {"none", "Success", "Timeout"}] BY <1>1 DEF TypeOK
  <2>3. need' \in 0..MaxLen BY <1>1
  <2> QED BY <1>1, <2>1, <2>2, <2>3 DEF TypeOK, store, history
<1>4. RingOK' /\ Numbered' /\ Ordered' BY <1>1, BytesKept DEF TypeOK, history
<1>5. Alone' BY <1>1 DEF Alone
<1>6. Clean'
  <2> SUFFICES ASSUME NEW w \in Users, clean[w]
               PROVE  /\ pc'[w] \in InCall \union Filled => OwnTransfer(w)'
                      /\ pc'[w] = "out" => Told(w)'
    BY <1>1 DEF Clean, history
  <2>1. CASE w = u
    <3>1. OwnTransfer(u) BY <1>1, <2>1 DEF Clean, InCall
    <3>2. Len(buffer[u]) + need = want[u] /\ doneCb = NoUser /\ (pc[u] = "woken" => need = 0)
      BY <1>1, <3>1 DEF OwnTransfer, InCall, Waiting
    <3>3. Completed(u) <=> need = 0 BY <3>2 DEF Completed
    <3>4. need = 0 <=> Len(buffer[u]) = want[u]
      <4>1. need \in Nat /\ want[u] \in Nat /\ Len(buffer[u]) \in Nat BY DEF TypeOK
      <4> QED BY <3>2, <4>1
    <3>5. ret'[u] = "Success" <=> Len(buffer[u]) = want[u] BY <1>2, <3>3, <3>4
    <3> QED BY <1>1, <1>2, <2>1, <3>2, <3>5 DEF Told, InCall, Filled
  <2>2. CASE w # u
    <3>1. pc[w] \notin InCall \union Filled /\ pc'[w] = pc[w]
      BY <1>1, <1>2, <2>2 DEF Clean, OwnTransfer, Before
    <3> QED BY <1>1, <1>2, <2>2, <3>1 DEF Clean, Told
  <2> QED BY <2>1, <2>2
<1> QED BY <1>3, <1>4, <1>5, <1>6

(* Every step keeps the invariant. *)
LEMMA NextIInv == IInv /\ [Next]_vars => IInv'
<1> SUFFICES ASSUME IInv, [Next]_vars PROVE IInv' OBVIOUS
<1>1. CASE RxByte BY <1>1, RxByteIInv
<1>2. CASE RxTail BY <1>2, RxSetIInv, RxCallIInv, RxEndIInv DEF RxTail
<1>3. ASSUME NEW u \in Users, Begin(u) PROVE IInv' BY <1>3, BeginIInv
<1>4. ASSUME NEW u \in Users, Expire(u) PROVE IInv' BY <1>4, AwaitIInv
<1>5. ASSUME NEW u \in Users, User(u) PROVE IInv'
  BY <1>5, TakesPortIInv, FilledIInv, AwaitIInv, TimedEndIInv DEF User
<1>6. CASE UNCHANGED vars
  <2> USE <1>6 DEF vars, transfer, users, history, IInv
  <2>0. RingOK' /\ ring' = ring /\ cnt' = cnt BY RingKept
  <2>1. TypeOK' BY DEF TypeOK, store
  <2>2. Numbered' /\ Ordered' BY <2>0 DEF Numbered, Ordered
  <2>3. Alone' BY DEF Alone
  <2>4. Clean' BY DEF Clean, OwnTransfer, Told
  <2> QED BY <2>0, <2>1, <2>2, <2>3, <2>4
<1> QED BY <1>1, <1>2, <1>3, <1>4, <1>5, <1>6 DEF Next

(* The state of a port and of the transfers on it, inductively             *)
(* (emux.c:60-310). *)
THEOREM Invariant == Spec => []IInv
<1>1. Init => IInv BY InitIInv
<1>2. IInv /\ [Next]_vars => IInv' BY NextIInv
<1> QED BY <1>1, <1>2, PTL DEF Spec

(* Bytes reach the users in the order of their arrival, each once          *)
(* (emux.c:78, 95, 217-228, 269-279). *)
THEOREM BytesInOrder == Spec => []InOrder
<1>1. IInv => InOrder BY DEF IInv, Ordered, InOrder
<1> QED BY <1>1, Invariant, PTL

(* The receive task writes into the buffer of a call in progress, never    *)
(* past its end, if the transfer began clean (emux.c:79-80, 251-296). *)
THEOREM BuffersAreOwn == Spec => []OwnBuffer
<1>1. IInv => OwnBuffer BY DEF IInv, Alone, OwnBuffer
<1> QED BY <1>1, Invariant, PTL

(* Success means all the bytes and a time-out means not all, for a         *)
(* transfer that began clean (emux.c:84-91, 281-292). *)
THEOREM ResultsAreTrue == Spec => []TruthfulWhenClean
<1>1. IInv => TruthfulWhenClean BY DEF IInv, Clean, Told, TruthfulWhenClean
<1> QED BY <1>1, Invariant, PTL
=============================================================================
