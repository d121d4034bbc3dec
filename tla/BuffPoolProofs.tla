---------------------------- MODULE BuffPoolProofs ----------------------------
(***************************************************************************)
(* Proofs about BuffPool for any number of tasks, buffers and classes: the *)
(* counters, who owns a buffer, and that nobody sleeps on a free buffer    *)
(* unless tasks that could not do with the same buffers sleep together.    *)
(***************************************************************************)
EXTENDS BuffPool, FiniteSetTheorems, WellFoundedInduction, TLAPS

(* Where a task is decides whether it owns the mutex or waits for it. *)
Places ==
  \A t \in Threads :
    /\ owner = t => stage[t] # "idle" /\ t \notin waiting \cup woken
    /\ t \in waiting \cup woken => stage[t] = "alloc"
    /\ t \in waiting => t \notin woken
    /\ stage[t] \in {"put", "signal", "unlock"} => owner = t
    /\ stage[t] = "put" => buff[t] \in Buffers /\ holder[buff[t]] = t

IInv == TypeOK /\ Places /\ CountsConsistent /\ OneOwner
-----------------------------------------------------------------------------
(* Max of two numbers is the larger one. *)
LEMMA MaxPair ==
  ASSUME NEW a \in Nat, NEW b \in Nat
  PROVE  Max({a, b}) = IF a >= b THEN a ELSE b
<1> DEFINE m == IF a >= b THEN a ELSE b
<1>1. m \in {a, b} /\ \A y \in {a, b} : m >= y OBVIOUS
<1>2. \A x \in {a, b} : (\A y \in {a, b} : x >= y) => x = m OBVIOUS
<1>3. Max({a, b}) \in {a, b} /\ \A y \in {a, b} : Max({a, b}) >= y
  BY <1>1 DEF Max
<1> HIDE DEF m
<1>4. Max({a, b}) = m BY <1>2, <1>3
<1> QED BY <1>4 DEF m

(* Sets of buffers are finite. *)
LEMMA BuffersFinite ==
  ASSUME NEW S \in SUBSET Buffers, NEW c
  PROVE  /\ IsFiniteSet(S \cap OfClass(c))
         /\ Cardinality(S \cap OfClass(c)) \in Nat
         /\ Cardinality(S \cap OfClass(c)) <= Cardinality(OfClass(c))
         /\ Cardinality(OfClass(c)) \in Nat
<1>1. OfClass(c) \in SUBSET Buffers BY DEF OfClass
<1>2. IsFiniteSet(OfClass(c)) BY <1>1, BuffPoolAssumption, FS_Subset
<1>3. S \cap OfClass(c) \in SUBSET OfClass(c) OBVIOUS
<1> QED BY <1>2, <1>3, FS_Subset, FS_CardinalityType

(* A buffer that is put on, or taken from, a list counts in its own class. *)
LEMMA PutOn ==
  ASSUME NEW S \in SUBSET Buffers, NEW b \in Buffers \ S, NEW c
  PROVE  Cardinality((S \cup {b}) \cap OfClass(c))
           = Cardinality(S \cap OfClass(c)) + (IF c = SizeOf[b] THEN 1 ELSE 0)
<1>1. CASE c = SizeOf[b]
  <2>1. (S \cup {b}) \cap OfClass(c) = (S \cap OfClass(c)) \cup {b}
    BY <1>1 DEF OfClass
  <2>2. b \notin S \cap OfClass(c) OBVIOUS
  <2>3. IsFiniteSet(S \cap OfClass(c)) BY BuffersFinite
  <2>4. Cardinality((S \cap OfClass(c)) \cup {b}) = Cardinality(S \cap OfClass(c)) + 1
    BY <2>2, <2>3, FS_AddElement
  <2> QED BY <1>1, <2>1, <2>4
<1>2. CASE c # SizeOf[b]
  <2>1. (S \cup {b}) \cap OfClass(c) = S \cap OfClass(c) BY <1>2 DEF OfClass
  <2>2. Cardinality(S \cap OfClass(c)) \in Nat BY BuffersFinite
  <2> HIDE DEF OfClass
  <2>3. Cardinality((S \cup {b}) \cap OfClass(c)) = Cardinality(S \cap OfClass(c)) BY <2>1
  <2> QED BY <1>2, <2>2, <2>3
<1> QED BY <1>1, <1>2

(* What alloc takes. *)
LEMMA TakenFrom ==
  ASSUME NEW S \in SUBSET Buffers, NEW b \in S, NEW c
  PROVE  Cardinality((S \ {b}) \cap OfClass(c))
           = Cardinality(S \cap OfClass(c)) - (IF c = SizeOf[b] THEN 1 ELSE 0)
<1>1. CASE c = SizeOf[b]
  <2>1. (S \ {b}) \cap OfClass(c) = (S \cap OfClass(c)) \ {b} OBVIOUS
  <2>2. b \in S \cap OfClass(c) BY <1>1 DEF OfClass
  <2>3. IsFiniteSet(S \cap OfClass(c)) BY BuffersFinite
  <2>4. Cardinality((S \cap OfClass(c)) \ {b}) = Cardinality(S \cap OfClass(c)) - 1
    BY <2>2, <2>3, FS_RemoveElement
  <2> QED BY <1>1, <2>1, <2>4
<1>2. CASE c # SizeOf[b]
  <2>1. (S \ {b}) \cap OfClass(c) = S \cap OfClass(c) BY <1>2 DEF OfClass
  <2>2. Cardinality(S \cap OfClass(c)) \in Nat BY BuffersFinite
  <2> QED BY <1>2, <2>1, <2>2
<1> QED BY <1>1, <1>2

(* The invariant holds at the start. *)
LEMMA InitIInv == Init => IInv
<1> SUFFICES ASSUME Init PROVE IInv OBVIOUS
<1> USE BuffPoolAssumption, MonitorAssumption
<1>1. \A c : Cardinality(OfClass(c)) \in Nat BY BuffersFinite
<1>2. TypeOK
  BY <1>1 DEF Init, MonitorInit, TypeOK, MonitorTypeOK
<1>3. Places BY DEF Init, MonitorInit, Places
<1>4. CountsConsistent
  <2>1. \A c : freelist \cap OfClass(c) = OfClass(c) /\ alloclist \cap OfClass(c) = {}
    BY DEF Init, OfClass
  <2> QED BY <1>1, <2>1, FS_EmptySet DEF Init, CountsConsistent
<1>5. OneOwner BY DEF Init, OneOwner
<1> QED BY <1>2, <1>3, <1>4, <1>5 DEF IInv

(* A step that leaves the lists, the counters and the holders alone. *)
LEMMA PoolKept ==
  ASSUME CountsConsistent, OneOwner, UNCHANGED poolVars, UNCHANGED holder
  PROVE  CountsConsistent' /\ OneOwner'
  BY DEF CountsConsistent, OneOwner, poolVars

(* buffpool_getbuffer takes a buffer of the class it has chosen. *)
LEMMA TakeStep ==
  ASSUME IInv, NEW t \in Threads, AllocTake(t)
  PROVE  IInv'
<1> USE BuffPoolAssumption, MonitorAssumption DEF IInv
<1> DEFINE c == FirstFit(reqsize[t])
<1>1. PICK b \in freelist \cap OfClass(c) :
        /\ freelist' = freelist \ {b}
        /\ alloclist' = alloclist \cup {b}
        /\ holder' = [holder EXCEPT ![b] = t]
        /\ freecnt' = [freecnt EXCEPT ![c] = @ - 1]
        /\ usedcnt' = [usedcnt EXCEPT ![c] = @ + 1]
        /\ maxusedcnt' = [maxusedcnt EXCEPT ![c] = Max({@, usedcnt[c] + 1})]
  BY DEF AllocTake, TakeBuffer
<1>2. /\ stage[t] = "alloc" /\ owner = t /\ owner' = NoThread
      /\ stage' = [stage EXCEPT ![t] = "idle"]
      /\ UNCHANGED <<waiting, woken, permits, reqsize, buff>>
  BY DEF AllocTake, Release, Goto
<1> HIDE DEF c
<1>3. /\ b \in Buffers /\ SizeOf[b] = c /\ c \in Classes
      /\ b \in freelist /\ b \notin alloclist /\ holder[b] = NoThread
  <2>1. b \in Buffers /\ SizeOf[b] = c BY <1>1 DEF OfClass
  <2>2. b \in freelist /\ b \notin alloclist BY <1>1, <2>1 DEF OneOwner
  <2> QED BY <2>1, <2>2 DEF OneOwner, Classes
<1>4. /\ freelist \in SUBSET Buffers /\ alloclist \in SUBSET Buffers
      /\ freecnt \in [Classes -> Nat] /\ usedcnt \in [Classes -> Nat]
      /\ maxusedcnt \in [Classes -> Nat]
  BY DEF TypeOK
<1>5. \A d \in Classes : maxusedcnt'[d] =
        IF d = c /\ usedcnt[c] + 1 > maxusedcnt[c] THEN usedcnt[c] + 1 ELSE maxusedcnt[d]
  <2>1. usedcnt[c] + 1 \in Nat /\ maxusedcnt[c] \in Nat BY <1>3, <1>4
  <2>2. Max({maxusedcnt[c], usedcnt[c] + 1})
          = IF maxusedcnt[c] >= usedcnt[c] + 1 THEN maxusedcnt[c] ELSE usedcnt[c] + 1
    BY <2>1, MaxPair
  <2> QED BY <1>1, <1>3, <1>4, <2>1, <2>2
<1>6. CountsConsistent'
  <2> SUFFICES ASSUME NEW d \in Classes
      PROVE  /\ freecnt'[d] = Cardinality(freelist' \cap OfClass(d))
             /\ usedcnt'[d] = Cardinality(alloclist' \cap OfClass(d))
             /\ usedcnt'[d] <= maxusedcnt'[d]
             /\ maxusedcnt'[d] <= Cardinality(OfClass(d))
    BY DEF CountsConsistent
  <2>1. Cardinality(freelist' \cap OfClass(d))
          = Cardinality(freelist \cap OfClass(d)) - (IF d = c THEN 1 ELSE 0)
    BY <1>1, <1>3, <1>4, TakenFrom
  <2>2. Cardinality(alloclist' \cap OfClass(d))
          = Cardinality(alloclist \cap OfClass(d)) + (IF d = c THEN 1 ELSE 0)
    BY <1>1, <1>3, <1>4, PutOn
  <2>3. /\ freecnt[d] = Cardinality(freelist \cap OfClass(d))
        /\ usedcnt[d] = Cardinality(alloclist \cap OfClass(d))
        /\ usedcnt[d] <= maxusedcnt[d]
        /\ maxusedcnt[d] <= Cardinality(OfClass(d))
    BY DEF CountsConsistent
  <2>4. /\ freecnt'[d] = freecnt[d] - (IF d = c THEN 1 ELSE 0)
        /\ usedcnt'[d] = usedcnt[d] + (IF d = c THEN 1 ELSE 0)
    BY <1>1, <1>3, <1>4
  <2>5. Cardinality(alloclist' \cap OfClass(d)) <= Cardinality(OfClass(d))
    BY <1>1, <1>3, <1>4, BuffersFinite
  <2>6. /\ freecnt[d] \in Nat /\ usedcnt[d] \in Nat /\ maxusedcnt[d] \in Nat
        /\ Cardinality(OfClass(d)) \in Nat
    BY <1>4, BuffersFinite
  <2>7. freecnt'[d] = Cardinality(freelist' \cap OfClass(d))
    BY <2>1, <2>3, <2>4
  <2>8. usedcnt'[d] = Cardinality(alloclist' \cap OfClass(d))
    BY <2>2, <2>3, <2>4
  <2>9. usedcnt'[d] <= maxusedcnt'[d] /\ maxusedcnt'[d] <= Cardinality(OfClass(d))
    BY <1>5, <2>3, <2>4, <2>5, <2>6, <2>8
  <2> QED BY <2>7, <2>8, <2>9
<1>7. OneOwner'
  BY <1>1, <1>3, <1>4 DEF OneOwner, TypeOK
<1>8. Places'
  BY <1>1, <1>2, <1>3 DEF Places, TypeOK, MonitorTypeOK
<1>9. TypeOK'
  <2>1. freelist' \in SUBSET Buffers /\ alloclist' \in SUBSET Buffers
    BY <1>1, <1>3, <1>4
  <2>2. \A d \in Classes : freecnt'[d] \in Nat /\ usedcnt'[d] \in Nat /\ maxusedcnt'[d] \in Nat
    <3> SUFFICES ASSUME NEW d \in Classes
        PROVE  freecnt'[d] \in Nat /\ usedcnt'[d] \in Nat /\ maxusedcnt'[d] \in Nat
      OBVIOUS
    <3>1. freecnt'[d] \in Nat /\ usedcnt'[d] \in Nat
      BY <1>6, <2>1, BuffersFinite DEF CountsConsistent
    <3>2. maxusedcnt'[d] \in Nat BY <1>3, <1>4, <1>5
    <3> QED BY <3>1, <3>2
  <2>3. /\ freecnt' \in [Classes -> Nat] /\ usedcnt' \in [Classes -> Nat]
        /\ maxusedcnt' \in [Classes -> Nat]
    BY <1>1, <1>4, <2>2
  <2>4. holder' \in [Buffers -> Threads \cup {NoThread}] BY <1>1 DEF TypeOK
  <2> QED BY <1>2, <2>1, <2>3, <2>4 DEF TypeOK, MonitorTypeOK
<1> QED BY <1>6, <1>7, <1>8, <1>9

(* buffpool_free moves the buffer back to the free list. *)
LEMMA PutStep ==
  ASSUME IInv, NEW t \in Threads, FreePut(t)
  PROVE  IInv'
<1> USE BuffPoolAssumption, MonitorAssumption DEF IInv
<1> DEFINE b == buff[t]
           c == SizeOf[b]
<1>1. /\ stage[t] = "put" /\ owner = t
      /\ alloclist' = alloclist \ {b}
      /\ freelist' = freelist \cup {b}
      /\ freecnt' = [freecnt EXCEPT ![c] = @ + 1]
      /\ usedcnt' = [usedcnt EXCEPT ![c] = @ - 1]
      /\ holder' = [holder EXCEPT ![b] = NoThread]
      /\ stage' = [stage EXCEPT ![t] = "signal"]
      /\ UNCHANGED <<owner, waiting, woken, permits, maxusedcnt, reqsize, buff>>
  BY DEF FreePut, Goto, monitorVars
<1>2. b \in Buffers /\ holder[b] = t BY <1>1 DEF Places
<1>3. /\ b \in alloclist /\ b \notin freelist /\ c \in Classes
  BY <1>2 DEF OneOwner, Classes
<1> HIDE DEF b, c
<1>4. /\ freelist \in SUBSET Buffers /\ alloclist \in SUBSET Buffers
      /\ freecnt \in [Classes -> Nat] /\ usedcnt \in [Classes -> Nat]
      /\ maxusedcnt \in [Classes -> Nat]
  BY DEF TypeOK
<1>5. CountsConsistent'
  <2> SUFFICES ASSUME NEW d \in Classes
      PROVE  /\ freecnt'[d] = Cardinality(freelist' \cap OfClass(d))
             /\ usedcnt'[d] = Cardinality(alloclist' \cap OfClass(d))
             /\ usedcnt'[d] <= maxusedcnt'[d]
             /\ maxusedcnt'[d] <= Cardinality(OfClass(d))
    BY DEF CountsConsistent
  <2>1. Cardinality(alloclist' \cap OfClass(d))
          = Cardinality(alloclist \cap OfClass(d)) - (IF d = c THEN 1 ELSE 0)
    BY <1>1, <1>3, <1>4, TakenFrom DEF c
  <2>2. Cardinality(freelist' \cap OfClass(d))
          = Cardinality(freelist \cap OfClass(d)) + (IF d = c THEN 1 ELSE 0)
    BY <1>1, <1>2, <1>3, <1>4, PutOn DEF c
  <2>3. /\ freecnt[d] = Cardinality(freelist \cap OfClass(d))
        /\ usedcnt[d] = Cardinality(alloclist \cap OfClass(d))
        /\ usedcnt[d] <= maxusedcnt[d]
        /\ maxusedcnt[d] <= Cardinality(OfClass(d))
    BY DEF CountsConsistent
  <2>4. /\ freecnt'[d] = freecnt[d] + (IF d = c THEN 1 ELSE 0)
        /\ usedcnt'[d] = usedcnt[d] - (IF d = c THEN 1 ELSE 0)
        /\ maxusedcnt'[d] = maxusedcnt[d]
    BY <1>1, <1>3, <1>4
  <2>5. freecnt[d] \in Nat /\ usedcnt[d] \in Nat /\ maxusedcnt[d] \in Nat BY <1>4
  <2> QED BY <2>1, <2>2, <2>3, <2>4, <2>5
<1>6. OneOwner' BY <1>1, <1>2, <1>3, <1>4 DEF OneOwner, TypeOK
<1>7. Places' BY <1>1, <1>2 DEF Places, TypeOK, MonitorTypeOK
<1>8. TypeOK'
  <2>1. freelist' \in SUBSET Buffers /\ alloclist' \in SUBSET Buffers
    BY <1>1, <1>2, <1>4
  <2>2. \A d \in Classes : freecnt'[d] \in Nat /\ usedcnt'[d] \in Nat
    BY <1>5, <2>1, BuffersFinite DEF CountsConsistent
  <2>3. freecnt' \in [Classes -> Nat] /\ usedcnt' \in [Classes -> Nat]
    BY <1>1, <1>4, <2>2
  <2>4. holder' \in [Buffers -> Threads \cup {NoThread}] BY <1>1 DEF TypeOK
  <2> QED BY <1>1, <2>1, <2>3, <2>4 DEF TypeOK, MonitorTypeOK
<1> QED BY <1>5, <1>6, <1>7, <1>8

(* The steps of a task inside buffpool_alloc that take no buffer. *)
LEMMA AllocStep ==
  ASSUME IInv, NEW t \in Threads,
         \/ \E size \in Requests : AllocLock(t, size)
         \/ AllocWait(t) \/ AllocFail(t) \/ AllocWake(t) \/ AllocRelock(t)
  PROVE  IInv'
<1> USE BuffPoolAssumption, MonitorAssumption DEF IInv
<1>0. UNCHANGED <<poolVars, holder, buff>>
  BY DEF AllocLock, AllocWait, AllocFail, AllocWake, AllocRelock, taskVars
<1>1. CountsConsistent' /\ OneOwner' BY <1>0, PoolKept
<1>2. ASSUME NEW size \in Requests, AllocLock(t, size) PROVE IInv'
  <2>1. TypeOK'
    BY <1>0, <1>2 DEF AllocLock, Acquire, Goto, poolVars, TypeOK, MonitorTypeOK
  <2>2. /\ stage[t] = "idle" /\ stage' = [stage EXCEPT ![t] = "alloc"]
        /\ owner = NoThread /\ owner' = t /\ t \notin waiting \cup woken
        /\ UNCHANGED <<waiting, woken, holder, buff>>
    BY <1>0, <1>2 DEF AllocLock, Acquire, Outside, Goto
  <2>3. Places' BY <2>2 DEF Places, TypeOK, MonitorTypeOK
  <2> QED BY <1>1, <2>1, <2>3
<1>3. CASE AllocWait(t)
  <2>1. TypeOK'
    BY <1>0, <1>3 DEF AllocWait, Wait, taskVars, poolVars, TypeOK, MonitorTypeOK
  <2>2. /\ stage[t] = "alloc" /\ owner = t /\ owner' = NoThread
        /\ waiting' = waiting \cup {t}
        /\ UNCHANGED <<woken, stage, holder, buff>>
    BY <1>0, <1>3 DEF AllocWait, Wait, taskVars
  <2>3. Places' BY <2>2 DEF Places, TypeOK, MonitorTypeOK
  <2> QED BY <1>1, <2>1, <2>3
<1>4. CASE AllocFail(t)
  <2>1. TypeOK'
    BY <1>0, <1>4 DEF AllocFail, Release, Goto, poolVars, TypeOK, MonitorTypeOK
  <2>2. /\ stage[t] = "alloc" /\ stage' = [stage EXCEPT ![t] = "idle"]
        /\ owner = t /\ owner' = NoThread
        /\ UNCHANGED <<waiting, woken, holder, buff>>
    BY <1>0, <1>4 DEF AllocFail, Release, Goto
  <2>3. Places' BY <2>2 DEF Places, TypeOK, MonitorTypeOK
  <2> QED BY <1>1, <2>1, <2>3
<1>5. CASE AllocWake(t)
  <2>1. TypeOK'
    BY <1>0, <1>5 DEF AllocWake, Wake, taskVars, poolVars, TypeOK, MonitorTypeOK
  <2>2. /\ t \in waiting /\ waiting' = waiting \ {t} /\ woken' = woken \cup {t}
        /\ UNCHANGED <<owner, stage, holder, buff>>
    BY <1>0, <1>5 DEF AllocWake, Wake, taskVars
  <2>3. Places' BY <2>2 DEF Places, TypeOK, MonitorTypeOK
  <2> QED BY <1>1, <2>1, <2>3
<1>6. CASE AllocRelock(t)
  <2>1. TypeOK'
    BY <1>0, <1>6 DEF AllocRelock, Reacquire, taskVars, poolVars, TypeOK, MonitorTypeOK
  <2>2. /\ t \in woken /\ owner = NoThread /\ owner' = t /\ woken' = woken \ {t}
        /\ UNCHANGED <<waiting, stage, holder, buff>>
    BY <1>0, <1>6 DEF AllocRelock, Reacquire, taskVars
  <2>3. Places' BY <2>2 DEF Places, TypeOK, MonitorTypeOK
  <2> QED BY <1>1, <2>1, <2>3
<1> HIDE DEF IInv
<1> QED BY <1>2, <1>3, <1>4, <1>5, <1>6

(* The other steps of buffpool_free. *)
LEMMA FreeStep ==
  ASSUME IInv, NEW t \in Threads,
         \/ \E b \in Buffers : FreeLock(t, b)
         \/ FreeSignal(t) \/ FreeUnlock(t)
  PROVE  IInv'
<1> USE BuffPoolAssumption, MonitorAssumption DEF IInv
<1>0. UNCHANGED <<poolVars, holder, reqsize>>
  BY DEF FreeLock, FreeSignal, FreeUnlock
<1>1. CountsConsistent' /\ OneOwner' BY <1>0, PoolKept
<1>2. ASSUME NEW b \in Buffers, FreeLock(t, b) PROVE IInv'
  <2>1. TypeOK'
    BY <1>0, <1>2 DEF FreeLock, Held, Acquire, Goto, poolVars, TypeOK, MonitorTypeOK
  <2>2. /\ stage[t] = "idle" /\ stage' = [stage EXCEPT ![t] = "put"]
        /\ owner = NoThread /\ owner' = t /\ t \notin waiting \cup woken
        /\ holder[b] = t /\ buff' = [buff EXCEPT ![t] = b]
        /\ UNCHANGED <<waiting, woken, holder>>
    BY <1>0, <1>2 DEF FreeLock, Held, Acquire, Outside, Goto
  <2>3. Places' BY <2>2 DEF Places, TypeOK, MonitorTypeOK
  <2> QED BY <1>1, <2>1, <2>3
<1>3. CASE FreeSignal(t)
  <2>1. TypeOK'
    BY <1>0, <1>3 DEF FreeSignal, Notify, Goto, monitorVars, poolVars, TypeOK, MonitorTypeOK
  <2>2. /\ stage[t] = "signal" /\ stage' = [stage EXCEPT ![t] = "unlock"]
        /\ UNCHANGED <<owner, waiting, woken, holder, buff>>
    BY <1>0, <1>3 DEF FreeSignal, Notify, Goto, monitorVars
  <2>3. Places' BY <2>2 DEF Places, TypeOK, MonitorTypeOK
  <2> QED BY <1>1, <2>1, <2>3
<1>4. CASE FreeUnlock(t)
  <2>1. TypeOK'
    BY <1>0, <1>4 DEF FreeUnlock, Release, Goto, poolVars, TypeOK, MonitorTypeOK
  <2>2. /\ stage[t] = "unlock" /\ stage' = [stage EXCEPT ![t] = "idle"]
        /\ owner = t /\ owner' = NoThread /\ buff' = [buff EXCEPT ![t] = NoBuffer]
        /\ UNCHANGED <<waiting, woken, holder>>
    BY <1>0, <1>4 DEF FreeUnlock, Release, Goto
  <2>3. Places' BY <2>2 DEF Places, TypeOK, MonitorTypeOK
  <2> QED BY <1>1, <2>1, <2>3
<1> HIDE DEF IInv
<1> QED BY <1>2, <1>3, <1>4

(* The invariant is inductive. *)
LEMMA NextIInv == IInv /\ [Next]_vars => IInv'
<1> SUFFICES ASSUME IInv, [Next]_vars PROVE IInv' OBVIOUS
<1>1. CASE Next
  <2>1. PICK t \in Threads :
          \/ \E size \in Requests : AllocLock(t, size)
          \/ AllocTake(t) \/ AllocWait(t) \/ AllocFail(t)
          \/ AllocWake(t) \/ AllocRelock(t)
          \/ \E b \in Buffers : FreeLock(t, b)
          \/ FreePut(t) \/ FreeSignal(t) \/ FreeUnlock(t)
    BY <1>1 DEF Next
  <2> QED BY <2>1, TakeStep, PutStep, AllocStep, FreeStep
<1>2. CASE UNCHANGED vars
  BY <1>2 DEF vars, monitorVars, poolVars, taskVars, IInv, TypeOK, MonitorTypeOK,
              Places, CountsConsistent, OneOwner
<1> QED BY <1>1, <1>2

(* The three invariants hold together, with Places. *)
LEMMA Inductive == Spec => []IInv
  BY InitIInv, NextIInv, PTL DEF Spec

(* The pool's variables have their types: no counter goes below zero. *)
THEOREM Types == Spec => []TypeOK
<1>1. IInv => TypeOK BY DEF IInv
<1> QED BY <1>1, Inductive, PTL

(* The assertions of buffpool.c:330, 336 and 610 hold. *)
THEOREM Counts == Spec => []CountsConsistent
<1>1. IInv => CountsConsistent BY DEF IInv
<1> QED BY <1>1, Inductive, PTL

(* No buffer is in use by two tasks, or both free and in use. *)
THEOREM Ownership == Spec => []OneOwner
<1>1. IInv => OneOwner BY DEF IInv
<1> QED BY <1>1, Inductive, PTL
-----------------------------------------------------------------------------
(* Nobody sleeps on a free buffer, as long as the tasks that sleep at the  *)
(* same time could do with the same buffers.  The argument counts: unless  *)
(* every sleeper has a permit of its own, each free buffer that would do   *)
(* for them is spoken for by a permit, by a task that has woken, or by the *)
(* owner of the mutex, who has still to signal or looks for the same.      *)
Demand(t) == Fitting(reqsize[t])
SameDemand == \A t, u \in waiting \cup woken : Demand(t) = Demand(u)

Suited(t) == {b \in freelist : SizeOf[b] \in Demand(t)}

Serves(t, s) ==
  /\ owner = t
  /\ stage[t] = "signal" \/ (stage[t] = "alloc" /\ Demand(t) = Demand(s))
Credit(s) == IF \E t \in Threads : Serves(t, s) THEN 1 ELSE 0

Asks == \A t \in waiting \cup woken : Demand(t) # {}

Covered ==
  \/ Cardinality(waiting) <= permits
  \/ \A s \in waiting :
       Cardinality(Suited(s)) <= permits + Cardinality(woken) + Credit(s)

(* What the owner is doing decides the credit. *)
LEMMA CreditIs ==
  ASSUME NEW s
  PROVE  /\ Credit(s) \in {0, 1}
         /\ \A t \in Threads : Serves(t, s) => Credit(s) = 1
         /\ \A t \in Threads : owner = t /\ ~Serves(t, s) => Credit(s) = 0
         /\ owner \notin Threads => Credit(s) = 0
  BY DEF Credit, Serves

(* The sets that are counted are finite. *)
LEMMA SetsFinite ==
  ASSUME TypeOK
  PROVE  /\ IsFiniteSet(waiting) /\ Cardinality(waiting) \in Nat
         /\ IsFiniteSet(woken) /\ Cardinality(woken) \in Nat
         /\ \A s : IsFiniteSet(Suited(s)) /\ Cardinality(Suited(s)) \in Nat
         /\ permits \in Nat
<1>1. waiting \in SUBSET Threads /\ woken \in SUBSET Threads /\ permits \in Nat
  BY MonitorAssumption DEF TypeOK, MonitorTypeOK
<1>2. \A s : Suited(s) \in SUBSET Buffers BY DEF TypeOK, Suited
<1> QED BY <1>1, <1>2, BuffPoolAssumption, FS_Subset, FS_CardinalityType

(* They are finite after a step, too. *)
LEMMA SuitedFinite == ASSUME TypeOK', NEW s PROVE Cardinality(Suited(s)') \in Nat
<1>1. Suited(s)' \in SUBSET Buffers BY DEF TypeOK, Suited
<1> QED BY <1>1, BuffPoolAssumption, FS_Subset, FS_CardinalityType

(* A task that waits has found no buffer that would do. *)
LEMMA NothingSuits ==
  ASSUME TypeOK, NEW t, Available(reqsize[t]) = {}
  PROVE  Suited(t) = {}
<1> SUFFICES ASSUME NEW b \in Suited(t) PROVE FALSE OBVIOUS
<1>1. b \in Buffers /\ b \in freelist /\ SizeOf[b] \in Fitting(reqsize[t])
  BY DEF TypeOK, Suited, Demand
<1>2. SizeOf[b] \in Available(reqsize[t]) BY <1>1 DEF Available, OfClass
<1> QED BY <1>2

(* A buffer that is taken or given back counts for those it would do for. *)
LEMMA SuitedLess ==
  ASSUME TypeOK, NEW s, NEW b \in freelist, freelist' = freelist \ {b},
         Demand(s)' = Demand(s)
  PROVE  Cardinality(Suited(s)')
           = Cardinality(Suited(s)) - (IF SizeOf[b] \in Demand(s) THEN 1 ELSE 0)
<1>1. IsFiniteSet(Suited(s)) /\ Cardinality(Suited(s)) \in Nat BY SetsFinite
<1>2. CASE SizeOf[b] \in Demand(s)
  <2>1. Suited(s)' = Suited(s) \ {b} /\ b \in Suited(s) BY <1>2 DEF Suited
  <2>2. Cardinality(Suited(s) \ {b}) = Cardinality(Suited(s)) - 1
    BY <1>1, <2>1, FS_RemoveElement
  <2> QED BY <1>2, <2>1, <2>2
<1>3. CASE SizeOf[b] \notin Demand(s)
  <2>1. Suited(s)' = Suited(s) BY <1>3 DEF Suited
  <2> QED BY <1>1, <1>3, <2>1
<1> QED BY <1>2, <1>3

(* What a waiting task asks for does not change. *)
LEMMA DemandKept ==
  ASSUME IInv, Next, NEW s \in waiting \cup woken
  PROVE  Demand(s)' = Demand(s)
<1>1. PICK t \in Threads :
        \/ \E size \in Requests : AllocLock(t, size)
        \/ AllocTake(t) \/ AllocWait(t) \/ AllocFail(t)
        \/ AllocWake(t) \/ AllocRelock(t)
        \/ \E b \in Buffers : FreeLock(t, b)
        \/ FreePut(t) \/ FreeSignal(t) \/ FreeUnlock(t)
  BY DEF Next
<1>2. reqsize \in [Threads -> Requests \cup {0}] BY DEF IInv, TypeOK
<1>3. ASSUME NEW size \in Requests, AllocLock(t, size)
      PROVE  reqsize'[s] = reqsize[s]
  <2>1. s # t /\ reqsize' = [reqsize EXCEPT ![t] = size]
    BY <1>3 DEF AllocLock, Acquire, Outside
  <2> QED BY <2>1, <1>2
<1>4. ASSUME ~\E size \in Requests : AllocLock(t, size)
      PROVE  reqsize'[s] = reqsize[s]
  <2>1. UNCHANGED reqsize
    BY <1>1, <1>4 DEF AllocTake, AllocWait, AllocFail, AllocWake, AllocRelock,
                FreeLock, FreePut, FreeSignal, FreeUnlock, taskVars
  <2> QED BY <2>1
<1>5. reqsize'[s] = reqsize[s] BY <1>3, <1>4
<1> QED BY <1>5 DEF Demand, Fitting

(* A task that waits asks for something that the pool has. *)
LEMMA NextAsks == IInv /\ Asks /\ Next => Asks'
<1> SUFFICES ASSUME IInv, Asks, Next, NEW s \in (waiting \cup woken)'
    PROVE  Demand(s)' # {}
  BY DEF Asks, Demand, Fitting
<1>1. PICK t \in Threads :
        \/ \E size \in Requests : AllocLock(t, size)
        \/ AllocTake(t) \/ AllocWait(t) \/ AllocFail(t)
        \/ AllocWake(t) \/ AllocRelock(t)
        \/ \E b \in Buffers : FreeLock(t, b)
        \/ FreePut(t) \/ FreeSignal(t) \/ FreeUnlock(t)
  BY DEF Next
<1>2. CASE s \in waiting \cup woken BY <1>2, DemandKept DEF Asks
<1>3. CASE AllocWait(t)
  <2>1. waiting' = waiting \cup {t} /\ UNCHANGED <<woken, reqsize>> /\ Fitting(reqsize[t]) # {}
    BY <1>3 DEF AllocWait, Wait, taskVars
  <2>2. CASE s = t BY <2>1, <2>2 DEF Demand, Fitting
  <2> QED BY <1>2, <2>1, <2>2
<1>4. CASE ~AllocWait(t)
  <2>1. (waiting \cup woken)' \subseteq waiting \cup woken
    <3>1. CASE AllocWake(t) \/ AllocRelock(t)
      BY <3>1 DEF AllocWake, AllocRelock, Wake, Reacquire
    <3>2. CASE ~(AllocWake(t) \/ AllocRelock(t))
      BY <1>1, <1>4, <3>2 DEF AllocLock, AllocTake, AllocFail, FreeLock, FreePut, FreeSignal,
                  FreeUnlock, Acquire, Release, Notify, monitorVars
    <3> QED BY <3>1, <3>2
  <2> QED BY <1>2, <2>1
<1> QED BY <1>3, <1>4

(* The class that is chosen is one of those that would do. *)
LEMMA FirstFits ==
  ASSUME NEW size, Available(size) # {}
  PROVE  FirstFit(size) \in Fitting(size)
<1> DEFINE I == Available(size)
           less == {ss \in Nat \X Nat : ss[1] < ss[2]}
<1>1. I \subseteq Nat /\ I \subseteq Fitting(size)
  BY BuffPoolAssumption DEF Available, Fitting, Classes
<1>2. \A x, y \in Nat : <<x, y>> \in less <=> x < y OBVIOUS
<1>3. IsWellFoundedOn(less, Nat) BY NatLessThanWellFounded DEF OpToRel
<1>4. I # {} OBVIOUS
<1> HIDE DEF less, I
<1>5. \E k \in I : \A j \in I : ~ (<<j, k>> \in less) BY <1>1, <1>3, <1>4, WFMin
<1>6. PICK k \in I : \A j \in I : ~ (<<j, k>> \in less) BY <1>5
<1>7. ASSUME NEW j \in I PROVE k <= j
  <2>1. j \in Nat /\ k \in Nat BY <1>1
  <2>2. ~ (j < k) BY <1>2, <1>6, <2>1
  <2> QED BY <2>1, <2>2
<1>8. Min(I) \in I BY <1>7 DEF Min
<1> QED BY <1>1, <1>8 DEF FirstFit, I

(* The steps inside buffpool_alloc keep every free buffer spoken for. *)
LEMMA AllocCovered ==
  ASSUME IInv, IInv', SameDemand, SameDemand', Asks, Covered, NEW t \in Threads,
         \/ \E size \in Requests : AllocLock(t, size)
         \/ AllocTake(t) \/ AllocWait(t) \/ AllocFail(t)
         \/ AllocWake(t) \/ AllocRelock(t)
  PROVE  Covered'
<1>0. TypeOK /\ TypeOK' /\ Next BY DEF IInv, Next
<1>1. /\ IsFiniteSet(waiting) /\ Cardinality(waiting) \in Nat
      /\ IsFiniteSet(woken) /\ Cardinality(woken) \in Nat
      /\ \A s : IsFiniteSet(Suited(s)) /\ Cardinality(Suited(s)) \in Nat
      /\ permits \in Nat
  BY <1>0, SetsFinite
<1>2. \A s : Credit(s) \in {0, 1} /\ Credit(s)' \in {0, 1} BY DEF Credit
<1>3. owner = NoThread => \A s : Credit(s) = 0 BY CreditIs, MonitorAssumption
<1>4. \A s \in waiting \cup woken : Demand(s)' = Demand(s) BY <1>0, DemandKept
<1>5. freelist' = freelist => \A s \in waiting : Suited(s)' = Suited(s)
  BY <1>4 DEF Suited
<1>6. CASE Cardinality(waiting') <= permits' BY <1>6 DEF Covered
<1>7. SUFFICES ASSUME ~(Cardinality(waiting') <= permits'), NEW s \in waiting'
               PROVE  Cardinality(Suited(s)') <= permits' + Cardinality(woken') + Credit(s)'
  BY <1>6 DEF Covered
<1>8. ASSUME waiting' = waiting, permits' = permits
      PROVE  Cardinality(Suited(s)) <= permits + Cardinality(woken) + Credit(s)
  BY <1>7, <1>8 DEF Covered
<1> HIDE DEF Credit
<1>9. ASSUME NEW size \in Requests, AllocLock(t, size)
      PROVE  Cardinality(Suited(s)') <= permits' + Cardinality(woken') + Credit(s)'
  <2>1. UNCHANGED <<waiting, woken, permits, freelist>> /\ owner = NoThread
    BY <1>9 DEF AllocLock, Acquire, poolVars
  <2>2. Credit(s) = 0 BY <1>3, <2>1
  <2>3. UNCHANGED <<Cardinality(Suited(s)), Cardinality(woken), permits>> BY <1>5, <2>1
  <2>4. Cardinality(Suited(s)) <= permits + Cardinality(woken) + Credit(s) BY <1>8, <2>1
  <2> QED BY <1>1, <1>2, <2>2, <2>3, <2>4
<1>10. CASE AllocTake(t)
  <2>1. /\ UNCHANGED <<waiting, woken, permits>> /\ owner = t /\ stage[t] = "alloc"
        /\ Available(reqsize[t]) # {}
    BY <1>10 DEF AllocTake, Release
  <2>2. PICK b \in freelist \cap OfClass(FirstFit(reqsize[t])) : freelist' = freelist \ {b}
    BY <1>10 DEF AllocTake, TakeBuffer
  <2>3. b \in freelist /\ SizeOf[b] \in Demand(t)
    BY <2>1, <2>2, FirstFits DEF Demand, OfClass
  <2>4. s \in waiting /\ Demand(s)' = Demand(s) BY <1>4, <2>1
  <2>5. Cardinality(Suited(s)')
          = Cardinality(Suited(s)) - (IF SizeOf[b] \in Demand(s) THEN 1 ELSE 0)
    BY <1>0, <2>2, <2>3, <2>4, SuitedLess
  <2>6. Cardinality(Suited(s)) <= permits + Cardinality(woken) + Credit(s) BY <1>8, <2>1
  <2>7. UNCHANGED <<Cardinality(woken), permits>> BY <2>1
  <2>8. CASE Demand(t) = Demand(s)
    <3>1. SizeOf[b] \in Demand(s) BY <2>3, <2>8
    <3> QED BY <1>1, <1>2, <2>5, <2>6, <2>7, <3>1
  <2>9. CASE Demand(t) # Demand(s)
    <3>1. Credit(s) = 0 BY <2>1, <2>9, CreditIs DEF Serves
    <3> QED BY <1>1, <1>2, <2>5, <2>6, <2>7, <3>1
  <2> QED BY <2>8, <2>9
<1>11. CASE AllocWait(t)
  <2>1. /\ Available(reqsize[t]) = {} /\ waiting' = waiting \cup {t}
        /\ UNCHANGED <<woken, permits, freelist, reqsize>>
    BY <1>11 DEF AllocWait, Wait, poolVars, taskVars
  <2>2. Suited(t) = {} BY <1>0, <2>1, NothingSuits
  <2>3. Suited(t)' = {} BY <2>1, <2>2 DEF Suited, Demand, Fitting
  <2>4. Demand(s)' = Demand(t)' BY <2>1 DEF SameDemand
  <2>5. Suited(s)' = {} BY <2>3, <2>4 DEF Suited
  <2>6. Cardinality(Suited(s)') = 0 BY <2>5, FS_EmptySet
  <2>7. UNCHANGED <<Cardinality(woken), permits>> BY <2>1
  <2> QED BY <1>1, <1>2, <2>6, <2>7
<1>12. CASE AllocFail(t)
  <2>1. /\ UNCHANGED <<waiting, woken, permits, freelist>>
        /\ owner = t /\ stage[t] = "alloc" /\ Demand(t) = {}
    BY <1>12 DEF AllocFail, Release, poolVars, Demand
  <2>2. s \in waiting /\ Demand(s) # {} BY <2>1 DEF Asks
  <2>3. Credit(s) = 0 BY <2>1, <2>2, CreditIs DEF Serves
  <2>4. UNCHANGED <<Cardinality(Suited(s)), Cardinality(woken), permits>> BY <1>5, <2>1
  <2>5. Cardinality(Suited(s)) <= permits + Cardinality(woken) + Credit(s) BY <1>8, <2>1
  <2> QED BY <1>1, <1>2, <2>3, <2>4, <2>5
<1>13. CASE AllocWake(t)
  <2>1. /\ t \in waiting /\ waiting' = waiting \ {t} /\ woken' = woken \cup {t}
        /\ permits > 0 /\ permits' = permits - 1
        /\ UNCHANGED <<owner, stage, reqsize, freelist>>
    BY <1>13 DEF AllocWake, Wake, poolVars, taskVars
  <2>2. t \notin woken BY <2>1 DEF IInv, Places
  <2>3. /\ Cardinality(waiting') = Cardinality(waiting) - 1
        /\ Cardinality(woken') = Cardinality(woken) + 1
    BY <1>1, <2>1, <2>2, FS_AddElement, FS_RemoveElement
  <2>4. Credit(s)' = Credit(s) BY <2>1 DEF Credit, Serves, Demand, Fitting
  <2>5. s \in waiting BY <2>1
  <2>6. Cardinality(Suited(s)') = Cardinality(Suited(s)) BY <1>5, <2>1, <2>5
  <2>7. ~(Cardinality(waiting) <= permits) BY <1>1, <1>7, <2>1, <2>3
  <2>8. Cardinality(Suited(s)) <= permits + Cardinality(woken) + Credit(s)
    BY <2>5, <2>7 DEF Covered
  <2> QED BY <1>1, <1>2, <2>1, <2>3, <2>4, <2>6, <2>8
<1>14. CASE AllocRelock(t)
  <2>1. /\ t \in woken /\ woken' = woken \ {t} /\ owner = NoThread /\ owner' = t
        /\ UNCHANGED <<waiting, permits, stage, reqsize, freelist>>
    BY <1>14 DEF AllocRelock, Reacquire, poolVars, taskVars
  <2>2. Cardinality(woken') = Cardinality(woken) - 1 BY <1>1, <2>1, FS_RemoveElement
  <2>3. stage[t] = "alloc" /\ Demand(t) = Demand(s)
    BY <2>1 DEF IInv, Places, SameDemand
  <2>4. Serves(t, s)' BY <2>1, <2>3 DEF Serves, Demand, Fitting
  <2>5. Credit(s)' = 1 BY <2>4 DEF Credit
  <2>6. Credit(s) = 0 BY <1>3, <2>1
  <2>7. Cardinality(Suited(s)') = Cardinality(Suited(s)) BY <1>5, <2>1
  <2>8. Cardinality(Suited(s)) <= permits + Cardinality(woken) + Credit(s) BY <1>8, <2>1
  <2> QED BY <1>1, <2>1, <2>2, <2>5, <2>6, <2>7, <2>8
<1> QED BY <1>9, <1>10, <1>11, <1>12, <1>13, <1>14

(* So do the steps of buffpool_free, which owes one signal per buffer. *)
LEMMA FreeCovered ==
  ASSUME IInv, IInv', Covered, NEW t \in Threads,
         \/ \E b \in Buffers : FreeLock(t, b)
         \/ FreePut(t) \/ FreeSignal(t) \/ FreeUnlock(t)
  PROVE  Covered'
<1>0. TypeOK /\ TypeOK' BY DEF IInv
<1>1. /\ IsFiniteSet(waiting) /\ Cardinality(waiting) \in Nat
      /\ IsFiniteSet(woken) /\ Cardinality(woken) \in Nat
      /\ \A s : IsFiniteSet(Suited(s)) /\ Cardinality(Suited(s)) \in Nat
      /\ permits \in Nat
  BY <1>0, SetsFinite
<1>2. \A s : Credit(s) \in {0, 1} /\ Credit(s)' \in {0, 1} BY DEF Credit
<1>3. owner = NoThread => \A s : Credit(s) = 0 BY CreditIs, MonitorAssumption
<1>4. UNCHANGED <<waiting, woken, reqsize>>
  BY DEF FreeLock, FreePut, FreeSignal, FreeUnlock, Acquire, Release, Notify, monitorVars
<1>5. \A s : Demand(s)' = Demand(s) BY <1>4 DEF Demand, Fitting
<1>6. freelist' = freelist => \A s : Suited(s)' = Suited(s) BY <1>5 DEF Suited
<1>7. UNCHANGED <<Cardinality(waiting), Cardinality(woken)>> BY <1>4
<1> HIDE DEF Credit
<1>8. ASSUME NEW b \in Buffers, FreeLock(t, b) PROVE Covered'
  <2>1. UNCHANGED <<permits, freelist>> /\ owner = NoThread
    BY <1>8 DEF FreeLock, Acquire, poolVars
  <2> QED BY <1>1, <1>2, <1>3, <1>4, <1>6, <1>7, <2>1 DEF Covered
<1>9. CASE FreePut(t)
  <2>1. /\ owner = t /\ stage[t] = "put" /\ stage' = [stage EXCEPT ![t] = "signal"]
        /\ freelist' = freelist \cup {buff[t]}
        /\ UNCHANGED <<owner, permits>>
    BY <1>9 DEF FreePut, Goto, monitorVars
  <2>2. stage \in [Threads -> {"idle", "alloc", "put", "signal", "unlock"}]
    BY <1>0 DEF TypeOK
  <2>3. \A s : Credit(s) = 0 BY <2>1, CreditIs DEF Serves
  <2>4. \A s : Credit(s)' = 1
    <3>1. \A s : Serves(t, s)' BY <2>1, <2>2 DEF Serves
    <3> QED BY <3>1 DEF Credit
  <2>5. ASSUME NEW s
        PROVE  Cardinality(Suited(s)') <= Cardinality(Suited(s)) + 1
    <3>1. Suited(s)' = Suited(s) \/ Suited(s)' = Suited(s) \cup {buff[t]}
      BY <1>5, <2>1 DEF Suited
    <3>2. IsFiniteSet(Suited(s)) /\ Cardinality(Suited(s)) \in Nat BY <1>1
    <3>3. Cardinality(Suited(s) \cup {buff[t]}) <= Cardinality(Suited(s)) + 1
      BY <3>2, FS_AddElement
    <3> QED BY <3>1, <3>2, <3>3
  <2>6. CASE Cardinality(waiting) <= permits BY <1>7, <2>1, <2>6 DEF Covered
  <2>7. CASE \A s \in waiting :
               Cardinality(Suited(s)) <= permits + Cardinality(woken) + Credit(s)
    <3> SUFFICES ASSUME NEW s \in waiting
                 PROVE  Cardinality(Suited(s)') <= permits' + Cardinality(woken') + Credit(s)'
      BY <1>4 DEF Covered
    <3>1. Cardinality(Suited(s)) <= permits + Cardinality(woken) + Credit(s) BY <2>7
    <3>2. Cardinality(Suited(s)') \in Nat BY <1>0, SuitedFinite
    <3> QED BY <1>1, <1>7, <2>1, <2>3, <2>4, <2>5, <3>1, <3>2
  <2> QED BY <2>6, <2>7 DEF Covered
<1>10. CASE FreeSignal(t)
  <2>1. UNCHANGED freelist BY <1>10 DEF FreeSignal, poolVars
  <2>2. \A s : UNCHANGED Cardinality(Suited(s)) BY <1>6, <2>1
  <2>3. CASE waiting \cup woken = {}
    <3>1. waiting = {} /\ permits' = permits BY <1>10, <2>3 DEF FreeSignal, monitorVars
    <3>2. Cardinality(waiting) = 0 BY <3>1, FS_EmptySet
    <3> QED BY <1>1, <1>7, <3>1, <3>2 DEF Covered
  <2>4. CASE waiting \cup woken # {}
    <3>1. permits' = permits + 1 BY <1>10, <2>4 DEF FreeSignal, Notify
    <3> QED BY <1>1, <1>2, <1>4, <1>7, <2>2, <3>1 DEF Covered
  <2> QED BY <2>3, <2>4
<1>11. CASE FreeUnlock(t)
  <2>1. UNCHANGED <<permits, freelist>> /\ owner = t /\ stage[t] = "unlock"
    BY <1>11 DEF FreeUnlock, Release, poolVars
  <2>2. \A s : Credit(s) = 0 BY <2>1, CreditIs DEF Serves
  <2> QED BY <1>1, <1>2, <1>4, <1>6, <1>7, <2>1, <2>2 DEF Covered
<1> QED BY <1>8, <1>9, <1>10, <1>11

(* Every step keeps the sleepers covered. *)
LEMMA NextCovered ==
  IInv /\ IInv' /\ SameDemand /\ SameDemand' /\ Asks /\ Covered /\ [Next]_vars
    => Asks' /\ Covered'
<1> SUFFICES ASSUME IInv, IInv', SameDemand, SameDemand', Asks, Covered, [Next]_vars
    PROVE  Asks' /\ Covered'
  OBVIOUS
<1>1. CASE Next
  <2>1. PICK t \in Threads :
          \/ \E size \in Requests : AllocLock(t, size)
          \/ AllocTake(t) \/ AllocWait(t) \/ AllocFail(t)
          \/ AllocWake(t) \/ AllocRelock(t)
          \/ \E b \in Buffers : FreeLock(t, b)
          \/ FreePut(t) \/ FreeSignal(t) \/ FreeUnlock(t)
    BY <1>1 DEF Next
  <2>2. Covered' BY <2>1, AllocCovered, FreeCovered
  <2> QED BY <1>1, <2>2, NextAsks
<1>2. CASE UNCHANGED vars
  <2>1. UNCHANGED <<owner, waiting, woken, permits, freelist, stage, reqsize>>
    BY <1>2 DEF vars, monitorVars, poolVars, taskVars
  <2>2. \A s : Credit(s)' = Credit(s) /\ Suited(s)' = Suited(s) /\ Demand(s)' = Demand(s)
    BY <2>1 DEF Credit, Serves, Suited, Demand, Fitting
  <2>3. Asks' BY <2>1, <2>2 DEF Asks
  <2>4. UNCHANGED <<Cardinality(waiting), Cardinality(woken)>> BY <2>1
  <2>5. Covered' BY <2>1, <2>2, <2>4 DEF Covered
  <2> QED BY <2>3, <2>5
<1> QED BY <1>1, <1>2

(* The count implies the property. *)
LEMMA CoveredSuffices == IInv /\ Covered => NobodySleepsOnFree
<1> SUFFICES ASSUME IInv, Covered, NEW s \in waiting, Satisfiable(s),
                    permits = 0, woken = {}
    PROVE  \E t \in Threads : owner = t /\ stage[t] \in {"alloc", "signal"}
  BY MonitorAssumption DEF NobodySleepsOnFree, IInv, TypeOK, MonitorTypeOK
<1>1. /\ IsFiniteSet(waiting) /\ Cardinality(waiting) \in Nat
      /\ IsFiniteSet(Suited(s)) /\ Cardinality(Suited(s)) \in Nat
  BY SetsFinite DEF IInv
<1>2. Suited(s) # {}
  <2>1. PICK c \in Fitting(reqsize[s]) : freelist \cap OfClass(c) # {}
    BY DEF Satisfiable, Available
  <2>2. PICK b \in freelist : SizeOf[b] = c BY <2>1 DEF OfClass
  <2> QED BY <2>1, <2>2 DEF Suited, Demand
<1>3. Cardinality(waiting) # 0 /\ Cardinality(Suited(s)) # 0
  BY <1>1, <1>2, FS_EmptySet
<1>4. Cardinality(woken) = 0 BY FS_EmptySet
<1>5. Credit(s) # 0 BY <1>1, <1>3, <1>4, CreditIs DEF Covered
<1> QED BY <1>5 DEF Credit, Serves

(* No task sleeps while a buffer it could take is free, unless a wake-up   *)
(* is under way (buffpool.c:296), in a pool with any classes and for any   *)
(* requests, as long as tasks that sleep at the same time could do with    *)
(* the same buffers: what the single condition variable of the pool        *)
(* (buffpool.c:615) does not lose.                                         *)
THEOREM NobodySleeps == Spec /\ []SameDemand => []NobodySleepsOnFree
<1>1. Init => Asks /\ Covered
  <2> SUFFICES ASSUME Init PROVE Asks /\ Covered OBVIOUS
  <2>1. waiting = {} /\ woken = {} /\ permits = 0 BY DEF Init, MonitorInit
  <2>2. Cardinality(waiting) = 0 BY <2>1, FS_EmptySet
  <2> QED BY <2>1, <2>2 DEF Asks, Covered
<1>2. IInv /\ IInv' /\ SameDemand /\ SameDemand' /\ Asks /\ Covered /\ [Next]_vars
        => Asks' /\ Covered'
  BY NextCovered
<1>3. IInv /\ Covered => NobodySleepsOnFree BY CoveredSuffices
<1> QED BY <1>1, <1>2, <1>3, Inductive, PTL DEF Spec
=============================================================================
