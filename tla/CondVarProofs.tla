---------------------------- MODULE CondVarProofs ----------------------------
(***************************************************************************)
(* Proofs about CondVar for every finite set of tasks and every length of  *)
(* the token queue.                                                        *)
(***************************************************************************)
EXTENDS CondVar, FiniteSetTheorems, TLAPS

(* Who is at which line decides who holds the two mutexes. *)
Locks ==
  /\ MutualExclusion
  /\ \A t \in Threads : t \in Notifying <=> condMutex = t

CountedPCs == {"release", "blocked", "relock", "deregister"}

IInv == TypeOK /\ Locks /\ CountExact
-----------------------------------------------------------------------------
(* How the set of tasks at some lines changes when one task moves. *)
LEMMA RegionGoto ==
  ASSUME NEW S, pc \in [Threads -> PCs], NEW t \in Threads, NEW l, Goto(t, l)
  PROVE  Region(S)' = IF l \in S THEN Region(S) \cup {t} ELSE Region(S) \ {t}
  BY DEF Region, Goto

(* Every set of tasks has a cardinality, and moving one task changes it by *)
(* at most one.                                                            *)
LEMMA RegionFinite ==
  ASSUME NEW S
  PROVE  /\ IsFiniteSet(Region(S))
         /\ Cardinality(Region(S)) \in Nat
  <1>1. Region(S) \in SUBSET Threads
    BY DEF Region
  <1>2. IsFiniteSet(Region(S))
    BY <1>1, FS_Subset, ThreadsAssumption
  <1>3. QED
    BY <1>2, FS_CardinalityType

(* Who is counted, when one task goes on. *)
LEMMA CountedGoto ==
  ASSUME pc \in [Threads -> PCs], NEW t \in Threads, NEW l, Goto(t, l)
  PROVE  /\ pc[t] \in CountedPCs /\ l \in CountedPCs
              => Cardinality(Counted') = Cardinality(Counted)
         /\ pc[t] \notin CountedPCs /\ l \notin CountedPCs
              => Cardinality(Counted') = Cardinality(Counted)
         /\ pc[t] \in CountedPCs /\ l \notin CountedPCs
              => Cardinality(Counted') = Cardinality(Counted) - 1
         /\ pc[t] \notin CountedPCs /\ l \in CountedPCs
              => Cardinality(Counted') = Cardinality(Counted) + 1
  <1>1. Counted' = IF l \in CountedPCs THEN Counted \cup {t} ELSE Counted \ {t}
    BY RegionGoto DEF Counted, CountedPCs
  <1>2. t \in Counted <=> pc[t] \in CountedPCs
    BY DEF Counted, CountedPCs, Region
  <1>3. IsFiniteSet(Counted)
    BY RegionFinite DEF Counted
  <1>4. Cardinality(Counted \cup {t})
          = IF t \in Counted THEN Cardinality(Counted) ELSE Cardinality(Counted) + 1
    BY <1>3, FS_AddElement
  <1>5. Cardinality(Counted \ {t})
          = IF t \in Counted THEN Cardinality(Counted) - 1 ELSE Cardinality(Counted)
    BY <1>3, FS_RemoveElement
  <1>6. t \in Counted => Counted \cup {t} = Counted
    OBVIOUS
  <1>7. t \notin Counted => Counted \ {t} = Counted
    OBVIOUS
  <1>8. QED
    BY <1>1, <1>2, <1>4, <1>5, <1>6, <1>7
-----------------------------------------------------------------------------
(* The invariant holds at the start. *)
LEMMA InitIInv == Init => IInv
  <1> SUFFICES ASSUME Init PROVE IInv
    OBVIOUS
  <1>1. TypeOK
    BY ThreadsAssumption, QueCapAssumption DEF Init, TypeOK, PCs
  <1>2. Locks
    BY ThreadsAssumption
    DEF Init, Locks, MutualExclusion, Holding, Notifying, Region
  <1>3. Counted = {}
    BY DEF Init, Counted, Region
  <1>4. CountExact
    BY <1>3, FS_EmptySet DEF CountExact, Init
  <1>5. QED
    BY <1>1, <1>2, <1>4 DEF IInv

(* The invariant is inductive. *)
LEMMA NextIInv == IInv /\ [Next]_vars => IInv'
  <1> SUFFICES ASSUME IInv, [Next]_vars PROVE IInv'
    OBVIOUS
  <1> USE ThreadsAssumption, QueCapAssumption
  <1>0. TypeOK /\ Locks /\ CountExact /\ Cardinality(Counted) \in Nat
    BY RegionFinite DEF IInv, Counted
  <1>a. ASSUME NEW t \in Threads, Lock(t) PROVE IInv'
    <2>1. TypeOK'
      BY <1>0, <1>a DEF TypeOK, Lock, Goto, PCs
    <2>2. Locks'
      BY <1>0, <1>a DEF TypeOK, Lock, Goto, Locks, MutualExclusion, Holding, Notifying, Region
    <2>3. CountExact'
      BY <1>0, <1>a, CountedGoto DEF TypeOK, Lock, CountExact, CountedPCs
    <2>4. QED
      BY <2>1, <2>2, <2>3 DEF IInv
  <1>b. ASSUME NEW t \in Threads, Unlock(t) PROVE IInv'
    <2>1. TypeOK'
      BY <1>0, <1>b DEF TypeOK, Unlock, Goto, PCs
    <2>2. Locks'
      BY <1>0, <1>b DEF TypeOK, Unlock, Goto, Locks, MutualExclusion, Holding, Notifying, Region
    <2>3. CountExact'
      BY <1>0, <1>b, CountedGoto DEF TypeOK, Unlock, CountExact, CountedPCs
    <2>4. QED
      BY <2>1, <2>2, <2>3 DEF IInv
  <1>c. ASSUME NEW t \in Threads, NEW b \in BOOLEAN, WaitRegister(t, b) PROVE IInv'
    <2>1. TypeOK'
      BY <1>0, <1>c DEF TypeOK, WaitRegister, Goto, PCs
    <2>2. Locks'
      BY <1>0, <1>c DEF TypeOK, WaitRegister, Goto, Locks, MutualExclusion, Holding, Notifying, Region
    <2>3. CountExact'
      BY <1>0, <1>c, CountedGoto DEF TypeOK, WaitRegister, CountExact, CountedPCs
    <2>4. QED
      BY <2>1, <2>2, <2>3 DEF IInv
  <1>d. ASSUME NEW t \in Threads, WaitRelease(t) PROVE IInv'
    <2>1. TypeOK'
      BY <1>0, <1>d DEF TypeOK, WaitRelease, Goto, PCs
    <2>2. Locks'
      BY <1>0, <1>d DEF TypeOK, WaitRelease, Goto, Locks, MutualExclusion, Holding, Notifying, Region
    <2>3. CountExact'
      BY <1>0, <1>d, CountedGoto DEF TypeOK, WaitRelease, CountExact, CountedPCs
    <2>4. QED
      BY <2>1, <2>2, <2>3 DEF IInv
  <1>e. ASSUME NEW t \in Threads, WaitReceive(t) PROVE IInv'
    <2>1. TypeOK'
      BY <1>0, <1>e DEF TypeOK, WaitReceive, Goto, PCs
    <2>2. Locks'
      BY <1>0, <1>e DEF TypeOK, WaitReceive, Goto, Locks, MutualExclusion, Holding, Notifying, Region
    <2>3. CountExact'
      BY <1>0, <1>e, CountedGoto DEF TypeOK, WaitReceive, CountExact, CountedPCs
    <2>4. QED
      BY <2>1, <2>2, <2>3 DEF IInv
  <1>f. ASSUME NEW t \in Threads, WaitTimeout(t) PROVE IInv'
    <2>1. TypeOK'
      BY <1>0, <1>f DEF TypeOK, WaitTimeout, Goto, PCs
    <2>2. Locks'
      BY <1>0, <1>f DEF TypeOK, WaitTimeout, Goto, Locks, MutualExclusion, Holding, Notifying, Region
    <2>3. CountExact'
      BY <1>0, <1>f, CountedGoto DEF TypeOK, WaitTimeout, CountExact, CountedPCs
    <2>4. QED
      BY <2>1, <2>2, <2>3 DEF IInv
  <1>g. ASSUME NEW t \in Threads, WaitRelock(t) PROVE IInv'
    <2>1. TypeOK'
      BY <1>0, <1>g DEF TypeOK, WaitRelock, Goto, PCs
    <2>2. Locks'
      BY <1>0, <1>g DEF TypeOK, WaitRelock, Goto, Locks, MutualExclusion, Holding, Notifying, Region
    <2>3. CountExact'
      BY <1>0, <1>g, CountedGoto DEF TypeOK, WaitRelock, CountExact, CountedPCs
    <2>4. QED
      BY <2>1, <2>2, <2>3 DEF IInv
  <1>h. ASSUME NEW t \in Threads, WaitDeregister(t) PROVE IInv'
    <2>1. CountExact'
      BY <1>0, <1>h, CountedGoto DEF TypeOK, WaitDeregister, CountExact, CountedPCs
    <2>2. numWaiting' \in Nat
      <3>1. IsFiniteSet(Counted') /\ Cardinality(Counted') \in Nat
        BY RegionFinite, FS_CardinalityType, FS_Subset DEF Counted, Region
      <3>2. QED
        BY <2>1, <3>1 DEF CountExact
    <2>3. TypeOK'
      BY <1>0, <1>h, <2>2 DEF TypeOK, WaitDeregister, Goto, PCs
    <2>4. Locks'
      BY <1>0, <1>h DEF TypeOK, WaitDeregister, Goto, Locks, MutualExclusion, Holding, Notifying, Region
    <2>5. QED
      BY <2>1, <2>3, <2>4 DEF IInv
  <1>i. ASSUME NEW t \in Threads, Signal(t) \/ Broadcast(t) PROVE IInv'
    <2>1. PICK call \in {"signal", "broadcast"}, n \in Nat : NotifyBegin(t, call, n)
      BY <1>0, <1>i DEF Signal, Broadcast, SignalTokens, BroadcastTokens, TypeOK
    <2>2. TypeOK'
      BY <1>0, <2>1 DEF TypeOK, NotifyBegin, Goto, PCs
    <2>3. Locks'
      BY <1>0, <2>1 DEF TypeOK, NotifyBegin, Goto, Locks, MutualExclusion, Holding, Notifying, Region
    <2>4. CountExact'
      BY <1>0, <2>1, CountedGoto DEF TypeOK, NotifyBegin, CountExact, CountedPCs
    <2>5. QED
      BY <2>2, <2>3, <2>4 DEF IInv
  <1>j. ASSUME NEW t \in Threads, NotifySend(t) PROVE IInv'
    <2>1. TypeOK'
      BY <1>0, <1>j DEF TypeOK, NotifySend
    <2>2. QED
      BY <1>0, <1>j, <2>1
      DEF IInv, NotifySend, Locks, MutualExclusion, Holding, Notifying, Region, CountExact, Counted
  <1>k. ASSUME NEW t \in Threads, NotifyEnd(t) PROVE IInv'
    <2>1. TypeOK'
      BY <1>0, <1>k DEF TypeOK, NotifyEnd, Goto, PCs
    <2>2. Locks'
      BY <1>0, <1>k DEF TypeOK, NotifyEnd, Goto, Locks, MutualExclusion, Holding, Notifying, Region
    <2>3. CountExact'
      BY <1>0, <1>k, CountedGoto DEF TypeOK, NotifyEnd, CountExact, CountedPCs, Notifying, Region
    <2>4. QED
      BY <2>1, <2>2, <2>3 DEF IInv
  <1>l. CASE UNCHANGED vars
    BY <1>0, <1>l
    DEF IInv, vars, TypeOK, Locks, MutualExclusion, Holding, Notifying, Region, CountExact, Counted
  <1>m. QED
    BY <1>a, <1>b, <1>c, <1>d, <1>e, <1>f, <1>g, <1>h, <1>i, <1>j, <1>k, <1>l
    DEF Next
-----------------------------------------------------------------------------
(* The mutexes, the types and the count are right in every reachable state *)
(* (osal.c:451-532).                                                       *)
LEMMA Inductive == Spec => []IInv
  BY InitIInv, NextIInv, PTL DEF Spec

(* Every variable keeps its type; in particular num_waiting never goes     *)
(* below zero and evtQue never holds more than its capacity.               *)
THEOREM Types == Spec => []TypeOK
  BY Inductive, PTL DEF IInv

(* The caller's mutex is held by exactly the task that is in its critical  *)
(* section, a waiter that wait() has woken and locked again included.      *)
THEOREM Exclusion == Spec => []MutualExclusion
  BY Inductive, PTL DEF IInv, Locks

(* num_waiting counts exactly the tasks inside wait(), so that signal and  *)
(* broadcast never skip a registered waiter (osal.c:501, 521).             *)
THEOREM CountIsExact == Spec => []CountExact
  BY Inductive, PTL DEF IInv
-----------------------------------------------------------------------------
(* Who is blocked, when one task goes on. *)
LEMMA BlockedGoto ==
  ASSUME pc \in [Threads -> PCs], NEW t \in Threads, NEW l, Goto(t, l)
  PROVE  /\ Blocked' = IF l = "blocked" THEN Blocked \cup {t} ELSE Blocked \ {t}
         /\ IsFiniteSet(Blocked)
         /\ IsFiniteSet(Blocked')
         /\ pc[t] = "blocked" /\ l # "blocked"
              => Cardinality(Blocked') = Cardinality(Blocked) - 1
         /\ pc[t] # "blocked" /\ l # "blocked" => Blocked' = Blocked
  <1>1. Blocked' = IF l = "blocked" THEN Blocked \cup {t} ELSE Blocked \ {t}
    BY DEF Blocked, Region, Goto
  <1>2. t \in Blocked <=> pc[t] = "blocked"
    BY DEF Blocked, Region
  <1>3. IsFiniteSet(Blocked)
    BY RegionFinite DEF Blocked
  <1>4. Cardinality(Blocked \ {t})
          = IF t \in Blocked THEN Cardinality(Blocked) - 1 ELSE Cardinality(Blocked)
    BY <1>3, FS_RemoveElement
  <1>5. IsFiniteSet(Blocked \cup {t}) /\ IsFiniteSet(Blocked \ {t})
    BY <1>3, FS_AddElement, FS_RemoveElement
  <1>6. QED
    BY <1>1, <1>2, <1>3, <1>4, <1>5

(* A task that moves with the mutex, or that takes it, meets no notifier. *)
LEMMA AloneWithMutex ==
  ASSUME Locks, pc \in [Threads -> PCs], NEW t \in Threads, NEW l,
         l \notin {"signal", "broadcast"}, Goto(t, l), mutex \in {t, NoThread}
  PROVE  Covers'
  <1>1. \A u \in Threads : u # t => pc[u] \notin {"signal", "broadcast"}
    BY ThreadsAssumption DEF Locks, MutualExclusion, Holding, Region
  <1>2. \A u \in Threads : pc'[u] \notin {"signal", "broadcast"}
    BY <1>1 DEF Goto
  <1>3. QED
    BY <1>2 DEF Covers, SignalCovers, BroadcastCovers

(* A notification covers the blocked tasks at every step. *)
LEMMA NextCovers == IInv /\ Covers /\ [Next]_vars => Covers'
  <1> SUFFICES ASSUME IInv, Covers, [Next]_vars PROVE Covers'
    OBVIOUS
  <1> USE ThreadsAssumption, QueCapAssumption
  <1>1. TypeOK /\ Locks /\ CountExact /\ pc \in [Threads -> PCs]
    BY DEF IInv, TypeOK
  <1>2. IsFiniteSet(Blocked) /\ Cardinality(Blocked) \in Nat
    BY RegionFinite DEF Blocked
  <1>3. \A t \in Threads : t \in Holding <=> mutex = t
    BY <1>1 DEF Locks, MutualExclusion
  <1>a. ASSUME NEW t \in Threads,
               \/ Lock(t) \/ Unlock(t) \/ WaitRelease(t)
               \/ WaitRelock(t) \/ WaitDeregister(t)
        PROVE  Covers'
    <2>1. mutex \in {t, NoThread}
      BY <1>3, <1>a
      DEF Holding, Region, Lock, Unlock, WaitRelease, WaitRelock, WaitDeregister
    <2>2. Goto(t, "in") \/ Goto(t, "out") \/ Goto(t, "blocked") \/ Goto(t, "deregister")
      BY <1>a DEF Lock, Unlock, WaitRelease, WaitRelock, WaitDeregister
    <2>3. QED
      BY <1>1, <2>1, <2>2, AloneWithMutex
  <1>b. ASSUME NEW t \in Threads, NEW b \in BOOLEAN, WaitRegister(t, b)
        PROVE  Covers'
    <2>1. mutex \in {t, NoThread} /\ Goto(t, "release")
      BY <1>3, <1>b DEF Holding, Region, WaitRegister
    <2>2. QED
      BY <1>1, <2>1, AloneWithMutex
  <1>c. ASSUME NEW t \in Threads, NotifyEnd(t) PROVE Covers'
    <2>1. mutex \in {t, NoThread} /\ Goto(t, "leave")
      BY <1>3, <1>c DEF Holding, Notifying, Region, NotifyEnd
    <2>2. QED
      BY <1>1, <2>1, AloneWithMutex
  <1>d. ASSUME NEW t \in Threads, Signal(t) \/ Broadcast(t) PROVE Covers'
    <2>1. \A u \in Threads : u # t => pc[u] \notin {"signal", "broadcast"}
      BY <1>3, <1>d DEF Signal, Broadcast, NotifyBegin, Holding, Region
    <2>2. Cardinality(Blocked) <= numWaiting /\ (numWaiting = 0 => Blocked = {})
      <3>1. IsFiniteSet(Counted) /\ Blocked \in SUBSET Counted
        BY RegionFinite DEF Counted, Blocked, Region
      <3>2. QED
        BY <1>1, <3>1, FS_Subset, FS_EmptySet DEF CountExact
    <2>3. Blocked' = Blocked
      BY <1>1, <1>d, BlockedGoto DEF Signal, Broadcast, NotifyBegin
    <2>4. CASE Signal(t)
      <3>1. /\ evtQue' = evtQue /\ todo'[t] = SignalTokens
            /\ \A u \in Threads : pc'[u] = "signal" => u = t
            /\ \A u \in Threads : pc'[u] # "broadcast"
        BY <1>1, <2>1, <2>4 DEF Signal, NotifyBegin, Goto, TypeOK
      <3>2. QED
        BY <1>1, <2>2, <2>3, <3>1
        DEF Covers, SignalCovers, BroadcastCovers, SignalTokens, TypeOK
    <2>5. CASE Broadcast(t)
      <3>1. /\ evtQue' = evtQue /\ todo'[t] = numWaiting
            /\ \A u \in Threads : pc'[u] = "broadcast" => u = t
            /\ \A u \in Threads : pc'[u] # "signal"
        BY <1>1, <2>1, <2>5 DEF Broadcast, BroadcastTokens, NotifyBegin, Goto, TypeOK
      <3>2. Cardinality(Blocked') <= numWaiting
        BY <2>2, <2>3
      <3>3. QED
        BY <1>1, <1>2, <2>3, <3>1, <3>2
        DEF Covers, SignalCovers, BroadcastCovers, TypeOK
    <2>6. QED
      BY <1>d, <2>4, <2>5
  <1>e. ASSUME NEW t \in Threads, NotifySend(t) PROVE Covers'
    <2>1. Blocked' = Blocked /\ Awake' = Awake
      BY <1>e DEF NotifySend, Blocked, Awake, Region
    <2>2. \A u \in Threads : u \in Notifying => u = t
      BY <1>1, <1>e DEF NotifySend, Locks
    <2>3. \A u \in Threads : pc'[u] \in {"signal", "broadcast"}
             => u = t /\ pc'[u] = pc[u] /\ evtQue' + todo'[u] = evtQue + todo[u]
      BY <1>1, <1>e, <2>2 DEF NotifySend, Notifying, Region, TypeOK
    <2>4. QED
      BY <2>1, <2>3 DEF Covers, SignalCovers, BroadcastCovers
  <1>f. ASSUME NEW t \in Threads, WaitReceive(t) \/ WaitTimeout(t) PROVE Covers'
    <2>1. t \in Awake'
      BY <1>1, <1>f DEF WaitReceive, WaitTimeout, Goto, Awake, Region
    <2>2. /\ Cardinality(Blocked') = Cardinality(Blocked) - 1
          /\ evtQue' = evtQue \/ evtQue' = evtQue - 1
      BY <1>1, <1>f, BlockedGoto DEF WaitReceive, WaitTimeout
    <2>3. \A u \in Threads : pc'[u] \in {"signal", "broadcast"}
             => pc'[u] = pc[u] /\ todo'[u] = todo[u]
      BY <1>1, <1>f DEF WaitReceive, WaitTimeout, Goto
    <2>4. SignalCovers'
      BY <2>1 DEF SignalCovers
    <2>5. BroadcastCovers'
      BY <1>1, <1>2, <2>2, <2>3 DEF Covers, BroadcastCovers, TypeOK
    <2>6. QED
      BY <2>4, <2>5 DEF Covers
  <1>g. CASE UNCHANGED vars
    BY <1>g DEF vars, Covers, SignalCovers, BroadcastCovers, Awake, Blocked, Region
  <1>h. QED
    BY <1>a, <1>b, <1>c, <1>d, <1>e, <1>f, <1>g DEF Next

(* A signal in progress has a token for some blocked waiter unless one is  *)
(* awake already, and a broadcast has one for each of them: no interleaving *)
(* of time-outs and wake-ups with the sending makes the calls fall short   *)
(* (osal.c:500-504, 520-524; altcom_osal.h:669, 688).                      *)
THEOREM NotifyCovers == Spec => []Covers
  <1>1. Init => Covers
    BY DEF Init, Covers, SignalCovers, BroadcastCovers
  <1>2. QED
    BY <1>1, Inductive, NextCovers, PTL DEF Spec
-----------------------------------------------------------------------------
(* Refinement.  A task with tokens to send has somebody to send them to:   *)
(* waiters cannot leave wait() while it holds the caller's mutex.          *)
Waiters == Region({"blocked", "relock"})
TokensHaveTakers ==
  \A t \in Threads : t \in Notifying /\ todo[t] > 0 => Waiters # {}

(* Tokens have takers at every step. *)
LEMMA NextTokens ==
  IInv /\ TokensHaveTakers /\ [Next]_vars => TokensHaveTakers'
  <1> SUFFICES ASSUME IInv, TokensHaveTakers, [Next]_vars PROVE TokensHaveTakers'
    OBVIOUS
  <1> USE ThreadsAssumption
  <1>1. TypeOK /\ Locks /\ CountExact /\ pc \in [Threads -> PCs]
    BY DEF IInv, TypeOK
  <1>2. \A t \in Threads : t \in Holding <=> mutex = t
    BY <1>1 DEF Locks, MutualExclusion
  <1>a. ASSUME NEW t \in Threads,
               \/ Lock(t) \/ Unlock(t) \/ WaitRelease(t) \/ WaitRelock(t)
               \/ WaitDeregister(t) \/ NotifyEnd(t)
               \/ \E b \in BOOLEAN : WaitRegister(t, b)
        PROVE  TokensHaveTakers'
    <2>1. \A u \in Threads : u # t => pc[u] \notin {"signal", "broadcast"}
      BY <1>2, <1>a
      DEF Holding, Notifying, Region, Lock, Unlock, WaitRelease, WaitRelock,
          WaitDeregister, NotifyEnd, WaitRegister
    <2>2. pc'[t] \notin {"signal", "broadcast"}
          /\ \A u \in Threads : u # t => pc'[u] = pc[u]
      BY <1>1, <1>a
      DEF Goto, Lock, Unlock, WaitRelease, WaitRelock, WaitDeregister, NotifyEnd,
          WaitRegister
    <2>3. QED
      BY <2>1, <2>2 DEF TokensHaveTakers, Notifying, Region
  <1>b. ASSUME NEW t \in Threads, Signal(t) \/ Broadcast(t)
        PROVE  TokensHaveTakers'
    <2>1. Waiters' = Waiters
      BY <1>1, <1>b DEF Signal, Broadcast, NotifyBegin, Goto, Waiters, Region
    <2>2. \A u \in Threads : u # t => pc[u] \notin {"signal", "broadcast"}
      BY <1>2, <1>b DEF Signal, Broadcast, NotifyBegin, Holding, Region
    <2>3. Counted \subseteq Waiters
      BY <1>2, <1>b
      DEF Signal, Broadcast, NotifyBegin, Counted, Waiters, Holding, Region
    <2>4. numWaiting # 0 => Waiters # {}
      BY <1>1, <2>3, FS_EmptySet DEF CountExact
    <2>5. todo'[t] > 0 => numWaiting # 0
      BY <1>1, <1>b
      DEF Signal, Broadcast, SignalTokens, BroadcastTokens, NotifyBegin, TypeOK
    <2>6. \A u \in Threads : u # t => pc'[u] \notin {"signal", "broadcast"}
      BY <1>1, <1>b, <2>2 DEF Signal, Broadcast, NotifyBegin, Goto
    <2>7. QED
      BY <2>1, <2>4, <2>5, <2>6 DEF TokensHaveTakers, Notifying, Region
  <1>c. ASSUME NEW t \in Threads, WaitReceive(t) \/ WaitTimeout(t)
        PROVE  TokensHaveTakers'
    <2>1. t \in Waiters'
      BY <1>1, <1>c DEF WaitReceive, WaitTimeout, Goto, Waiters, Region
    <2>2. QED
      BY <2>1 DEF TokensHaveTakers
  <1>d. ASSUME NEW t \in Threads, NotifySend(t) PROVE TokensHaveTakers'
    <2>1. Waiters' = Waiters /\ Notifying' = Notifying
      BY <1>d DEF NotifySend, Waiters, Notifying, Region
    <2>2. \A u \in Threads : u \in Notifying => u = t
      BY <1>1, <1>d DEF NotifySend, Locks
    <2>3. Waiters # {}
      BY <1>d DEF NotifySend, TokensHaveTakers
    <2>4. QED
      BY <2>1, <2>3 DEF TokensHaveTakers
  <1>e. CASE UNCHANGED vars
    BY <1>e DEF vars, TokensHaveTakers, Waiters, Notifying, Region
  <1>f. QED
    BY <1>a, <1>b, <1>c, <1>d, <1>e DEF Next

(* The start maps to a start of Monitor. *)
LEMMA InitMonitor == Init => M!MonitorInit
  BY DEF Init, M!MonitorInit, Blocked, Region

(* Each step of the condition variable is a step of the monitor or leaves  *)
(* the mapped state alone.                                                 *)
LEMMA NextMonitor ==
  IInv /\ TokensHaveTakers /\ [Next]_vars => [M!MonitorNext]_(M!monitorVars)
  <1> SUFFICES ASSUME IInv, TokensHaveTakers, [Next]_vars
               PROVE  M!MonitorNext \/ UNCHANGED M!monitorVars
    OBVIOUS
  <1> USE ThreadsAssumption DEF Blocked, Region
  <1>1. TypeOK /\ Locks /\ CountExact /\ pc \in [Threads -> PCs]
    BY DEF IInv, TypeOK
  <1>2. \A t \in Threads : t \in Holding <=> mutex = t
    BY <1>1 DEF Locks, MutualExclusion
  <1>a. ASSUME NEW t \in Threads, Lock(t) PROVE M!Acquire(t)
    BY <1>1, <1>a DEF Lock, Goto, M!Acquire, M!Outside
  <1>b. ASSUME NEW t \in Threads, Unlock(t) PROVE M!Release(t)
    BY <1>1, <1>2, <1>b DEF Unlock, Goto, Holding, M!Release
  <1>c. ASSUME NEW t \in Threads, WaitRelease(t) PROVE M!Wait(t)
    BY <1>1, <1>2, <1>c DEF WaitRelease, Goto, Holding, M!Wait
  <1>d. ASSUME NEW t \in Threads, WaitReceive(t) PROVE M!Wake(t)
    BY <1>1, <1>d DEF WaitReceive, Goto, M!Wake
  <1>e. ASSUME NEW t \in Threads, WaitTimeout(t) PROVE M!TimeOut(t)
    BY <1>1, <1>e DEF WaitTimeout, Goto, M!TimeOut
  <1>f. ASSUME NEW t \in Threads, WaitRelock(t) PROVE M!Reacquire(t)
    BY <1>1, <1>f DEF WaitRelock, Goto, M!Reacquire
  <1>g. ASSUME NEW t \in Threads, NotifySend(t) PROVE M!Notify(t)
    <2>1. mutex = t
      BY <1>2, <1>g DEF NotifySend, Notifying, Holding
    <2>2. Waiters # {}
      BY <1>g DEF NotifySend, TokensHaveTakers
    <2>3. QED
      BY <1>g, <2>1, <2>2 DEF NotifySend, Waiters, M!Notify
  <1>h. ASSUME NEW t \in Threads,
               \/ WaitDeregister(t) \/ NotifyEnd(t) \/ Signal(t) \/ Broadcast(t)
               \/ \E b \in BOOLEAN : WaitRegister(t, b)
        PROVE  UNCHANGED M!monitorVars
    <2>1. UNCHANGED <<mutex, evtQue>>
          /\ pc[t] \notin {"blocked", "relock"}
          /\ pc'[t] \notin {"blocked", "relock"}
          /\ \A u \in Threads : u # t => pc'[u] = pc[u]
      BY <1>1, <1>h
      DEF WaitDeregister, NotifyEnd, Notifying, Signal, Broadcast, NotifyBegin,
          WaitRegister, Goto
    <2>2. QED
      BY <2>1 DEF M!monitorVars
  <1>i. CASE UNCHANGED vars
    BY <1>i DEF vars, M!monitorVars
  <1>j. QED
    BY <1>a, <1>b, <1>c, <1>d, <1>e, <1>f, <1>g, <1>h, <1>i
    DEF Next, M!MonitorNext

(* What BuffPool, ThrdPool and the gateway assume of the layer holds of    *)
(* osal.c: its condition variable implements the monitor of module Monitor *)
(* for any number of tasks and any queue length.                           *)
THEOREM Implements == Spec => ImplementsMonitor
  <1>1. Init => TokensHaveTakers
    BY DEF Init, TokensHaveTakers, Notifying, Region
  <1>2. QED
    BY <1>1, Inductive, NextTokens, InitMonitor, NextMonitor, PTL
    DEF Spec, ImplementsMonitor, M!MonitorSpec
=============================================================================
