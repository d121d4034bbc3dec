----------------------------- MODULE LifeProofs -----------------------------
(***************************************************************************)
(* Proofs about the callback threads (ThrdPool), the receive side          *)
(* (RecvTask) and the life cycle it runs in (Builder, Life), for any       *)
(* number of events, threads, callers and any sizes of the buffers.        *)
(*                                                                         *)
(* PoolInv is inductive for the thread pool alone.  OrderInv says that the *)
(* events on their way form one line: begun, queued, in the receive task's *)
(* hand or postponed, in the HAL's buffer; with PoolInv and Ending it is   *)
(* inductive for the receive side, whatever the life cycle does meanwhile. *)
(* BuilderInv is inductive for the builder alone, and LifeInv joins them.  *)
(* The last two need that altcom_initialize and altcom_finalize do not     *)
(* cross: with Crossing they are false, see the README.                    *)
(***************************************************************************)
EXTENDS Life, FiniteSetTheorems, TLAPS

\* thrdpool_delete counts up to N, the number of threads.
N == Cardinality(Workers)

Sending ==
  /\ del = "off" => sent = 0
  /\ del = "send" => sent < N
  /\ del \notin {"off", "send"} => sent = N

\* Once a NULL job has been sent, it or a later one is the last of the queue.
NullLast == sent > 0 => que = <<>> \/ que[Len(que)] = NULL

\* Only a thread that has said TERMINATING is under delwaitcondmtx.
HolderLeaves == \A w \in Workers : mtx = w => thrd[w] = "TERMINATING"

\* thrdpool_delete frees when it has found all threads so, and none there.
FreedAlone == del \in {"free", "done"} => AllEnded /\ mtx = NULL

\* The inductive invariant of the pool.
PoolInv ==
  PoolTypeOK /\ NullForEach /\ Sending /\ NullLast /\ HolderLeaves /\ FreedAlone

(* The number of threads is a positive number. *)
LEMMA WorkerCount == N \in Nat /\ N > 0
  BY ThrdPoolAssumption, FS_CardinalityType, FS_EmptySet DEF N

(* Threads that have ended are among the threads. *)
LEMMA EndedCount == IsFiniteSet(Ended) /\ Cardinality(Ended) \in Nat /\ Cardinality(Ended) <= N
<1>1. Ended \subseteq Workers BY DEF Ended
<1> QED BY <1>1, ThrdPoolAssumption, FS_Subset, FS_CardinalityType DEF N

(* The invariant holds at the start. *)
LEMMA PoolInvInit == PoolInit => PoolInv
<1> SUFFICES ASSUME PoolInit PROVE PoolInv OBVIOUS
<1> USE ThrdPoolAssumption
<1>1. PoolTypeOK
  <2>1. que \in Seq(Jobs \cup {NULL}) /\ Len(que) <= QueNum BY DEF PoolInit
  <2>2. /\ thrd \in [Workers -> {"WAITING", "RUNNABLE", "leaving", "TERMINATING"}]
        /\ job \in [Workers -> Jobs \cup {NULL}]
    BY DEF PoolInit
  <2>3. sent \in 0..Cardinality(Workers) BY WorkerCount DEF PoolInit, N
  <2>4. del = "off" /\ mtx = NULL /\ woken = FALSE BY DEF PoolInit
  <2> QED BY <2>1, <2>2, <2>3, <2>4 DEF PoolTypeOK
<1>2. Cardinality(Ended) = 0
  <2>1. Ended = {} BY DEF PoolInit, Ended
  <2> QED BY <2>1, FS_EmptySet
<1>3. NullForEach BY <1>2 DEF PoolInit, NullForEach, Untaken
<1>4. Sending BY DEF PoolInit, Sending
<1>5. NullLast /\ HolderLeaves /\ FreedAlone
  BY DEF PoolInit, NullLast, HolderLeaves, FreedAlone
<1> QED BY <1>1, <1>3, <1>4, <1>5 DEF PoolInv

(* Appending to the queue, when no thread changes its state. *)
LEMMA SameEnded == thrd' = thrd => Ended' = Ended
  BY DEF Ended

(* A job is queued before the first NULL job: none has been sent. *)
LEMMA SubmitStep ==
  ASSUME PoolInv, NEW j \in Jobs, Submit(j)
  PROVE  PoolInv'
<1> USE ThrdPoolAssumption DEF PoolInv
<1>0. /\ que' = Append(que, j) /\ Len(que) < QueNum /\ del = "off"
      /\ UNCHANGED <<thrd, job, del, sent, mtx, woken>>
  BY DEF Submit, RunJob, HasRoom, delVars
<1>1. PoolTypeOK' BY <1>0 DEF PoolTypeOK
<1>2. sent = 0 /\ sent' = 0 BY <1>0 DEF Sending
<1>3. Untaken = 0 /\ Untaken' = 0
  BY <1>0, <1>2, SameEnded, EndedCount DEF NullForEach, Untaken
<1>4. NullForEach'
  <2> SUFFICES ASSUME NEW i \in DOMAIN que' PROVE que'[i] # NULL
    BY <1>1, <1>3 DEF NullForEach, PoolTypeOK
  <2>1. que \in Seq(Jobs \cup {NULL}) BY DEF PoolTypeOK
  <2>2. i \in 1..(Len(que) + 1) BY <1>0, <2>1
  <2>3. CASE i = Len(que) + 1 BY <2>1, <2>3, <1>0
  <2>4. CASE i # Len(que) + 1
    <3>1. i \in 1..Len(que) /\ que'[i] = que[i] BY <2>1, <2>2, <2>4, <1>0
    <3> QED BY <3>1, <2>1, <1>3 DEF NullForEach
  <2> QED BY <2>3, <2>4
<1>5. Sending' BY <1>0 DEF Sending
<1>6. NullLast' BY <1>2 DEF NullLast
<1>7. HolderLeaves' /\ FreedAlone' BY <1>0 DEF HolderLeaves, FreedAlone, AllEnded
<1> QED BY <1>1, <1>4, <1>5, <1>6, <1>7 DEF PoolInv

(* A thread takes the first job. *)
LEMMA TakeStep ==
  ASSUME PoolInv, NEW w \in Workers, Take(w)
  PROVE  PoolInv'
<1> USE ThrdPoolAssumption DEF PoolInv
<1>0. /\ thrd[w] = "WAITING" /\ que # <<>> /\ Head(que) # NULL
      /\ thrd' = [thrd EXCEPT ![w] = "RUNNABLE"]
      /\ job' = [job EXCEPT ![w] = Head(que)]
      /\ que' = Tail(que)
      /\ UNCHANGED <<del, sent, mtx, woken>>
  BY DEF Take, delVars
<1>1. que \in Seq(Jobs \cup {NULL}) BY DEF PoolTypeOK
<1>2. Len(que') = Len(que) - 1 /\ \A i \in 1..Len(que') : que'[i] = que[i + 1]
  BY <1>0, <1>1
<1>3. PoolTypeOK' BY <1>0, <1>1, <1>2 DEF PoolTypeOK
<1>4. Ended' = Ended BY <1>0 DEF Ended, PoolTypeOK
<1>5. Untaken' = Untaken BY <1>0, <1>4 DEF Untaken
<1>6. Untaken <= Len(que) - 1
  <2>1. 1 \in DOMAIN que /\ Head(que) = que[1] BY <1>0, <1>1
  <2> QED BY <2>1, <1>0, <1>1, EndedCount DEF NullForEach, Untaken, PoolTypeOK
<1>7. NullForEach'
  <2>1. Untaken' \in 0..Len(que') BY <1>1, <1>2, <1>5, <1>6 DEF NullForEach
  <2>2. ASSUME NEW i \in DOMAIN que'
        PROVE  que'[i] = NULL <=> i > Len(que') - Untaken'
    <3>1. i \in 1..Len(que') BY <1>3 DEF PoolTypeOK
    <3>2. i + 1 \in DOMAIN que /\ que'[i] = que[i + 1] BY <3>1, <1>1, <1>2
    <3> QED BY <3>1, <3>2, <1>1, <1>2, <1>5, <2>1 DEF NullForEach
  <2> QED BY <2>1, <2>2 DEF NullForEach
<1>8. Sending' BY <1>0 DEF Sending
<1>9. NullLast'
  <2> SUFFICES ASSUME sent > 0, que' # <<>> PROVE que'[Len(que')] = NULL
    BY <1>0 DEF NullLast
  <2>1. Len(que') > 0 BY <1>3 DEF PoolTypeOK
  <2>2. que'[Len(que')] = que[Len(que)] BY <2>1, <1>1, <1>2
  <2> QED BY <2>2, <1>0 DEF NullLast
<1>10. HolderLeaves' BY <1>0 DEF HolderLeaves, PoolTypeOK
<1>11. FreedAlone' BY <1>0 DEF FreedAlone, AllEnded
<1> QED BY <1>3, <1>7, <1>8, <1>9, <1>10, <1>11 DEF PoolInv

(* A thread takes a NULL job: it has ended, and one fewer is untaken. *)
LEMMA TakeNullStep ==
  ASSUME PoolInv, NEW w \in Workers, TakeNull(w)
  PROVE  PoolInv'
<1> USE ThrdPoolAssumption DEF PoolInv
<1>0. /\ thrd[w] = "WAITING" /\ que # <<>> /\ Head(que) = NULL
      /\ thrd' = [thrd EXCEPT ![w] = "leaving"]
      /\ que' = Tail(que)
      /\ UNCHANGED <<job, del, sent, mtx, woken>>
  BY DEF TakeNull, delVars
<1>1. que \in Seq(Jobs \cup {NULL}) BY DEF PoolTypeOK
<1>2. Len(que') = Len(que) - 1 /\ \A i \in 1..Len(que') : que'[i] = que[i + 1]
  BY <1>0, <1>1
<1>3. PoolTypeOK' BY <1>0, <1>1, <1>2 DEF PoolTypeOK
<1>4. Cardinality(Ended') = Cardinality(Ended) + 1
  <2>1. Ended' = Ended \cup {w} BY <1>0 DEF Ended, PoolTypeOK
  <2>2. w \notin Ended BY <1>0 DEF Ended
  <2> QED BY <2>1, <2>2, EndedCount, FS_AddElement
<1>5. Untaken' = Untaken - 1 BY <1>0, <1>4, EndedCount DEF Untaken, PoolTypeOK
<1>6. Untaken = Len(que)
  <2>1. 1 \in DOMAIN que /\ Head(que) = que[1] BY <1>0, <1>1
  <2> QED BY <2>1, <1>0, <1>1 DEF NullForEach
<1>7. NullForEach'
  <2>1. Untaken' \in 0..Len(que') BY <1>0, <1>1, <1>2, <1>5, <1>6 DEF NullForEach
  <2>2. ASSUME NEW i \in DOMAIN que'
        PROVE  que'[i] = NULL <=> i > Len(que') - Untaken'
    <3>1. i \in 1..Len(que') BY <1>3 DEF PoolTypeOK
    <3>2. i + 1 \in DOMAIN que /\ que'[i] = que[i + 1] BY <3>1, <1>1, <1>2
    <3> QED BY <3>1, <3>2, <1>1, <1>2, <1>5, <1>6, <2>1 DEF NullForEach
  <2> QED BY <2>1, <2>2 DEF NullForEach
<1>8. Sending' BY <1>0 DEF Sending
<1>9. NullLast'
  <2> SUFFICES ASSUME sent > 0, que' # <<>> PROVE que'[Len(que')] = NULL
    BY <1>0 DEF NullLast
  <2>1. Len(que') > 0 BY <1>3 DEF PoolTypeOK
  <2>2. que'[Len(que')] = que[Len(que)] BY <2>1, <1>1, <1>2
  <2> QED BY <2>2, <1>0 DEF NullLast
<1>10. HolderLeaves' BY <1>0 DEF HolderLeaves, PoolTypeOK
<1>11. FreedAlone' BY <1>0 DEF FreedAlone, AllEnded
<1> QED BY <1>3, <1>7, <1>8, <1>9, <1>10, <1>11 DEF PoolInv

(* Steps that leave the queue and the set of ended threads alone. *)
LEMMA QuietStep ==
  ASSUME PoolInv, UNCHANGED <<que, sent>>, Ended' = Ended
  PROVE  NullForEach' /\ NullLast'
  BY DEF PoolInv, NullForEach, NullLast, Untaken

(* The other steps of a thread. *)
LEMMA WorkerEndStep ==
  ASSUME PoolInv, NEW w \in Workers, Finish(w) \/ Terminate(w) \/ Leave(w)
  PROVE  PoolInv'
<1> USE ThrdPoolAssumption DEF PoolInv
<1>1. CASE Finish(w)
  <2>1. Ended' = Ended BY <1>1 DEF Finish, Ended, PoolTypeOK
  <2>2. NullForEach' /\ NullLast' BY <1>1, <2>1, QuietStep DEF Finish, delVars
  <2>3. PoolTypeOK' BY <1>1 DEF Finish, PoolTypeOK, delVars
  <2>4. Sending' BY <1>1 DEF Finish, Sending, delVars
  <2>5. HolderLeaves' BY <1>1 DEF Finish, HolderLeaves, PoolTypeOK, delVars
  <2>6. FreedAlone' BY <1>1 DEF Finish, FreedAlone, AllEnded, delVars
  <2> QED BY <2>2, <2>3, <2>4, <2>5, <2>6 DEF PoolInv
<1>2. CASE Terminate(w)
  <2>1. Ended' = Ended BY <1>2 DEF Terminate, Ended, PoolTypeOK
  <2>2. NullForEach' /\ NullLast' BY <1>2, <2>1, QuietStep DEF Terminate
  <2>3. PoolTypeOK' BY <1>2 DEF Terminate, PoolTypeOK
  <2>4. Sending' BY <1>2 DEF Terminate, Sending
  <2>5. HolderLeaves' BY <1>2 DEF Terminate, HolderLeaves, PoolTypeOK
  <2>6. FreedAlone' BY <1>2 DEF Terminate, FreedAlone, AllEnded
  <2> QED BY <2>2, <2>3, <2>4, <2>5, <2>6 DEF PoolInv
<1>3. CASE Leave(w)
  <2>1. Ended' = Ended BY <1>3 DEF Leave, Ended
  <2>2. NullForEach' /\ NullLast' BY <1>3, <2>1, QuietStep DEF Leave
  <2>3. PoolTypeOK' BY <1>3 DEF Leave, PoolTypeOK
  <2>4. Sending' BY <1>3 DEF Leave, Sending
  <2>5. HolderLeaves' BY <1>3 DEF Leave, HolderLeaves
  <2>6. FreedAlone' BY <1>3 DEF Leave, FreedAlone, AllEnded
  <2> QED BY <2>2, <2>3, <2>4, <2>5, <2>6 DEF PoolInv
<1> QED BY <1>1, <1>2, <1>3

(* One more NULL job stands at the end of the queue. *)
LEMMA SendNullStep ==
  ASSUME PoolInv, SendNull
  PROVE  PoolInv'
<1> USE ThrdPoolAssumption DEF PoolInv
<1>0. /\ que' = Append(que, NULL) /\ Len(que) < QueNum /\ del = "send"
      /\ sent' = sent + 1
      /\ del' = IF sent' = N THEN "check" ELSE "send"
      /\ UNCHANGED <<thrd, job, mtx, woken>>
  BY DEF SendNull, HasRoom, N
<1>1. que \in Seq(Jobs \cup {NULL}) /\ sent \in Nat BY DEF PoolTypeOK
<1>2. sent < N BY <1>0 DEF Sending
<1>3. PoolTypeOK' BY <1>0, <1>1, <1>2, WorkerCount DEF PoolTypeOK, N
<1>4. Untaken' = Untaken + 1
  BY <1>0, <1>1, SameEnded, EndedCount DEF Untaken
<1>5. Len(que') = Len(que) + 1 BY <1>0, <1>1
<1>6. NullForEach'
  <2>1. Untaken' \in 0..Len(que') BY <1>1, <1>4, <1>5 DEF NullForEach
  <2>2. ASSUME NEW i \in DOMAIN que'
        PROVE  que'[i] = NULL <=> i > Len(que') - Untaken'
    <3>1. i \in 1..(Len(que) + 1) BY <1>0, <1>1
    <3>2. CASE i = Len(que) + 1
      <4>1. que'[i] = NULL BY <3>2, <1>0, <1>1
      <4> QED BY <4>1, <3>2, <1>1, <1>4, <1>5 DEF NullForEach
    <3>3. CASE i # Len(que) + 1
      <4>1. i \in DOMAIN que /\ que'[i] = que[i] BY <3>1, <3>3, <1>0, <1>1
      <4> QED BY <4>1, <1>1, <1>4, <1>5 DEF NullForEach
    <3> QED BY <3>2, <3>3
  <2> QED BY <2>1, <2>2 DEF NullForEach
<1>7. Sending' BY <1>0, <1>1, <1>2, WorkerCount DEF Sending
<1>8. NullLast' BY <1>0, <1>1, <1>5 DEF NullLast
<1>9. HolderLeaves' BY <1>0 DEF HolderLeaves
<1>10. FreedAlone' BY <1>0 DEF FreedAlone
<1> QED BY <1>3, <1>6, <1>7, <1>8, <1>9, <1>10 DEF PoolInv

(* The other steps of thrdpool_delete. *)
LEMMA DeleteStep ==
  ASSUME PoolInv, DeleteBegin \/ DeleteCheck \/ DeleteWake \/ DeleteFree
  PROVE  PoolInv'
<1> USE ThrdPoolAssumption DEF PoolInv
<1>0. UNCHANGED <<que, thrd, job, sent, mtx>>
  BY DEF DeleteBegin, DeleteCheck, DeleteWake, DeleteFree
<1>1. NullForEach' /\ NullLast' BY <1>0, SameEnded, QuietStep
<1>2. PoolTypeOK'
  BY <1>0 DEF PoolTypeOK, DeleteBegin, DeleteCheck, DeleteWake, DeleteFree
<1>3. Sending'
  BY <1>0, WorkerCount DEF Sending, DeleteBegin, DeleteCheck, DeleteWake, DeleteFree
<1>4. HolderLeaves' BY <1>0 DEF HolderLeaves
<1>5. FreedAlone'
  BY <1>0 DEF FreedAlone, AllEnded, DeleteBegin, DeleteCheck, DeleteWake, DeleteFree
<1> QED BY <1>1, <1>2, <1>3, <1>4, <1>5 DEF PoolInv

(* The invariant is inductive. *)
LEMMA PoolInvNext == PoolInv /\ [PoolNext]_pool => PoolInv'
<1> SUFFICES ASSUME PoolInv, [PoolNext]_pool PROVE PoolInv' OBVIOUS
<1>1. ASSUME NEW j \in Jobs, Submit(j) PROVE PoolInv' BY <1>1, SubmitStep
<1>2. ASSUME NEW w \in Workers, WorkerStep(w) PROVE PoolInv'
  BY <1>2, TakeStep, TakeNullStep, WorkerEndStep DEF WorkerStep, WorkerEnds
<1>3. CASE Delete BY <1>3, SendNullStep, DeleteStep DEF Delete
<1>4. CASE UNCHANGED pool
  <2>1. UNCHANGED <<que, thrd, job, del, sent, mtx, woken>> BY <1>4 DEF pool
  <2>2. Ended' = Ended BY <2>1 DEF Ended
  <2>3. NullForEach' /\ NullLast' BY <2>1, <2>2, QuietStep
  <2>4. PoolTypeOK' /\ Sending' /\ HolderLeaves' /\ FreedAlone'
    BY <2>1 DEF PoolInv, PoolTypeOK, Sending, HolderLeaves, FreedAlone, AllEnded
  <2> QED BY <2>3, <2>4 DEF PoolInv
<1> QED BY <1>1, <1>2, <1>3, <1>4 DEF PoolNext

(* The inductive invariant of the pool, which the theorems on the pool     *)
(* follow from (thrdpool.c:266-379).                                       *)
THEOREM PoolInvariant == PoolSpec => []PoolInv
  BY PoolInvInit, PoolInvNext, PTL DEF PoolSpec

(* The types, and the bound on the queue (thrdpool.c:266-272). *)
THEOREM PoolTypes == PoolSpec => []PoolTypeOK
<1>1. PoolInv => PoolTypeOK BY DEF PoolInv
<1> QED BY <1>1, PoolInvariant, PTL

(* One NULL job for each thread, behind every job (thrdpool.c:352-357). *)
THEOREM OneNullEach == PoolSpec => []NullForEach
<1>1. PoolInv => NullForEach BY DEF PoolInv
<1> QED BY <1>1, PoolInvariant, PTL

(* Once thrdpool_delete has counted every thread out, none is left. *)
LEMMA FreedAtEnd == PoolInv => FreedLast
<1> SUFFICES ASSUME PoolInv, del = "done" PROVE FreedLast BY DEF FreedLast
<1> USE ThrdPoolAssumption DEF PoolInv
<1>1. AllEnded /\ mtx = NULL BY DEF FreedAlone
<1>2. \A w \in Workers : thrd[w] = "TERMINATING" /\ mtx # w
  BY <1>1 DEF AllEnded
<1>3. Ended = Workers BY <1>2 DEF Ended
<1>4. sent = N /\ sent > 0 BY WorkerCount DEF Sending
<1>5. Untaken = 0 BY <1>3, <1>4, WorkerCount DEF Untaken, N
<1>6. que = <<>>
  <2> SUFFICES ASSUME que # <<>> PROVE FALSE OBVIOUS
  <2>1. Len(que) \in DOMAIN que BY DEF PoolTypeOK
  <2>2. que[Len(que)] = NULL BY <1>4 DEF NullLast
  <2> QED BY <2>1, <2>2, <1>5 DEF NullForEach, PoolTypeOK
<1> QED BY <1>2, <1>6 DEF FreedLast

(* When the shared data is freed (thrdpool.c:373-379) all threads have     *)
(* given up delwaitcondmtx for good, and no job is left in the queue.      *)
THEOREM FreedAfterAll == PoolSpec => []FreedLast
  BY FreedAtEnd, PoolInvariant, PTL
-----------------------------------------------------------------------------
\* The frame the receive task is about to dispatch.
Hand == IF rcv = "dispatch" THEN {cur} ELSE {}

\* From here on every job is an event.
USE DEF Events

\* The frames that no callback thread has been asked to serve, and the rest.
Waiting == Hand \cup Range(replay) \cup Range(hal)
Passed == Range(begun) \cup Range(que)

\* The elements of kind K: s has them in the order of h; those of S are
\* before those of T.
Sorted(h, K, s) == \A i, j \in DOMAIN s : i < j /\ s[i] \in K /\ s[j] \in K => Earlier(h, s[i], s[j])
Ahead(h, K, S, T) == \A a \in S \cap K, b \in T \cap K : Earlier(h, a, b)

\* The line of the events of kind K, from the first callback to the last
\* frame received.
Lined(K) ==
  /\ Sorted(arrived, K, begun) /\ Sorted(arrived, K, que)
  /\ Sorted(arrived, K, replay) /\ Sorted(arrived, K, hal)
  /\ Ahead(arrived, K, Range(begun), Range(que) \cup Waiting)
  /\ Ahead(arrived, K, Range(que), Waiting)
  /\ Ahead(arrived, K, Hand \cup Range(replay), Range(hal))
  /\ postpone => Ahead(arrived, K, Range(replay), Hand)
  /\ ~postpone => Ahead(arrived, K, Hand, Range(replay))

\* No event is dropped before the receive task ends, and none of its kind
\* overtakes another.
Kept(K) == rcv # "ended" => Range(arrived) \cap K \subseteq Passed \cup Waiting

NoneSkipped(K) ==
  \A a, b \in K : Earlier(arrived, a, b) /\ b \in Passed => a \in Passed

\* No event is sent twice or made up; the postponed ones are replayed before
\* the next frame is read, and not before the application is ready.
Once == \A i, j \in DOMAIN arrived : arrived[i] = arrived[j] => i = j
Came == (Passed \cup Waiting) \cap Events \subseteq Range(arrived)
ReplayFirst == rcv \in {"recv", "sleep"} /\ ~postpone => replay = <<>>
NotReady == Postpone /\ ~ready => postpone /\ Postponable \cap Passed = {}

\* The inductive invariant of the receive side, apart from the pool's.
Order == \A K \in Kinds : Lined(K) /\ Kept(K) /\ NoneSkipped(K)
OrderInv == TypeOK /\ Order /\ Once /\ Came /\ ReplayFirst /\ NotReady

(* What stands before what, when an element is appended. *)
LEMMA EarlierAppend ==
  ASSUME NEW S, NEW h \in Seq(S), NEW x \in S
  PROVE  /\ Append(h, x) \in Seq(S)
         /\ \A a, b : Earlier(h, a, b) => Earlier(Append(h, x), a, b)
         /\ \A a \in Range(h) : Earlier(Append(h, x), a, x)
         /\ \A a, b : Earlier(Append(h, x), a, b) => Earlier(h, a, b) \/ b = x
<1> DEFINE t == Append(h, x)
           n == Len(h)
<1>1. /\ t \in Seq(S) /\ DOMAIN h = 1..n /\ DOMAIN t = 1..(n + 1) /\ n \in Nat
      /\ t[n + 1] = x /\ \A i \in 1..n : t[i] = h[i]
  OBVIOUS
<1> HIDE DEF t, n
<1>2. \A a, b : Earlier(h, a, b) => Earlier(t, a, b)
  <2> SUFFICES ASSUME NEW a, NEW b, NEW i \in 1..n, NEW j \in 1..n, i < j, h[i] = a, h[j] = b
               PROVE  Earlier(t, a, b)
    BY <1>1 DEF Earlier
  <2> QED BY <1>1 DEF Earlier
<1>3. \A a \in Range(h) : Earlier(t, a, x)
  <2> SUFFICES ASSUME NEW i \in 1..n PROVE Earlier(t, h[i], x) BY <1>1 DEF Range
  <2>1. i \in DOMAIN t /\ n + 1 \in DOMAIN t /\ i < n + 1 BY <1>1
  <2> QED BY <1>1, <2>1 DEF Earlier
<1>4. \A a, b : Earlier(t, a, b) => Earlier(h, a, b) \/ b = x
  <2> SUFFICES ASSUME NEW i \in 1..(n + 1), NEW j \in 1..(n + 1), i < j, t[j] # x
               PROVE  Earlier(h, t[i], t[j])
    BY <1>1 DEF Earlier
  <2>1. i \in 1..n /\ j \in 1..n BY <1>1
  <2> QED BY <1>1, <2>1 DEF Earlier
<1> QED BY <1>1, <1>2, <1>3, <1>4 DEF t

(* Among different elements it is an order. *)
LEMMA EarlierIs ==
  ASSUME NEW S, NEW h \in Seq(S), \A i, j \in DOMAIN h : h[i] = h[j] => i = j
  PROVE  \A a, b : Earlier(h, a, b) => /\ a # b /\ ~ Earlier(h, b, a)
                                       /\ a \in Range(h) /\ b \in Range(h)
<1> SUFFICES ASSUME NEW a, NEW b, NEW i \in DOMAIN h, NEW j \in DOMAIN h, i < j, h[i] = a, h[j] = b
             PROVE  a # b /\ ~ Earlier(h, b, a) /\ a \in Range(h) /\ b \in Range(h)
  BY DEF Earlier
<1>0. i \in Nat /\ j \in Nat OBVIOUS
<1>1. a # b BY <1>0
<1>2. ~ Earlier(h, b, a)
  <2> SUFFICES ASSUME NEW k \in DOMAIN h, NEW m \in DOMAIN h, k < m, h[k] = b, h[m] = a
               PROVE  FALSE
    BY DEF Earlier
  <2> QED BY <1>0
<1> QED BY <1>1, <1>2 DEF Range

(* A sequence in order stays in order with an element behind all the rest. *)
LEMMA SortedAppend ==
  ASSUME NEW S, NEW s \in Seq(S), NEW x \in S, NEW h, NEW K,
         Sorted(h, K, s), Ahead(h, K, Range(s), {x})
  PROVE  Sorted(h, K, Append(s, x))
<1> DEFINE t == Append(s, x)
           n == Len(s)
<1>1. /\ DOMAIN s = 1..n /\ DOMAIN t = 1..(n + 1) /\ n \in Nat
      /\ t[n + 1] = x /\ \A i \in 1..n : t[i] = s[i]
  OBVIOUS
<1> HIDE DEF t, n
<1>2. ASSUME NEW i \in DOMAIN t, NEW j \in DOMAIN t, i < j, t[i] \in K, t[j] \in K
      PROVE  Earlier(h, t[i], t[j])
  <2>1. i \in 1..n /\ i \in Nat /\ j \in Nat BY <1>1, <1>2
  <2>2. CASE j \in 1..n BY <1>1, <1>2, <2>1, <2>2 DEF Sorted
  <2>3. CASE j = n + 1
    <3>1. t[j] = x /\ t[i] \in Range(s) BY <1>1, <2>1, <2>3 DEF Range
    <3> QED BY <1>2, <3>1 DEF Ahead
  <2> QED BY <1>1, <2>2, <2>3
<1> QED BY <1>2 DEF Sorted, t

(* What an appended sequence holds. *)
LEMMA RangeAppend ==
  ASSUME NEW S, NEW s \in Seq(S), NEW x \in S
  PROVE  Append(s, x) \in Seq(S) /\ Range(Append(s, x)) = Range(s) \cup {x}
<1> DEFINE t == Append(s, x)
           n == Len(s)
<1>1. /\ t \in Seq(S) /\ DOMAIN s = 1..n /\ DOMAIN t = 1..(n + 1) /\ n \in Nat
      /\ t[n + 1] = x /\ \A i \in 1..n : t[i] = s[i]
  OBVIOUS
<1> HIDE DEF t, n
<1>2. \A i \in 1..(n + 1) : i \in 1..n \/ i = n + 1 BY <1>1
<1>3. \A i \in 1..n : i \in 1..(n + 1) BY <1>1
<1>4. n + 1 \in 1..(n + 1) BY <1>1
<1>5. Range(t) \subseteq Range(s) \cup {x} BY <1>1, <1>2 DEF Range
<1>6. Range(s) \subseteq Range(t)
  <2> SUFFICES ASSUME NEW i \in 1..n PROVE s[i] \in Range(t) BY <1>1 DEF Range
  <2>1. i \in DOMAIN t /\ t[i] = s[i] BY <1>1, <1>3
  <2> QED BY <2>1 DEF Range
<1>7. x \in Range(t) BY <1>1, <1>4 DEF Range
<1> QED BY <1>1, <1>5, <1>6, <1>7 DEF t

(* The first element of a sequence in order is before the rest of it. *)
LEMMA SortedTail ==
  ASSUME NEW S, NEW s \in Seq(S), s # <<>>
  PROVE  /\ Head(s) \in S /\ Tail(s) \in Seq(S) /\ Range(s) = {Head(s)} \cup Range(Tail(s))
         /\ \A h, K : Sorted(h, K, s) => Sorted(h, K, Tail(s))
                                        /\ Ahead(h, K, {Head(s)}, Range(Tail(s)))
<1> DEFINE t == Tail(s)
           n == Len(s)
<1>1. /\ t \in Seq(S) /\ DOMAIN s = 1..n /\ DOMAIN t = 1..(n - 1) /\ n \in Nat \ {0}
      /\ Head(s) = s[1] /\ \A i \in 1..(n - 1) : t[i] = s[i + 1]
  OBVIOUS
<1> HIDE DEF t, n
<1>2. \A i \in 1..(n - 1) : i + 1 \in 1..n /\ 1 < i + 1 /\ 1 \in 1..n BY <1>1
<1>3. \A i \in 1..n : i = 1 \/ (i - 1 \in 1..(n - 1) /\ (i - 1) + 1 = i) BY <1>1
<1>4. Head(s) \in S /\ 1 \in 1..n BY <1>1
<1>5. Range(t) \subseteq Range(s)
  <2> SUFFICES ASSUME NEW i \in 1..(n - 1) PROVE t[i] \in Range(s) BY <1>1 DEF Range
  <2>1. i + 1 \in DOMAIN s /\ s[i + 1] = t[i] BY <1>1, <1>2
  <2> QED BY <2>1 DEF Range
<1>6. Head(s) \in Range(s) BY <1>1, <1>4 DEF Range
<1>7. Range(s) \subseteq {Head(s)} \cup Range(t)
  <2> SUFFICES ASSUME NEW i \in 1..n, i # 1 PROVE s[i] \in Range(t) BY <1>1 DEF Range
  <2>1. i - 1 \in DOMAIN t /\ t[i - 1] = s[i] BY <1>1, <1>3
  <2> QED BY <2>1 DEF Range
<1>8. ASSUME NEW h, NEW K, Sorted(h, K, s)
      PROVE  Sorted(h, K, t) /\ Ahead(h, K, {Head(s)}, Range(t))
  <2>1. ASSUME NEW i \in 1..(n - 1), NEW j \in 1..(n - 1), i < j, t[i] \in K, t[j] \in K
        PROVE  Earlier(h, t[i], t[j])
    <3>1. i + 1 < j + 1 BY <2>1, <1>1
    <3> QED BY <1>1, <1>2, <1>8, <2>1, <3>1 DEF Sorted
  <2>2. ASSUME NEW i \in 1..(n - 1), s[1] \in K, t[i] \in K
        PROVE  Earlier(h, s[1], t[i])
    BY <1>1, <1>2, <1>8, <2>2 DEF Sorted
  <2>3. Sorted(h, K, t) BY <1>1, <2>1 DEF Sorted
  <2>4. Ahead(h, K, {Head(s)}, Range(t)) BY <1>1, <2>2 DEF Ahead, Range
  <2> QED BY <2>3, <2>4
<1> QED BY <1>1, <1>4, <1>5, <1>6, <1>7, <1>8 DEF t

(* What is in order stays in order when one more event has arrived. *)
LEMMA OrderGrows ==
  ASSUME NEW S, NEW h \in Seq(S), NEW x \in S, NEW K
  PROVE  /\ \A s : Sorted(h, K, s) => Sorted(Append(h, x), K, s)
         /\ \A A, D : Ahead(h, K, A, D) => Ahead(Append(h, x), K, A, D)
<1>1. \A a, b : Earlier(h, a, b) => Earlier(Append(h, x), a, b) BY EarlierAppend
<1> QED BY <1>1 DEF Sorted, Ahead

(* The events of a kind are all postponable or none is, and no answer is one. *)
LEMMA KindIs ==
  ASSUME NEW K \in Kinds
  PROVE  /\ K \subseteq Events /\ K \cap Answers = {} /\ NULL \notin K
         /\ (K \subseteq Postponable \/ K \cap Postponable = {})
  BY RecvTaskAssumption, ThrdPoolAssumption DEF Kinds, Frames

(* Events, answers and the empty job are different things. *)
LEMMA FramesDiffer == Events \cap Answers = {} /\ NULL \notin Events /\ NULL \notin Answers
  BY RecvTaskAssumption, ThrdPoolAssumption DEF Frames

(* The types of the sequences an event passes through. *)
LEMMA SeqTypes ==
  ASSUME TypeOK
  PROVE  /\ que \in Seq(Events \cup {NULL}) /\ hal \in Seq(Frames)
         /\ replay \in Seq(Postponable) /\ replay \in Seq(Events)
         /\ arrived \in Seq(Events) /\ begun \in Seq(Events)
  BY RecvTaskAssumption DEF TypeOK, PoolTypeOK

(* Steps that move no event. *)
LEMMA QuietOrder ==
  ASSUME Order, UNCHANGED <<hal, postpone, replay, que, begun, arrived>>,
         Hand' = Hand, rcv = "ended" => rcv' = "ended"
  PROVE  Order'
<1> SUFFICES ASSUME NEW K \in Kinds PROVE Lined(K)' /\ Kept(K)' /\ NoneSkipped(K)'
  BY DEF Order
<1>0. Lined(K) /\ Kept(K) /\ NoneSkipped(K) BY DEF Order
<1>1. Waiting' = Waiting /\ Passed' = Passed BY DEF Waiting, Passed
<1>2. Lined(K)' BY <1>0, <1>1 DEF Lined
<1>3. Kept(K)' BY <1>0, <1>1 DEF Kept
<1>4. NoneSkipped(K)' BY <1>0, <1>1 DEF NoneSkipped
<1> QED BY <1>2, <1>3, <1>4

(* An event enters the HAL's buffer behind all others. *)
LEMMA ArriveEventOrder ==
  ASSUME OrderInv, NEW e \in Events, ArriveEvent(e)
  PROVE  Order' /\ Once' /\ Came'
<1>0. /\ e \notin Range(arrived) /\ arrived' = Append(arrived, e) /\ hal' = Append(hal, e)
      /\ UNCHANGED <<postpone, replay, que, begun, rcv, cur>>
  BY DEF ArriveEvent, Arrive, pool, task
<1>1. /\ hal \in Seq(Frames) /\ arrived \in Seq(Events) /\ e \in Frames
  BY SeqTypes DEF OrderInv, Frames
<1>2. Range(hal') = Range(hal) \cup {e} /\ Range(arrived') = Range(arrived) \cup {e}
  BY <1>0, <1>1, RangeAppend
<1>3. Hand' = Hand /\ Passed' = Passed /\ Waiting' = Waiting \cup {e}
  BY <1>0, <1>2 DEF Hand, Passed, Waiting
<1>4. \A x \in (Passed \cup Waiting) \cap Events : Earlier(arrived', x, e)
  BY <1>0, <1>1, EarlierAppend DEF OrderInv, Came
<1>5. ASSUME NEW K \in Kinds PROVE Lined(K)' /\ Kept(K)' /\ NoneSkipped(K)'
  <2>0. Lined(K) /\ Kept(K) /\ NoneSkipped(K) /\ K \subseteq Events
    <3>1. Lined(K) /\ Kept(K) /\ NoneSkipped(K) BY DEF OrderInv, Order
    <3> QED BY <3>1, KindIs
  <2>1. /\ \A s : Sorted(arrived, K, s) => Sorted(arrived', K, s)
        /\ \A A, D : Ahead(arrived, K, A, D) => Ahead(arrived', K, A, D)
    BY <1>0, <1>1, OrderGrows
  <2>2. \A A \in SUBSET (Passed \cup Waiting) : Ahead(arrived', K, A, {e})
    BY <1>4, <2>0 DEF Ahead
  <2>3. \A A, D, C : Ahead(arrived', K, A, D) /\ Ahead(arrived', K, A, C)
                       => Ahead(arrived', K, A, D \cup C)
    BY DEF Ahead
  <2>4. Sorted(arrived', K, hal')
    <3>1. Sorted(arrived', K, hal) BY <2>0, <2>1 DEF Lined
    <3>2. Ahead(arrived', K, Range(hal), {e}) BY <2>2 DEF Waiting
    <3> QED BY <1>0, <1>1, <3>1, <3>2, SortedAppend
  <2>5. Lined(K)'
    <3>1. /\ Sorted(arrived', K, begun) /\ Sorted(arrived', K, que) /\ Sorted(arrived', K, replay)
      BY <2>0, <2>1 DEF Lined
    <3>2. Ahead(arrived', K, Range(begun), (Range(que) \cup Waiting) \cup {e})
      BY <2>0, <2>1, <2>2, <2>3 DEF Lined, Passed
    <3>3. Ahead(arrived', K, Range(que), Waiting \cup {e})
      BY <2>0, <2>1, <2>2, <2>3 DEF Lined, Passed
    <3>4. Ahead(arrived', K, Hand \cup Range(replay), Range(hal) \cup {e})
      BY <2>0, <2>1, <2>2, <2>3 DEF Lined, Waiting
    <3>5. /\ postpone => Ahead(arrived', K, Range(replay), Hand)
          /\ ~postpone => Ahead(arrived', K, Hand, Range(replay))
      BY <2>0, <2>1 DEF Lined
    <3>6. Range(que) \cup (Waiting \cup {e}) = (Range(que) \cup Waiting) \cup {e} OBVIOUS
    <3> QED BY <1>0, <1>2, <1>3, <2>4, <3>1, <3>2, <3>3, <3>4, <3>5, <3>6 DEF Lined
  <2>6. Kept(K)' BY <1>0, <1>2, <1>3, <2>0 DEF Kept
  <2>7. NoneSkipped(K)'
    <3>1. e \notin Passed BY <1>0 DEF OrderInv, Came
    <3>2. \A a, b : Earlier(arrived', a, b) => Earlier(arrived, a, b) \/ b = e
      BY <1>0, <1>1, EarlierAppend
    <3> QED BY <1>3, <2>0, <3>1, <3>2 DEF NoneSkipped
  <2> QED BY <2>5, <2>6, <2>7
<1>6. Order' BY <1>5 DEF Order
<1>7. Once'
  <2> DEFINE n == Len(arrived)
  <2>1. /\ DOMAIN arrived = 1..n /\ DOMAIN arrived' = 1..(n + 1) /\ n \in Nat
        /\ arrived'[n + 1] = e /\ \A i \in 1..n : arrived'[i] = arrived[i]
    BY <1>0, <1>1
  <2>2. \A i \in 1..n : arrived[i] # e BY <1>0, <2>1 DEF Range
  <2>3. \A i, j \in 1..n : arrived[i] = arrived[j] => i = j BY <2>1 DEF OrderInv, Once
  <2> HIDE DEF n
  <2> SUFFICES ASSUME NEW i \in 1..(n + 1), NEW j \in 1..(n + 1), arrived'[i] = arrived'[j]
               PROVE  i = j
    BY <2>1 DEF Once
  <2>4. i \in 1..n \/ i = n + 1 BY <2>1
  <2>5. j \in 1..n \/ j = n + 1 BY <2>1
  <2> QED BY <2>1, <2>2, <2>3, <2>4, <2>5
<1>8. Came' BY <1>2, <1>3 DEF OrderInv, Came
<1> QED BY <1>6, <1>7, <1>8

(* An answer enters the HAL's buffer; it is of no kind. *)
LEMMA ArriveAnswerOrder ==
  ASSUME OrderInv, NEW e \in Events, ArriveAnswer(e)
  PROVE  Order' /\ Came'
<1> DEFINE f == Answer(e)
<1>0. /\ hal' = Append(hal, f) /\ UNCHANGED <<arrived, postpone, replay, que, begun, rcv, cur>>
  BY DEF ArriveAnswer, Arrive, pool, task
<1>1. hal \in Seq(Frames) /\ f \in Frames /\ f \in Answers BY SeqTypes DEF OrderInv, Frames, Answers
<1> HIDE DEF f
<1>2. Range(hal') = Range(hal) \cup {f} BY <1>0, <1>1, RangeAppend
<1>3. Hand' = Hand /\ Passed' = Passed /\ Waiting' = Waiting \cup {f}
  BY <1>0, <1>2 DEF Hand, Passed, Waiting
<1>4. ASSUME NEW K \in Kinds PROVE Lined(K)' /\ Kept(K)' /\ NoneSkipped(K)'
  <2>0. Lined(K) /\ Kept(K) /\ NoneSkipped(K) BY DEF OrderInv, Order
  <2>1. f \notin K BY <1>1, KindIs
  <2>2. Sorted(arrived, K, hal')
    <3>1. Ahead(arrived, K, Range(hal), {f}) BY <2>1 DEF Ahead
    <3>2. Sorted(arrived, K, hal) BY <2>0 DEF Lined
    <3> QED BY <1>0, <1>1, <3>1, <3>2, SortedAppend
  <2>3. \A A, D, C : Ahead(arrived, K, A, D) /\ C \cap K \subseteq D \cap K => Ahead(arrived, K, A, C)
    BY DEF Ahead
  <2>4. /\ (Range(hal) \cup {f}) \cap K \subseteq Range(hal) \cap K
        /\ (Waiting \cup {f}) \cap K \subseteq Waiting \cap K
        /\ (Range(que) \cup (Waiting \cup {f})) \cap K \subseteq (Range(que) \cup Waiting) \cap K
    BY <2>1
  <2>5. Lined(K)' BY <1>0, <1>2, <1>3, <2>0, <2>2, <2>3, <2>4 DEF Lined
  <2>6. Kept(K)' BY <1>0, <1>3, <2>0 DEF Kept
  <2>7. NoneSkipped(K)' BY <1>0, <1>3, <2>0 DEF NoneSkipped
  <2> QED BY <2>5, <2>6, <2>7
<1>5. Came' BY <1>0, <1>1, <1>3, FramesDiffer DEF OrderInv, Came
<1> QED BY <1>4, <1>5 DEF Order

(* Only the front of the line moves: a step that leaves it a line. *)
LEMMA MovedOrder ==
  ASSUME OrderInv, UNCHANGED arrived, rcv = "ended" => rcv' = "ended",
         (Passed \cup Waiting)' \cap Events \subseteq Passed \cup Waiting,
         rcv' # "ended" => (Passed \cup Waiting) \cap Events \subseteq (Passed \cup Waiting)',
         \A K \in Kinds : Lined(K)' /\ NoneSkipped(K)'
  PROVE  Order' /\ Came'
<1>1. ASSUME NEW K \in Kinds PROVE Kept(K)'
  <2>1. Kept(K) BY DEF OrderInv, Order
  <2>2. K \subseteq Events BY KindIs
  <2> QED BY <2>1, <2>2 DEF Kept
<1>2. Came' BY DEF OrderInv, Came
<1> QED BY <1>1, <1>2 DEF Order

(* The receive task takes the first frame, or the first postponed event. *)
LEMMA RecvFrameOrder ==
  ASSUME OrderInv, RecvFrame
  PROVE  Order' /\ Came'
<1>0. UNCHANGED <<arrived, postpone, replay, que, begun>> /\ rcv = "recv" /\ Hand = {}
  BY DEF RecvFrame, pool, history, Hand
<1>1. CASE hal = <<>>
  <2>1. hal' = hal /\ Hand' = Hand BY <1>0, <1>1 DEF RecvFrame, Hand
  <2>2. Waiting' = Waiting /\ Passed' = Passed BY <1>0, <2>1 DEF Waiting, Passed
  <2>3. Order' BY <1>0, <2>1, QuietOrder DEF OrderInv
  <2> QED BY <1>0, <2>2, <2>3 DEF OrderInv, Came
<1>2. CASE hal # <<>>
  <2>1. Hand' = {Head(hal)} /\ hal' = Tail(hal) /\ rcv' = "dispatch"
    BY <1>2 DEF RecvFrame, Hand
  <2>2. hal \in Seq(Frames) BY SeqTypes DEF OrderInv
  <2>3. /\ Range(hal) = {Head(hal)} \cup Range(hal')
        /\ \A K : Sorted(arrived, K, hal) => /\ Sorted(arrived, K, hal')
                                            /\ Ahead(arrived, K, {Head(hal)}, Range(hal'))
    BY <1>2, <2>1, <2>2, SortedTail
  <2>4. Waiting' = Waiting /\ Passed' = Passed BY <1>0, <2>1, <2>3 DEF Waiting, Passed
  <2>5. ~postpone => replay = <<>> BY <1>0 DEF OrderInv, ReplayFirst
  <2>6. ASSUME NEW K \in Kinds PROVE Lined(K)' /\ NoneSkipped(K)'
    <3>0. Lined(K) /\ NoneSkipped(K) BY DEF OrderInv, Order
    <3>1. Ahead(arrived, K, Range(replay), {Head(hal)}) /\ Ahead(arrived, K, Range(replay), Range(hal'))
      BY <2>3, <3>0 DEF Lined, Ahead
    <3>2. Ahead(arrived, K, {Head(hal)} \cup Range(replay), Range(hal'))
      BY <2>3, <3>0, <3>1 DEF Lined, Ahead
    <3>3. ~postpone => Ahead(arrived, K, {Head(hal)}, Range(replay))
      BY <2>5 DEF Ahead, Range
    <3>4. Lined(K)' BY <1>0, <2>1, <2>3, <2>4, <3>0, <3>1, <3>2, <3>3 DEF Lined
    <3>5. NoneSkipped(K)' BY <1>0, <2>4, <3>0 DEF NoneSkipped
    <3> QED BY <3>4, <3>5
  <2> QED BY <1>0, <2>1, <2>4, <2>6, MovedOrder
<1> QED BY <1>1, <1>2

(* The receive task goes for a frame, or takes the first postponed event. *)
LEMMA IdleOrder ==
  ASSUME OrderInv, Idle
  PROVE  Order' /\ Came'
<1>0. /\ UNCHANGED <<arrived, hal, que, begun>> /\ rcv = "idle" /\ Hand = {}
      /\ postpone' => postpone
  BY DEF Idle, Postponing, pool, history, Hand
<1>1. CASE Postponing \/ replay = <<>>
  <2>1. replay' = replay /\ Hand' = Hand /\ rcv' = "recv" BY <1>0, <1>1 DEF Idle, Hand
  <2>2. Waiting' = Waiting /\ Passed' = Passed BY <1>0, <2>1 DEF Waiting, Passed
  <2>3. ASSUME NEW K \in Kinds PROVE Lined(K)' /\ NoneSkipped(K)'
    <3>0. Lined(K) /\ NoneSkipped(K) BY DEF OrderInv, Order
    <3>1. \A A : Ahead(arrived, K, Hand, A) /\ Ahead(arrived, K, A, Hand) BY <1>0 DEF Ahead
    <3>2. Lined(K)' BY <1>0, <2>1, <2>2, <3>0, <3>1 DEF Lined
    <3>3. NoneSkipped(K)' BY <1>0, <2>2, <3>0 DEF NoneSkipped
    <3> QED BY <3>2, <3>3
  <2> QED BY <1>0, <2>1, <2>2, <2>3, MovedOrder
<1>2. CASE ~ (Postponing \/ replay = <<>>)
  <2>1. Hand' = {Head(replay)} /\ replay' = Tail(replay) /\ rcv' = "dispatch" /\ ~postpone'
    BY <1>2 DEF Idle, Hand
  <2>2. replay \in Seq(Events) BY SeqTypes DEF OrderInv
  <2>3. /\ Range(replay) = {Head(replay)} \cup Range(replay')
        /\ \A K : Sorted(arrived, K, replay) => /\ Sorted(arrived, K, replay')
                                               /\ Ahead(arrived, K, {Head(replay)}, Range(replay'))
    BY <1>2, <2>1, <2>2, SortedTail
  <2>4. Waiting' = Waiting /\ Passed' = Passed /\ Hand' \cup Range(replay') = Hand \cup Range(replay)
    BY <1>0, <2>1, <2>3 DEF Waiting, Passed
  <2>5. ASSUME NEW K \in Kinds PROVE Lined(K)' /\ NoneSkipped(K)'
    <3>0. Lined(K) /\ NoneSkipped(K) BY DEF OrderInv, Order
    <3>1. Lined(K)' BY <1>0, <2>1, <2>3, <2>4, <3>0 DEF Lined
    <3>2. NoneSkipped(K)' BY <1>0, <2>4, <3>0 DEF NoneSkipped
    <3> QED BY <3>1, <3>2
  <2> QED BY <1>0, <2>1, <2>4, <2>5, MovedOrder
<1> QED BY <1>1, <1>2

(* An answer is dispatched. *)
LEMMA DispatchAnswerOrder ==
  ASSUME OrderInv, DispatchAnswer
  PROVE  Order' /\ Came'
<1>0. /\ UNCHANGED <<arrived, hal, replay, postpone, que, begun>> /\ rcv # "ended"
      /\ Hand = {cur} /\ Hand' = {} /\ cur \in Answers
  BY DEF DispatchAnswer, pool, history, Hand
<1>1. Passed' = Passed /\ Waiting' \cup {cur} = Waiting BY <1>0 DEF Passed, Waiting
<1>2. ASSUME NEW K \in Kinds PROVE Lined(K)' /\ NoneSkipped(K)'
  <2>0. Lined(K) /\ NoneSkipped(K) BY DEF OrderInv, Order
  <2>1. Lined(K)' BY <1>0, <1>1, <2>0 DEF Lined, Ahead
  <2>2. NoneSkipped(K)' BY <1>0, <1>1, <2>0 DEF NoneSkipped
  <2> QED BY <2>1, <2>2
<1>3. cur \notin Events BY <1>0, FramesDiffer
<1> QED BY <1>0, <1>1, <1>2, <1>3, MovedOrder

(* An event goes to the end of the postponed ones. *)
LEMMA DispatchPostponeOrder ==
  ASSUME OrderInv, DispatchPostpone
  PROVE  Order' /\ Came'
<1>0. /\ UNCHANGED <<arrived, hal, postpone, que, begun>> /\ rcv # "ended"
      /\ Hand = {cur} /\ Hand' = {} /\ cur \in Postponable /\ replay' = Append(replay, cur)
      /\ postpone
  BY DEF DispatchPostpone, IsPostponed, Postponed, pool, history, Hand
<1>1. replay \in Seq(Postponable) BY SeqTypes DEF OrderInv
<1>2. Range(replay') = Range(replay) \cup {cur} BY <1>0, <1>1, RangeAppend
<1>3. Passed' = Passed /\ Waiting' = Waiting BY <1>0, <1>2 DEF Passed, Waiting
<1>4. ASSUME NEW K \in Kinds PROVE Lined(K)' /\ NoneSkipped(K)'
  <2>0. Lined(K) /\ NoneSkipped(K) BY DEF OrderInv, Order
  <2>1. Sorted(arrived, K, replay) /\ Ahead(arrived, K, Range(replay), {cur})
    BY <1>0, <2>0 DEF Lined
  <2>2. Sorted(arrived, K, replay') BY <1>0, <1>1, <2>1, SortedAppend
  <2>3. Hand' \cup Range(replay') = Hand \cup Range(replay) BY <1>0, <1>2
  <2>4. Ahead(arrived, K, Range(replay'), Hand') BY <1>0 DEF Ahead
  <2>5. Lined(K)' BY <1>0, <1>3, <2>0, <2>2, <2>3, <2>4 DEF Lined
  <2>6. NoneSkipped(K)' BY <1>0, <1>3, <2>0 DEF NoneSkipped
  <2> QED BY <2>5, <2>6
<1> QED BY <1>0, <1>3, <1>4, MovedOrder

(* An event goes to the queue of the callback threads.  None of its kind   *)
(* that came earlier is still behind it.                                   *)
LEMMA DispatchRunOrder ==
  ASSUME OrderInv, DispatchRun
  PROVE  Order' /\ Came'
<1>0. /\ UNCHANGED <<arrived, hal, postpone, replay, begun>> /\ rcv # "ended"
      /\ Hand = {cur} /\ Hand' = {} /\ cur \in Events /\ que' = Append(que, cur)
      /\ (postpone => cur \notin Postponable)
  BY DEF DispatchRun, IsPostponed, RunJob, history, Hand
<1>1. /\ que \in Seq(Events \cup {NULL}) /\ cur \in Events \cup {NULL} /\ arrived \in Seq(Events)
      /\ replay \in Seq(Postponable)
  BY <1>0, SeqTypes DEF OrderInv
<1>2. Range(que') = Range(que) \cup {cur} BY <1>0, <1>1, RangeAppend
<1>3. Passed' = Passed \cup {cur} /\ Waiting = Waiting' \cup {cur}
  BY <1>0, <1>2 DEF Passed, Waiting
<1>4. \A a, b : Earlier(arrived, a, b) => a # b /\ ~ Earlier(arrived, b, a) /\ a \in Range(arrived)
  BY <1>1, EarlierIs DEF OrderInv, Once
<1>5. Range(replay) \subseteq Postponable BY <1>1 DEF Range
<1>6. ASSUME NEW K \in Kinds PROVE Lined(K)' /\ NoneSkipped(K)'
  <2>0. Lined(K) /\ NoneSkipped(K) /\ Kept(K) BY DEF OrderInv, Order
  <2>1. K \subseteq Postponable \/ K \cap Postponable = {} BY KindIs
  <2>2. Ahead(arrived, K, {cur}, Range(replay))
    <3>1. CASE postpone /\ K \subseteq Postponable BY <1>0, <3>1 DEF Ahead
    <3>2. CASE K \cap Postponable = {} BY <1>5, <3>2 DEF Ahead
    <3>3. CASE ~postpone BY <1>0, <2>0, <3>3 DEF Lined
    <3> QED BY <2>1, <3>1, <3>2, <3>3
  <2>3. Ahead(arrived, K, {cur}, Range(hal)) BY <1>0, <2>0 DEF Lined, Ahead
  <2>4. Ahead(arrived, K, {cur}, Waiting') BY <1>0, <2>2, <2>3 DEF Ahead, Waiting
  <2>5. Sorted(arrived, K, que')
    <3>1. Sorted(arrived, K, que) /\ Ahead(arrived, K, Range(que), {cur})
      BY <1>3, <2>0 DEF Lined, Ahead
    <3> QED BY <1>0, <1>1, <3>1, SortedAppend
  <2>6. Ahead(arrived, K, Range(begun), Range(que') \cup Waiting')
    BY <1>2, <1>3, <2>0 DEF Lined, Ahead
  <2>7. Ahead(arrived, K, Range(que'), Waiting')
    BY <1>2, <1>3, <2>0, <2>4 DEF Lined, Ahead
  <2>8. /\ Ahead(arrived, K, Hand' \cup Range(replay), Range(hal))
        /\ Ahead(arrived, K, Hand', Range(replay)) /\ Ahead(arrived, K, Range(replay), Hand')
    BY <1>0, <2>0 DEF Lined, Ahead
  <2>9. Lined(K)' BY <1>0, <2>0, <2>5, <2>6, <2>7, <2>8 DEF Lined
  <2>10. NoneSkipped(K)'
    <3> SUFFICES ASSUME NEW a \in K, NEW b \in K, Earlier(arrived, a, b), b \in Passed'
                 PROVE  a \in Passed'
      BY <1>0 DEF NoneSkipped
    <3>1. CASE b \in Passed BY <1>3, <2>0, <3>1 DEF NoneSkipped
    <3>2. CASE b = cur
      <4>1. a \in Passed \cup Waiting BY <1>0, <1>4, <2>0 DEF Kept
      <4>2. a \notin Waiting' BY <1>4, <2>4, <3>2 DEF Ahead
      <4> QED BY <1>3, <4>1, <4>2
    <3> QED BY <1>3, <3>1, <3>2
  <2> QED BY <2>9, <2>10
<1> QED BY <1>0, <1>3, <1>6, MovedOrder

(* A callback begins with the first event of the queue. *)
LEMMA BeginOrder ==
  ASSUME OrderInv, NEW w \in Workers, Begin(w)
  PROVE  Order' /\ Came'
<1> DEFINE e == Head(que)
<1>0. /\ UNCHANGED <<arrived, hal, postpone, replay, rcv, cur>> /\ que # <<>> /\ que' = Tail(que)
      /\ e # NULL /\ job' = [job EXCEPT ![w] = e] /\ begun' = Append(begun, job'[w])
  BY DEF Begin, Take, task
<1>1. /\ que \in Seq(Events \cup {NULL}) /\ begun \in Seq(Events)
      /\ job \in [Workers -> Events \cup {NULL}]
  BY SeqTypes DEF OrderInv, TypeOK, PoolTypeOK
<1>2. /\ e \in Events /\ Range(que) = {e} \cup Range(que')
      /\ \A K : Sorted(arrived, K, que) => /\ Sorted(arrived, K, que')
                                          /\ Ahead(arrived, K, {e}, Range(que'))
  <2>1. /\ Head(que) \in Events \cup {NULL}
        /\ Range(que) = {Head(que)} \cup Range(Tail(que))
        /\ \A h, K : Sorted(h, K, que) => Sorted(h, K, Tail(que))
                                          /\ Ahead(h, K, {Head(que)}, Range(Tail(que)))
    <3> HIDE DEF e
    <3> QED BY <1>0, <1>1, SortedTail
  <2> QED BY <1>0, <2>1
<1>3. begun' = Append(begun, e) BY <1>0, <1>1
<1> HIDE DEF e
<1>4. Range(begun') = Range(begun) \cup {e} BY <1>1, <1>2, <1>3, RangeAppend
<1>5. Hand' = Hand /\ Waiting' = Waiting /\ Passed' = Passed
  BY <1>0, <1>2, <1>4 DEF Hand, Waiting, Passed
<1>6. ASSUME NEW K \in Kinds PROVE Lined(K)' /\ NoneSkipped(K)'
  <2>0. Lined(K) /\ NoneSkipped(K) BY DEF OrderInv, Order
  <2>1. Sorted(arrived, K, begun')
    <3>1. Sorted(arrived, K, begun) /\ Ahead(arrived, K, Range(begun), {e})
      BY <1>2, <2>0 DEF Lined, Ahead
    <3> QED BY <1>1, <1>2, <1>3, <3>1, SortedAppend
  <2>2. Sorted(arrived, K, que') /\ Ahead(arrived, K, {e}, Range(que'))
    BY <1>2, <2>0 DEF Lined
  <2>3. Ahead(arrived, K, {e}, Waiting) /\ Ahead(arrived, K, Range(que'), Waiting)
    BY <1>2, <2>0 DEF Lined, Ahead
  <2>4. Ahead(arrived, K, Range(begun'), Range(que') \cup Waiting)
    BY <1>2, <1>4, <2>0, <2>2, <2>3 DEF Lined, Ahead
  <2>5. Lined(K)' BY <1>0, <1>5, <2>0, <2>1, <2>2, <2>3, <2>4 DEF Lined
  <2>6. NoneSkipped(K)' BY <1>0, <1>5, <2>0 DEF NoneSkipped
  <2> QED BY <2>5, <2>6
<1> QED BY <1>0, <1>5, <1>6, MovedOrder

(* The NULL jobs come and go between the events. *)
LEMMA NullOrder ==
  ASSUME OrderInv, UNCHANGED <<arrived, hal, postpone, replay, rcv, cur, begun>>,
         que' = Append(que, NULL) \/ (que # <<>> /\ Head(que) = NULL /\ que' = Tail(que))
  PROVE  Order' /\ Came'
<1>1. que \in Seq(Events \cup {NULL}) /\ NULL \in Events \cup {NULL}
  BY SeqTypes DEF OrderInv
<1>2. Hand' = Hand /\ Waiting' = Waiting BY DEF Hand, Waiting
<1>3. NULL \notin Events BY FramesDiffer
<1>4. CASE que' = Append(que, NULL)
  <2>1. Range(que') = Range(que) \cup {NULL} BY <1>1, <1>4, RangeAppend
  <2>2. ASSUME NEW K \in Kinds PROVE Lined(K)' /\ NoneSkipped(K)'
    <3>0. Lined(K) /\ NoneSkipped(K) BY DEF OrderInv, Order
    <3>1. NULL \notin K BY KindIs
    <3>2. Sorted(arrived, K, que) /\ Ahead(arrived, K, Range(que), {NULL})
      BY <3>0, <3>1 DEF Lined, Ahead
    <3>3. Sorted(arrived, K, que') BY <1>1, <1>4, <3>2, SortedAppend
    <3>4. /\ Ahead(arrived, K, Range(begun), Range(que') \cup Waiting)
          /\ Ahead(arrived, K, Range(que'), Waiting)
      BY <2>1, <3>0, <3>1 DEF Lined, Ahead
    <3>5. Lined(K)' BY <1>2, <3>0, <3>3, <3>4 DEF Lined
    <3>6. NoneSkipped(K)' BY <2>1, <3>0, <3>1 DEF NoneSkipped, Passed
    <3> QED BY <3>5, <3>6
  <2>3. Passed' = Passed \cup {NULL} BY <2>1 DEF Passed
  <2> QED BY <1>2, <1>3, <2>2, <2>3, MovedOrder
<1>5. CASE que # <<>> /\ Head(que) = NULL /\ que' = Tail(que)
  <2>1. /\ Range(que) = {NULL} \cup Range(que')
        /\ \A K : Sorted(arrived, K, que) => Sorted(arrived, K, que')
    BY <1>1, <1>5, SortedTail
  <2>2. ASSUME NEW K \in Kinds PROVE Lined(K)' /\ NoneSkipped(K)'
    <3>0. Lined(K) /\ NoneSkipped(K) BY DEF OrderInv, Order
    <3>1. NULL \notin K BY KindIs
    <3>2. /\ Ahead(arrived, K, Range(begun), Range(que') \cup Waiting)
          /\ Ahead(arrived, K, Range(que'), Waiting)
      BY <2>1, <3>0 DEF Lined, Ahead
    <3>3. Lined(K)' BY <1>2, <2>1, <3>0, <3>2 DEF Lined
    <3>4. NoneSkipped(K)' BY <2>1, <3>0, <3>1 DEF NoneSkipped, Passed
    <3> QED BY <3>3, <3>4
  <2>3. Passed = Passed' \cup {NULL} \/ Passed = Passed' BY <2>1 DEF Passed
  <2> QED BY <1>2, <1>3, <2>2, <2>3, MovedOrder
<1> QED BY <1>4, <1>5

(* The receive task ends, and the postponed events are no more. *)
LEMMA RecvEndOrder ==
  ASSUME OrderInv, RecvEnd
  PROVE  Order' /\ Came'
<1>0. /\ UNCHANGED <<arrived, hal, postpone, que, begun>> /\ replay' = <<>> /\ rcv' = "ended"
      /\ Hand = {} /\ Hand' = {} /\ rcv # "ended"
  BY DEF RecvEnd, pool, history, Hand
<1>1. Range(replay') = {} BY <1>0 DEF Range
<1>2. Passed' = Passed /\ Waiting' \subseteq Waiting BY <1>0, <1>1 DEF Passed, Waiting
<1>3. ASSUME NEW K \in Kinds PROVE Lined(K)' /\ NoneSkipped(K)'
  <2>0. Lined(K) /\ NoneSkipped(K) BY DEF OrderInv, Order
  <2>1. Sorted(arrived, K, replay') BY <1>0 DEF Sorted
  <2>2. /\ Ahead(arrived, K, Range(begun), Range(que) \cup Waiting')
        /\ Ahead(arrived, K, Range(que), Waiting')
    BY <1>2, <2>0 DEF Lined, Ahead
  <2>3. \A A : Ahead(arrived, K, {}, A) /\ Ahead(arrived, K, A, {}) BY DEF Ahead
  <2>4. Lined(K)' BY <1>0, <1>1, <2>0, <2>1, <2>2, <2>3 DEF Lined
  <2>5. NoneSkipped(K)' BY <1>0, <1>2, <2>0 DEF NoneSkipped
  <2> QED BY <2>4, <2>5
<1> QED BY <1>0, <1>2, <1>3, MovedOrder

(* The end: the receive task first, then the callback threads.             *)
Ending ==
  /\ fin = "pool" => rcv = "ended"
  /\ del # "off" => fin = "pool"
  /\ rcv = "ended" => replay = <<>>

\* The inductive invariant of the receive side with its threads.
SideInv == OrderInv /\ PoolInv /\ Ending

\* What the life cycle does to the receive side.
HalForgets == abort' = "NONE" /\ UNCHANGED <<pool, hal, sem, task, life, cb, history>>

Moves ==
  \/ \E e \in Events : ArriveEvent(e) \/ ArriveAnswer(e) \/ TimeOut(e)
  \/ RecvStep \/ AppReady \/ AppAgain
  \/ \E w \in Workers : CallbackStep(w)
  \/ FinAbort \/ FinJoin \/ FinPool
  \/ HalForgets
  \/ UNCHANGED vars

(* Every step of the life cycle is one of these. *)
LEMMA LifeMoves ==
  ASSUME [LifeNext]_lifeVars
  PROVE  Moves
<1>1. CASE Running /\ UNCHANGED libVars BY <1>1 DEF Running, Moves
<1>2. ASSUME NEW c \in Callers, Construct(c) \/ Destruct(c) \/ Destroy(c) PROVE Moves
  <2>1. CASE Construct(c) \/ Destruct(c) BY <2>1 DEF Construct, Destruct, Moves
  <2>2. CASE Destroy(c)
    BY <2>2 DEF Destroy, DestroyGw, DestroyHal, DestroyIdle, DestroyThrd, HalForgets, Moves
  <2> QED BY <1>2, <2>1, <2>2
<1>3. CASE UNCHANGED lifeVars BY <1>3 DEF lifeVars, Moves
<1> QED BY <1>1, <1>2, <1>3 DEF LifeNext, AllOver

(* Every step is one of the pool's or leaves it alone: the receive task    *)
(* submits nothing once thrdpool_delete has been called.                   *)
LEMMA MovesPool ==
  ASSUME Ending, Moves
  PROVE  [PoolNext]_pool
<1>1. CASE DispatchRun
  <2>1. del = "off" BY <1>1 DEF DispatchRun, Ending
  <2>2. cur \in Events /\ RunJob(cur) BY <1>1 DEF DispatchRun
  <2> QED BY <2>1, <2>2 DEF PoolNext, Submit
<1>2. ASSUME NEW w \in Workers, Begin(w) \/ Return(w) \/ End(w)
      PROVE  [PoolNext]_pool
  <2>1. WorkerStep(w) BY <1>2 DEF Begin, Return, End, WorkerStep
  <2> QED BY <2>1 DEF PoolNext
<1>3. CASE FinPool BY <1>3 DEF FinPool, PoolNext
<1>4. CASE UNCHANGED pool BY <1>4 DEF pool, pool
<1>5. ASSUME NEW e \in Events, ArriveEvent(e) \/ ArriveAnswer(e) \/ TimeOut(e)
      PROVE  UNCHANGED pool
  BY <1>5 DEF ArriveEvent, ArriveAnswer, Arrive, TimeOut
<1>6. ASSUME RecvStep, ~DispatchRun PROVE UNCHANGED pool
  BY <1>6 DEF RecvStep, Idle, RecvTerminate, RecvAgain, RecvFrame, RecvWake, DispatchAnswer,
              DispatchPostpone, RecvEnd
<1>7. ASSUME NEW w \in Workers, Ask(w) PROVE UNCHANGED pool BY <1>7 DEF Ask
<1>8. ASSUME AppReady \/ AppAgain \/ FinAbort \/ FinJoin \/ HalForgets \/ UNCHANGED vars
      PROVE  UNCHANGED pool
  BY <1>8 DEF AppReady, AppAgain, FinAbort, FinJoin, HalForgets, vars
<1> QED BY <1>1, <1>2, <1>3, <1>4, <1>5, <1>6, <1>7, <1>8 DEF Moves, CallbackStep

(* The order in which they end. *)
LEMMA MovesEnding ==
  ASSUME Ending, Moves
  PROVE  Ending'
<1>1. ASSUME NEW e \in Events, ArriveEvent(e) \/ ArriveAnswer(e) \/ TimeOut(e) PROVE Ending'
  BY <1>1 DEF ArriveEvent, ArriveAnswer, Arrive, TimeOut, Ending, pool, task, life
<1>2. CASE RecvStep
  BY <1>2 DEF RecvStep, Idle, RecvTerminate, RecvAgain, RecvFrame, RecvWake, DispatchAnswer,
              DispatchPostpone, DispatchRun, RecvEnd, RunJob, delVars, Ending, pool, life
<1>3. ASSUME NEW w \in Workers, CallbackStep(w) PROVE Ending'
  BY <1>3 DEF CallbackStep, Begin, Ask, Return, End, Take, Finish,
              WorkerEnds, TakeNull, Terminate, Leave, delVars,
              Ending, pool, task, life
<1>4. CASE AppReady \/ AppAgain \/ FinAbort \/ HalForgets \/ UNCHANGED vars
  BY <1>4 DEF AppReady, AppAgain, FinAbort, HalForgets, vars, Ending, pool, task, life
<1>5. CASE FinJoin BY <1>5 DEF FinJoin, RecvTaskEnded, Ending, pool, task
<1>6. CASE FinPool BY <1>6 DEF FinPool, Ending, task, life
<1> QED BY <1>1, <1>2, <1>3, <1>4, <1>5, <1>6 DEF Moves

(* The types. *)
LEMMA MovesTypes ==
  ASSUME TypeOK, PoolTypeOK', Moves
  PROVE  TypeOK'
<1> USE RecvTaskAssumption DEF TypeOK
<1>1. ASSUME NEW e \in Events, ArriveEvent(e) \/ ArriveAnswer(e) PROVE TypeOK'
  <2>1. PICK f \in Frames : Arrive(f)
    BY <1>1 DEF ArriveEvent, ArriveAnswer, Frames, Answers
  <2>2. arrived' \in Seq(Events)
    <3>0. arrived \in Seq(Events) OBVIOUS
    <3>1. arrived' = Append(arrived, e) \/ arrived' = arrived
      BY <1>1 DEF ArriveEvent, ArriveAnswer
    <3> QED BY ONLY <3>0, <3>1, <1>1
  <2>3. hal' \in Seq(Frames) /\ Len(hal') <= HalMax BY <2>1 DEF Arrive
  <2> QED BY <2>1, <2>2, <2>3 DEF Arrive, task, life
<1>2. ASSUME NEW e \in Events, TimeOut(e) PROVE TypeOK'
  BY <1>2 DEF TimeOut, task, life, history
<1>3. CASE Idle
  <2>1. cur' \in Frames \cup {NULL} /\ replay' \in Seq(Postponable) /\ rcv' \in {"recv", "dispatch"}
    <3>1. CASE Postponing \/ replay = <<>> BY <1>3, <3>1 DEF Idle
    <3>2. CASE ~ (Postponing \/ replay = <<>>)
      <4>1. Head(replay) \in Postponable /\ Tail(replay) \in Seq(Postponable) BY <3>2
      <4> QED BY <1>3, <3>2, <4>1 DEF Idle, Frames
    <3> QED BY <3>1, <3>2
  <2>2. postpone' \in BOOLEAN BY <1>3 DEF Idle, Postponing
  <2> QED BY <1>3, <2>1, <2>2 DEF Idle, life, history
<1>4. CASE RecvTerminate \/ RecvAgain \/ RecvWake
  BY <1>4 DEF RecvTerminate, RecvAgain, RecvWake, life, history
<1>5. CASE RecvFrame
  <2>1. /\ cur' \in Frames \cup {NULL} /\ hal' \in Seq(Frames) /\ Len(hal') <= HalMax
        /\ rcv' \in {"sleep", "dispatch"}
    <3>1. CASE hal = <<>> BY <1>5, <3>1 DEF RecvFrame
    <3>2. CASE hal # <<>>
      <4>1. /\ Head(hal) \in Frames /\ Tail(hal) \in Seq(Frames)
            /\ Len(Tail(hal)) = Len(hal) - 1 /\ Len(hal) \in Nat
        BY <3>2
      <4>2. cur' = Head(hal) /\ hal' = Tail(hal) /\ rcv' = "dispatch"
        BY <1>5, <3>2 DEF RecvFrame
      <4>3. Len(hal) <= HalMax /\ HalMax \in Nat OBVIOUS
      <4> QED BY ONLY <4>1, <4>2, <4>3
    <3> QED BY <3>1, <3>2
  <2> QED BY <1>5, <2>1 DEF RecvFrame, life, history
<1>6. CASE DispatchAnswer BY <1>6 DEF DispatchAnswer, life, history
<1>7. CASE DispatchPostpone
  BY <1>7 DEF DispatchPostpone, IsPostponed, Postponed, life, history
<1>8. CASE DispatchRun \/ RecvEnd
  <2>1. CASE DispatchRun BY <2>1 DEF DispatchRun, life, history
  <2>2. CASE RecvEnd
    <3>1. replay' \in Seq(Postponable) BY <2>2 DEF RecvEnd
    <3> QED BY <2>2, <3>1 DEF RecvEnd, life, history
  <2> QED BY <1>8, <2>1, <2>2
<1>9. ASSUME NEW w \in Workers, Begin(w) PROVE TypeOK'
  <2>1. job'[w] \in Events
    BY <1>9 DEF Begin, Take, PoolTypeOK
  <2> QED BY <1>9, <2>1 DEF Begin, task, life
<1>10. ASSUME NEW w \in Workers, Ask(w) \/ Return(w) \/ End(w) PROVE TypeOK'
  BY <1>10 DEF Ask, Return, End, task, life, history
<1>11. CASE AppReady \/ AppAgain \/ FinAbort
  BY <1>11 DEF AppReady, AppAgain, FinAbort, AbortRecv, task, life, history
<1>12. CASE FinJoin \/ FinPool BY <1>12 DEF FinJoin, FinPool, task, life, history
<1>13. CASE HalForgets \/ UNCHANGED vars BY <1>13 DEF HalForgets, vars, task, life, history
<1> QED BY <1>1, <1>2, <1>3, <1>4, <1>5, <1>6, <1>7, <1>8, <1>9, <1>10, <1>11, <1>12, <1>13
        DEF Moves, RecvStep, CallbackStep

(* Steps that move no frame. *)
LEMMA StillOrder ==
  ASSUME OrderInv, UNCHANGED <<hal, postpone, replay, que, begun, arrived>>,
         Hand' = Hand, rcv = "ended" => rcv' = "ended"
  PROVE  Order' /\ Came'
<1>1. Order' BY QuietOrder DEF OrderInv
<1>2. Waiting' = Waiting /\ Passed' = Passed BY DEF Waiting, Passed
<1>3. Came' BY <1>2 DEF OrderInv, Came
<1> QED BY <1>1, <1>3

(* The receive task keeps the line. *)
LEMMA RecvOrder ==
  ASSUME OrderInv, RecvStep
  PROVE  Order' /\ Came'
<1>1. CASE RecvTerminate \/ RecvAgain \/ RecvWake
  <2>1. /\ UNCHANGED <<hal, postpone, replay, que, begun, arrived>>
        /\ Hand' = Hand /\ rcv # "ended"
    BY <1>1 DEF RecvTerminate, RecvAgain, RecvWake, Hand, pool, history
  <2> QED BY <2>1, StillOrder
<1> QED BY <1>1, IdleOrder, RecvFrameOrder, DispatchAnswerOrder, DispatchPostponeOrder,
           DispatchRunOrder, RecvEndOrder DEF RecvStep

(* The callback threads keep it. *)
LEMMA CallbackOrder ==
  ASSUME OrderInv, NEW w \in Workers, CallbackStep(w)
  PROVE  Order' /\ Came'
<1>1. CASE Begin(w) BY <1>1, BeginOrder
<1>2. CASE Ask(w) \/ Return(w) \/ Terminate(w) \/ Leave(w)
  <2>1. UNCHANGED <<hal, postpone, replay, que, begun, arrived, rcv, cur>>
    BY <1>2 DEF CallbackStep, Begin, Take, Ask, Return, End, WorkerEnds,
                Finish, TakeNull, Terminate, Leave, pool, task, history
  <2> QED BY <2>1, StillOrder DEF Hand
<1>3. CASE End(w) /\ TakeNull(w)
  <2>1. UNCHANGED <<hal, postpone, replay, begun, arrived, rcv, cur>> BY <1>3 DEF End, task, history
  <2>2. que # <<>> /\ Head(que) = NULL /\ que' = Tail(que) BY <1>3 DEF TakeNull
  <2> QED BY <2>1, <2>2, NullOrder
<1> QED BY <1>1, <1>2, <1>3 DEF CallbackStep, End, WorkerEnds

(* Starting and ending keep it. *)
LEMMA LifeOrder ==
  ASSUME OrderInv, AppReady \/ AppAgain \/ FinAbort \/ FinJoin \/ FinPool \/ HalForgets \/ UNCHANGED vars
  PROVE  Order' /\ Came'
<1>1. UNCHANGED <<hal, postpone, replay, begun, arrived, rcv, cur>>
  BY DEF AppReady, AppAgain, FinAbort, FinJoin, FinPool, HalForgets, vars, task, history
<1>2. UNCHANGED que \/ que' = Append(que, NULL)
  BY DEF AppReady, AppAgain, FinAbort, FinJoin, FinPool, HalForgets, vars, pool, Delete,
         DeleteBegin, SendNull, DeleteCheck, DeleteWake, DeleteFree
<1>3. CASE UNCHANGED que BY <1>1, <1>3, StillOrder DEF Hand
<1>4. CASE que' = Append(que, NULL) BY <1>1, <1>4, NullOrder
<1> QED BY <1>2, <1>3, <1>4

(* The events stay in line, and are not sent twice. *)
LEMMA MovesInLine ==
  ASSUME OrderInv, Moves
  PROVE  Order' /\ Once' /\ Came'
<1>1. ASSUME NEW e \in Events, ArriveEvent(e) PROVE Order' /\ Once' /\ Came'
  BY <1>1, ArriveEventOrder
<1>2. ASSUME NEW e \in Events, ArriveAnswer(e) PROVE Order' /\ Came' /\ UNCHANGED arrived
  BY <1>2, ArriveAnswerOrder DEF ArriveAnswer
<1>3. ASSUME NEW e \in Events, TimeOut(e) PROVE Order' /\ Came' /\ UNCHANGED arrived
  <2>1. UNCHANGED <<hal, postpone, replay, que, begun, arrived, rcv, cur>>
    BY <1>3 DEF TimeOut, pool, task, history
  <2> QED BY <2>1, StillOrder DEF Hand
<1>4. CASE RecvStep
  <2>1. UNCHANGED arrived
    BY <1>4 DEF RecvStep, Idle, RecvTerminate, RecvAgain, RecvFrame, RecvWake, DispatchAnswer,
                DispatchPostpone, DispatchRun, RecvEnd, history
  <2> QED BY <1>4, <2>1, RecvOrder DEF OrderInv, Once
<1>5. ASSUME NEW w \in Workers, CallbackStep(w) PROVE Order' /\ Came' /\ UNCHANGED arrived
  <2>1. UNCHANGED arrived BY <1>5 DEF CallbackStep, Begin, Ask, Return, End, history
  <2> QED BY <1>5, <2>1, CallbackOrder
<1>6. ASSUME AppReady \/ AppAgain \/ FinAbort \/ FinJoin \/ FinPool \/ HalForgets \/ UNCHANGED vars
      PROVE  Order' /\ Came' /\ UNCHANGED arrived
  <2>1. UNCHANGED arrived
    BY <1>6 DEF AppReady, AppAgain, FinAbort, FinJoin, FinPool, HalForgets, vars, history
  <2> QED BY <1>6, <2>1, LifeOrder
<1>7. Once /\ UNCHANGED arrived => Once' BY DEF Once
<1> QED BY <1>1, <1>2, <1>3, <1>4, <1>5, <1>6, <1>7 DEF Moves, OrderInv

(* The receive task reads no frame while a postponed event is to be        *)
(* replayed.                                                               *)
LEMMA MovesReplayFirst ==
  ASSUME ReplayFirst, Moves
  PROVE  ReplayFirst'
<1>1. ASSUME NEW e \in Events, ArriveEvent(e) \/ ArriveAnswer(e) \/ TimeOut(e) PROVE ReplayFirst'
  BY <1>1 DEF ArriveEvent, ArriveAnswer, Arrive, TimeOut, ReplayFirst, task
<1>2. CASE RecvStep
  BY <1>2 DEF RecvStep, Idle, RecvTerminate, RecvAgain, RecvFrame, RecvWake, DispatchAnswer,
              DispatchPostpone, DispatchRun, RecvEnd, ReplayFirst
<1>3. ASSUME NEW w \in Workers, CallbackStep(w) PROVE ReplayFirst'
  BY <1>3 DEF CallbackStep, Begin, Ask, Return, End, ReplayFirst, task
<1>4. CASE AppReady \/ AppAgain \/ FinAbort \/ FinJoin \/ FinPool \/ HalForgets \/ UNCHANGED vars
  BY <1>4 DEF AppReady, AppAgain, FinAbort, FinJoin, FinPool, HalForgets, vars, ReplayFirst, task
<1> QED BY <1>1, <1>2, <1>3, <1>4 DEF Moves

(* What can be taken for an event's callback that has not been before: the *)
(* one event that is dispatched.                                           *)
LEMMA MovesPassed ==
  ASSUME TypeOK, Moves
  PROVE  Passed' \cap Events \subseteq Passed \cup (IF DispatchRun THEN {cur} ELSE {})
<1>0. /\ que \in Seq(Events \cup {NULL}) /\ begun \in Seq(Events) /\ NULL \notin Events
      /\ NULL \in Events \cup {NULL}
  BY SeqTypes, FramesDiffer
<1>1. CASE UNCHANGED <<que, begun>> BY <1>1 DEF Passed
<1>2. CASE DispatchRun
  <2>1. que' = Append(que, cur) /\ cur \in Events \cup {NULL} /\ begun' = begun
    BY <1>2 DEF DispatchRun, RunJob, history
  <2>2. Range(que') = Range(que) \cup {cur} BY <1>0, <2>1, RangeAppend
  <2> QED BY <1>2, <2>1, <2>2 DEF Passed
<1>3. ASSUME NEW w \in Workers, Begin(w) PROVE Passed' \subseteq Passed
  <2>1. /\ que # <<>> /\ que' = Tail(que) /\ begun' = Append(begun, Head(que)) /\ Head(que) # NULL
    BY <1>3 DEF Begin, Take, TypeOK, PoolTypeOK
  <2>2. Head(que) \in Events \cup {NULL} /\ Range(que) = {Head(que)} \cup Range(que')
    BY <1>0, <2>1, SortedTail
  <2>3. Range(begun') = Range(begun) \cup {Head(que)} BY <1>0, <2>1, <2>2, RangeAppend
  <2> QED BY <2>2, <2>3 DEF Passed
<1>4. CASE que # <<>> /\ que' = Tail(que) /\ begun' = begun
  <2>1. Range(que) = {Head(que)} \cup Range(que') BY <1>0, <1>4, SortedTail
  <2> QED BY <1>4, <2>1 DEF Passed
<1>5. CASE que' = Append(que, NULL) /\ begun' = begun
  <2>1. Range(que') = Range(que) \cup {NULL} BY <1>0, <1>5, RangeAppend
  <2> QED BY <1>0, <1>5, <2>1 DEF Passed
<1>6. ASSUME NEW e \in Events, ArriveEvent(e) \/ ArriveAnswer(e) \/ TimeOut(e)
      PROVE  UNCHANGED <<que, begun>>
  BY <1>6 DEF ArriveEvent, ArriveAnswer, Arrive, TimeOut, pool, history
<1>7. ASSUME RecvStep, ~DispatchRun PROVE UNCHANGED <<que, begun>>
  BY <1>7 DEF RecvStep, Idle, RecvTerminate, RecvAgain, RecvFrame, RecvWake, DispatchAnswer,
              DispatchPostpone, RecvEnd, pool, history
<1>8. ASSUME NEW w \in Workers, Ask(w) \/ Return(w) \/ End(w)
      PROVE  UNCHANGED <<que, begun>> \/ (que # <<>> /\ que' = Tail(que) /\ begun' = begun)
  BY <1>8 DEF Ask, Return, End, WorkerEnds, Finish, TakeNull,
              Terminate, Leave, pool, history
<1>9. ASSUME AppReady \/ AppAgain \/ FinAbort \/ FinJoin \/ FinPool \/ HalForgets \/ UNCHANGED vars
      PROVE  UNCHANGED <<que, begun>> \/ (que' = Append(que, NULL) /\ begun' = begun)
  BY <1>9 DEF AppReady, AppAgain, FinAbort, FinJoin, FinPool, HalForgets, vars, pool, history,
         Delete, DeleteBegin, SendNull, DeleteCheck, DeleteWake, DeleteFree
<1> QED BY <1>1, <1>2, <1>3, <1>4, <1>5, <1>6, <1>7, <1>8, <1>9 DEF Moves, CallbackStep

(* Until the application is ready the events are postponed. *)
LEMMA MovesNotReady ==
  ASSUME TypeOK, NotReady, Moves
  PROVE  NotReady'
<1> SUFFICES ASSUME Postpone, ~ready' PROVE postpone' /\ Postponable \cap Passed' = {}
  BY DEF NotReady
<1>1. ~ready /\ postpone' = postpone
  <2>1. ASSUME NEW e \in Events, ArriveEvent(e) \/ ArriveAnswer(e) \/ TimeOut(e)
        PROVE  ~ready /\ postpone' = postpone
    BY <2>1 DEF ArriveEvent, ArriveAnswer, Arrive, TimeOut, task, life
  <2>2. ASSUME RecvStep PROVE ~ready /\ postpone' = postpone
    <3>1. ~ready
      BY <2>2 DEF RecvStep, Idle, RecvTerminate, RecvAgain, RecvFrame, RecvWake, DispatchAnswer,
                  DispatchPostpone, DispatchRun, RecvEnd, life
    <3>2. CASE Idle BY <3>1, <3>2 DEF Idle, Postponing, NotReady
    <3>3. CASE ~Idle
      BY <2>2, <3>1, <3>3 DEF RecvStep, RecvTerminate, RecvAgain, RecvFrame, RecvWake, DispatchAnswer,
                  DispatchPostpone, DispatchRun, RecvEnd
    <3> QED BY <3>1, <3>2, <3>3
  <2>3. ASSUME NEW w \in Workers, CallbackStep(w) PROVE ~ready /\ postpone' = postpone
    BY <2>3 DEF CallbackStep, Begin, Ask, Return, End, task, life
  <2>4. ASSUME AppReady \/ AppAgain \/ FinAbort \/ FinJoin \/ FinPool \/ HalForgets \/ UNCHANGED vars
        PROVE  ~ready /\ postpone' = postpone
    BY <2>4 DEF AppReady, AppAgain, FinAbort, FinJoin, FinPool, HalForgets, vars, task, life
  <2> QED BY <2>1, <2>2, <2>3, <2>4 DEF Moves
<1>2. postpone /\ Postponable \cap Passed = {} BY <1>1 DEF NotReady
<1>3. DispatchRun => cur \notin Postponable BY <1>2 DEF DispatchRun, IsPostponed
<1>4. Passed' \cap Events \subseteq Passed \cup (IF DispatchRun THEN {cur} ELSE {}) BY MovesPassed
<1>5. Postponable \subseteq Events BY RecvTaskAssumption
<1> QED BY <1>1, <1>2, <1>3, <1>4, <1>5

(* All of it is inductive under the steps of the life cycle. *)
LEMMA SideInit == Init => SideInv
<1> SUFFICES ASSUME Init PROVE SideInv OBVIOUS
<1>1. PoolInv BY PoolInvInit DEF Init
<1>2. TypeOK
  <2>1. PoolTypeOK BY <1>1 DEF PoolInv
  <2>2. /\ hal \in Seq(Frames) /\ Len(hal) <= HalMax /\ replay \in Seq(Postponable)
        /\ arrived \in Seq(Events) /\ begun \in Seq(Events)
    BY RecvTaskAssumption DEF Init
  <2>3. cb \in [Events -> {"none", "run", "ask", "back", "over"}] BY DEF Init
  <2>4. /\ sem \in BOOLEAN /\ abort = "NONE" /\ rcv = "idle" /\ cur = NULL
        /\ ready \in BOOLEAN /\ app = "off" /\ fin = "off"
    BY DEF Init
  <2>5. postpone \in BOOLEAN BY RecvTaskAssumption DEF Init
  <2> QED BY <2>1, <2>2, <2>3, <2>4, <2>5 DEF TypeOK
<1>3. que = <<>> /\ del = "off" BY DEF Init, PoolInit
<1>4. Range(arrived) = {} /\ Passed = {} /\ Waiting = {}
  BY <1>3 DEF Init, Passed, Waiting, Hand, Range
<1>5. Order
  <2> SUFFICES ASSUME NEW K \in Kinds PROVE Lined(K) /\ Kept(K) /\ NoneSkipped(K) BY DEF Order
  <2>1. \A h : Sorted(h, K, <<>>) BY DEF Sorted
  <2>2. \A h, A : Ahead(h, K, {}, A) BY DEF Ahead
  <2>3. /\ begun = <<>> /\ replay = <<>> /\ hal = <<>> /\ Hand = {}
        /\ Range(begun) = {} /\ Range(que) = {} /\ Range(replay) = {}
    BY <1>3 DEF Init, Range, Hand
  <2>4. Lined(K) BY <1>3, <2>1, <2>2, <2>3 DEF Lined
  <2>5. Kept(K) /\ NoneSkipped(K) BY <1>4 DEF Kept, NoneSkipped
  <2> QED BY <2>4, <2>5
<1>6. Once /\ Came /\ ReplayFirst BY <1>4 DEF Init, Once, Came, ReplayFirst
<1>7. NotReady BY <1>4 DEF Init, NotReady
<1>8. Ending BY <1>3 DEF Init, Ending
<1> QED BY <1>1, <1>2, <1>5, <1>6, <1>7, <1>8 DEF SideInv, OrderInv

(* Every step of the life cycle keeps the invariant of the receive side. *)
LEMMA SideNext == SideInv /\ [LifeNext]_lifeVars => SideInv'
<1> SUFFICES ASSUME SideInv, [LifeNext]_lifeVars PROVE SideInv' OBVIOUS
<1>0. OrderInv /\ PoolInv /\ Ending BY DEF SideInv
<1>1. Moves BY LifeMoves
<1>2. PoolInv' BY <1>0, <1>1, MovesPool, PoolInvNext
<1>3. Ending' BY <1>0, <1>1, MovesEnding
<1>4. TypeOK' BY <1>0, <1>1, <1>2, MovesTypes DEF OrderInv, PoolInv
<1>5. Order' /\ Once' /\ Came' BY <1>0, <1>1, MovesInLine
<1>6. ReplayFirst' BY <1>0, <1>1, MovesReplayFirst DEF OrderInv
<1>7. NotReady' BY <1>0, <1>1, MovesNotReady DEF OrderInv
<1> QED BY <1>2, <1>3, <1>4, <1>5, <1>6, <1>7 DEF SideInv, OrderInv

(* The receive side keeps its invariant in any life cycle.                 *)
THEOREM SideInvariant == LifeSpec => []SideInv
<1>1. LifeInit => SideInv BY SideInit DEF LifeInit
<1> QED BY <1>1, SideNext, PTL DEF LifeSpec

(* Callbacks begin in the order in which their events arrived, those that  *)
(* can be postponed among themselves and the others among themselves, each *)
(* once, and none is skipped (apicmdgw.c:713-733, 609-648), whatever the   *)
(* life cycle does meanwhile and however many callback threads there are.  *)
THEOREM EventsInTurn == LifeSpec => []InTurn
<1>1. OrderInv => InTurn
  <2> SUFFICES ASSUME OrderInv PROVE InTurn OBVIOUS
  <2>0. arrived \in Seq(Events) /\ begun \in Seq(Events) BY SeqTypes DEF OrderInv
  <2>1. \A a, b : Earlier(arrived, a, b) => a # b /\ ~ Earlier(arrived, b, a)
    BY <2>0, EarlierIs DEF OrderInv, Once
  <2>2. ASSUME NEW K \in Kinds, NEW a \in K, NEW b \in K,
               Earlier(arrived, a, b), b \in Range(begun)
        PROVE  Earlier(begun, a, b)
    <3>0. Lined(K) /\ NoneSkipped(K) BY DEF OrderInv, Order
    <3>1. a \in Passed BY <2>2, <3>0 DEF NoneSkipped, Passed
    <3>2. a \notin Range(que) BY <2>1, <2>2, <3>0 DEF Lined, Ahead
    <3>3. PICK i \in DOMAIN begun : begun[i] = a BY <3>1, <3>2 DEF Passed, Range
    <3>4. PICK j \in DOMAIN begun : begun[j] = b BY <2>2 DEF Range
    <3>5. i # j BY <2>1, <2>2, <3>3, <3>4
    <3>6. ~ (j < i) BY <2>1, <2>2, <3>0, <3>3, <3>4 DEF Lined, Sorted
    <3>7. i < j BY <2>0, <3>5, <3>6
    <3> QED BY <3>3, <3>4, <3>7 DEF Earlier
  <2>3. ASSUME NEW i \in DOMAIN begun, NEW j \in DOMAIN begun, begun[i] = begun[j], i < j
        PROVE  FALSE
    <3>1. PICK K \in Kinds : begun[i] \in K BY <2>0 DEF Kinds
    <3>2. Sorted(arrived, K, begun) BY DEF OrderInv, Order, Lined
    <3>3. Earlier(arrived, begun[i], begun[j]) BY <2>3, <3>1, <3>2 DEF Sorted
    <3> QED BY <2>1, <2>3, <3>3
  <2>4. ASSUME NEW i \in DOMAIN begun, NEW j \in DOMAIN begun, begun[i] = begun[j]
        PROVE  i = j
    <3>1. i < j \/ j < i \/ i = j BY <2>0
    <3> QED BY <2>3, <2>4, <3>1
  <2>5. Range(begun) \subseteq Range(arrived)
    <3>1. Range(begun) \subseteq Events BY <2>0 DEF Range
    <3> QED BY <3>1 DEF OrderInv, Came, Passed
  <2>6. Postpone /\ ~ready => Postponable \cap Range(begun) = {}
    BY DEF OrderInv, NotReady, Passed
  <2> QED BY <2>2, <2>4, <2>5, <2>6 DEF InTurn
<1> QED BY <1>1, SideInvariant, PTL DEF SideInv

(* thrdpool_delete frees the queue and the tables after the receive task   *)
(* has ended and every callback thread with it (thrdpool.c:359-378).       *)
THEOREM SideFreedLast == LifeSpec => []EndedLast
<1>1. SideInv => EndedLast
  BY FreedAtEnd DEF SideInv, OrderInv, EndedLast, Ending
<1> QED BY <1>1, SideInvariant, PTL

(* The callback threads of the library are a pool as ThrdPool specifies    *)
(* it: the receive task never submits to a pool that is being deleted      *)
(* (altcombuilder.c:707-762, thrdpool.c:348-379).                          *)
THEOREM ThreadsArePool == LifeSpec => PoolSpec
<1>1. LifeInit => PoolInit BY DEF LifeInit, Init
<1>2. SideInv /\ [LifeNext]_lifeVars => [PoolNext]_pool
  BY LifeMoves, MovesPool DEF SideInv
<1> QED BY <1>1, <1>2, SideInvariant, PTL DEF LifeSpec, PoolSpec
-----------------------------------------------------------------------------
(* What each caller of altcom_initialize and altcom_finalize finds: the    *)
(* parts below the one it builds, or up to the one it takes away.          *)
Below(k) == {p \in B!Parts : p < k}
UpTo(k) == {p \in B!Parts : p <= k}

AtWork(c) ==
  LET k == call[c].part IN
    /\ call[c].does = "nothing" => k = 0
    /\ call[c].does = "build" =>
         initialized /\ exists = Below(k) /\ (IF k = 0 THEN logMtx # "own" ELSE logMtx # "none")
    /\ call[c].does = "undo" =>
         initialized /\ exists = UpTo(k) /\ logMtx # "none" /\ k < B!Gw
    /\ call[c].does = "giveup" => initialized /\ k = 0 /\ exists = {} /\ logMtx # "own"
    /\ call[c].does = "destroy" => ~initialized /\ exists = UpTo(k) /\ logMtx # "none"

\* What WholeOrNothing says of the library between calls.
Whole ==
  /\ exists = IF initialized THEN B!Parts ELSE {}
  /\ initialized => logMtx # "none"
  /\ ~initialized => logMtx # "own"

\* Nobody but c is in a call.
Alone(c) == \A d \in Callers : d # c => call[d] = B!Out

\* The inductive invariant of the builder.
BuilderInv ==
  /\ B!BuilderTypeOK
  /\ cbLock <=> initialized
  /\ \A c \in Callers : call[c] # B!Out => Alone(c)
  /\ \A c \in Callers : AtWork(c)
  /\ (\A c \in Callers : call[c] = B!Out) => Whole

\* What Life uses of the builder.
BuilderMoves ==
  \/ \E c \in Callers : B!Initialize(c) \/ B!Building(c) \/ B!Finalize(c) \/ B!DestroyLog(c)
  \/ \E c \in Callers, k \in B!Parts : B!DestroyPart(c, k)
  \/ UNCHANGED libVars

(* The parts are five numbers, built upwards. *)
LEMMA PartsAre ==
  /\ B!Parts = 1..5 /\ B!Gw = 5 /\ 0..B!Gw = 0..5
  /\ Below(0) = {} /\ Below(1) = {} /\ UpTo(0) = {} /\ UpTo(5) = B!Parts
  /\ \A k \in 1..5 : /\ Below(k) \cup {k} = UpTo(k)
                     /\ UpTo(k) \ {k} = UpTo(k - 1)
                     /\ Below(k + 1) = UpTo(k)
                     /\ Below(k) = UpTo(k - 1)
<1>1. B!Parts = 1..5 /\ B!Gw = 5
  BY DEF B!Parts, B!Bufs, B!Thrd, B!Disp, B!Hal, B!Gw
<1> QED BY <1>1 DEF Below, UpTo

(* Every step of the life cycle is one of the builder's or leaves it alone. *)
LEMMA LifeBuilds ==
  ASSUME [LifeNext]_lifeVars
  PROVE  BuilderMoves
<1>1. CASE Running /\ UNCHANGED libVars BY <1>1 DEF BuilderMoves
<1>2. ASSUME NEW c \in Callers, Construct(c) \/ Destruct(c) \/ Destroy(c) PROVE BuilderMoves
  <2>1. CASE Construct(c) \/ Destruct(c) BY <2>1 DEF Construct, Destruct, BuilderMoves
  <2>2. CASE Destroy(c)
    <3>1. B!Gw \in B!Parts /\ B!Hal \in B!Parts /\ B!Disp \in B!Parts /\ B!Thrd \in B!Parts
          /\ B!Bufs \in B!Parts
      BY DEF B!Parts
    <3>2. UNCHANGED libVars \/ \E k \in B!Parts : B!DestroyPart(c, k)
      BY <2>2, <3>1 DEF Destroy, DestroyGw, DestroyHal, DestroyIdle, DestroyThrd
    <3> QED BY <3>2 DEF BuilderMoves
  <2> QED BY <1>2, <2>1, <2>2
<1>3. CASE UNCHANGED lifeVars BY <1>3 DEF lifeVars, BuilderMoves
<1> QED BY <1>1, <1>2, <1>3 DEF LifeNext, AllOver

(* One caller goes from one place to another, the others are in none. *)
LEMMA GoesTo ==
  ASSUME BuilderInv, NEW c \in Callers, Alone(c), NEW w, NEW k,
         call' = [call EXCEPT ![c] = B!At(w, k)],
         B!BuilderTypeOK', cbLock' <=> initialized', AtWork(c)',
         B!At(w, k) = B!Out => Whole'
  PROVE  BuilderInv' /\ call'[c] = B!At(w, k) /\ Alone(c)'
<1>1. call'[c] = B!At(w, k) /\ \A d \in Callers : d # c => call'[d] = B!Out
  BY DEF BuilderInv, B!BuilderTypeOK, Alone
<1>2. \A d \in Callers : call'[d] # B!Out => Alone(d)' BY <1>1 DEF Alone
<1>3. ASSUME NEW d \in Callers, d # c PROVE AtWork(d)'
  <2>1. call'[d].does = "nothing" /\ call'[d].part = 0 BY <1>1, <1>3 DEF B!Out, B!At
  <2> QED BY <2>1 DEF AtWork
<1>4. (\A d \in Callers : call'[d] = B!Out) => Whole' BY <1>1
<1>5. Alone(c)' BY <1>1 DEF Alone
<1> QED BY <1>1, <1>2, <1>3, <1>4, <1>5 DEF BuilderInv

(* Whoever is at work is alone, and so is who begins when none crosses. *)
LEMMA BeginsAlone ==
  ASSUME ~Crossing, BuilderInv, NEW c \in Callers, call[c] = B!Out,
         (~initialized /\ B!Finalizing = {}) \/ (initialized /\ B!Initializing = {})
  PROVE  Alone(c) /\ Whole
<1>1. ASSUME NEW d \in Callers PROVE call[d] = B!Out
  <2>1. /\ call[d] \in [does : {"nothing", "build", "undo", "destroy", "giveup"}, part : 0..B!Gw]
        /\ AtWork(d)
    BY DEF BuilderInv, B!BuilderTypeOK
  <2>2. call[d].does = "nothing"
    BY <2>1 DEF AtWork, B!Finalizing, B!Initializing, B!Doing
  <2>3. call[d].part = 0 BY <2>1, <2>2 DEF AtWork
  <2> QED BY <2>1, <2>2, <2>3 DEF B!Out, B!At
<1> QED BY <1>1 DEF Alone, BuilderInv

Doings == {"nothing", "build", "undo", "destroy", "giveup"}
Places == [does : Doings, part : 0..5]

(* The places a caller can be in. *)
LEMMA PlaceTypes ==
  /\ \A w \in Doings, k \in 0..5 : B!At(w, k) \in Places
  /\ B!Out \in Places
  /\ B!BuilderTypeOK <=> /\ initialized \in BOOLEAN /\ cbLock \in BOOLEAN
                         /\ exists \subseteq 1..5 /\ logMtx \in {"none", "own", "app"}
                         /\ call \in [Callers -> Places]
  BY PartsAre DEF B!BuilderTypeOK, Places, Doings, B!At, B!Out

(* The builder keeps its types. *)
LEMMA BuilderTypes ==
  ASSUME B!BuilderTypeOK, BuilderMoves
  PROVE  B!BuilderTypeOK'
<1>0. /\ initialized \in BOOLEAN /\ cbLock \in BOOLEAN
      /\ exists \subseteq 1..5 /\ logMtx \in {"none", "own", "app"}
      /\ call \in [Callers -> Places]
  BY PlaceTypes
<1>1. ASSUME NEW c \in Callers, NEW w \in Doings, NEW k \in 0..5,
             call' = [call EXCEPT ![c] = B!At(w, k)]
      PROVE  call' \in [Callers -> Places]
  <2>1. B!At(w, k) \in Places BY PlaceTypes
  <2> QED BY <1>0, <1>1, <2>1
<1>2. ASSUME NEW c \in Callers, B!Building(c) \/ B!Initialize(c) \/ B!Finalize(c) \/ B!DestroyLog(c)
      PROVE  call' \in [Callers -> Places]
  <2>1. \E w \in Doings, k \in 0..5 : call' = [call EXCEPT ![c] = B!At(w, k)]
    <3> DEFINE n == call[c].part
    <3>1. CASE B!Initialize(c) \/ B!Finalize(c) \/ B!GiveUp(c) \/ B!DestroyLog(c)
      <4>1. \/ call' = [call EXCEPT ![c] = B!At("build", 0)]
            \/ call' = [call EXCEPT ![c] = B!At("destroy", 5)]
            \/ call' = [call EXCEPT ![c] = B!At("nothing", 0)]
        BY <3>1, PartsAre DEF B!Initialize, B!Finalize, B!GiveUp, B!DestroyLog, B!Goto, B!Out
      <4> QED BY <4>1 DEF Doings
    <3>2. CASE B!BuildLog(c)
      <4>1. \/ call' = [call EXCEPT ![c] = B!At("build", 1)]
            \/ call' = [call EXCEPT ![c] = B!At("giveup", 0)]
        BY <3>2 DEF B!BuildLog, B!Goto, B!Bufs
      <4> QED BY <4>1 DEF Doings
    <3>3. CASE B!BuildPart(c)
      <4>1. n \in 1..5 BY <3>3, PartsAre DEF B!BuildPart
      <4>2. \/ n = 5 /\ call' = [call EXCEPT ![c] = B!At("nothing", 0)]
            \/ n # 5 /\ call' = [call EXCEPT ![c] = B!At("build", n + 1)]
            \/ call' = [call EXCEPT ![c] = B!At("undo", n - 1)]
        BY <3>3, PartsAre DEF B!BuildPart, B!Built, B!Back, B!Goto, B!Out
      <4> HIDE DEF n
      <4>3. n - 1 \in 0..5 /\ (n # 5 => n + 1 \in 0..5) BY <4>1
      <4> QED BY <4>2, <4>3 DEF Doings
    <3>4. CASE B!Undo(c)
      <4>1. \/ n \in 1..5 /\ call' = [call EXCEPT ![c] = B!At("undo", n - 1)]
            \/ call' = [call EXCEPT ![c] = B!At("giveup", 0)]
        BY <3>4, PartsAre DEF B!Undo, B!Goto
      <4> HIDE DEF n
      <4>2. n \in 1..5 => n - 1 \in 0..5 OBVIOUS
      <4> QED BY <4>1, <4>2 DEF Doings
    <3> QED BY <1>2, <3>1, <3>2, <3>3, <3>4 DEF B!Building
  <2> QED BY <1>1, <2>1
<1>3. ASSUME NEW c \in Callers, B!Building(c) \/ B!Initialize(c) \/ B!Finalize(c) \/ B!DestroyLog(c)
      PROVE  /\ initialized' \in BOOLEAN /\ cbLock' \in BOOLEAN
             /\ exists' \subseteq 1..5 /\ logMtx' \in {"none", "own", "app"}
  BY <1>0, <1>3, PartsAre
     DEF B!Building, B!Initialize, B!Finalize, B!GiveUp, B!DestroyLog, B!BuildLog, B!BuildPart,
         B!Built, B!Undo, B!LogGoes
<1>4. ASSUME NEW c \in Callers, NEW k \in B!Parts, B!DestroyPart(c, k)
      PROVE  /\ initialized' \in BOOLEAN /\ cbLock' \in BOOLEAN
             /\ exists' \subseteq 1..5 /\ logMtx' \in {"none", "own", "app"}
             /\ call' \in [Callers -> Places]
  <2>1. k \in 1..5 /\ k - 1 \in 0..5 BY PartsAre
  <2>2. \E w \in Doings, n \in 0..5 : call' = [call EXCEPT ![c] = B!At(w, n)]
    <3>1. \/ call' = [call EXCEPT ![c] = B!At("destroy", k - 1)]
          \/ call' = [call EXCEPT ![c] = B!At("giveup", 0)]
      BY <1>4 DEF B!DestroyPart, B!Goto
    <3> QED BY <2>1, <3>1 DEF Doings
  <2>3. call' \in [Callers -> Places] BY <1>1, <2>2
  <2> QED BY <1>0, <1>4, <2>3 DEF B!DestroyPart
<1>5. ASSUME UNCHANGED libVars
      PROVE  /\ initialized' \in BOOLEAN /\ cbLock' \in BOOLEAN
             /\ exists' \subseteq 1..5 /\ logMtx' \in {"none", "own", "app"}
             /\ call' \in [Callers -> Places]
  BY <1>0, <1>5 DEF libVars
<1>6. /\ initialized' \in BOOLEAN /\ cbLock' \in BOOLEAN
      /\ exists' \subseteq 1..5 /\ logMtx' \in {"none", "own", "app"}
      /\ call' \in [Callers -> Places]
  BY <1>2, <1>3, <1>4, <1>5 DEF BuilderMoves
<1>7. (B!BuilderTypeOK <=> /\ initialized \in BOOLEAN /\ cbLock \in BOOLEAN
                           /\ exists \subseteq 1..5 /\ logMtx \in {"none", "own", "app"}
                           /\ call \in [Callers -> Places])'
  BY PlaceTypes, PTL
<1> QED BY <1>6, <1>7

(* A call begins when nobody else is in one. *)
LEMMA BeginStep ==
  ASSUME ~Crossing, BuilderInv, B!BuilderTypeOK', NEW c \in Callers, B!Initialize(c) \/ B!Finalize(c)
  PROVE  BuilderInv'
<1>1. CASE B!Initialize(c)
  <2>1. Alone(c) /\ Whole BY <1>1, BeginsAlone DEF B!Initialize
  <2>2. call' = [call EXCEPT ![c] = B!At("build", 0)] BY <1>1 DEF B!Initialize, B!Goto
  <2>3. call'[c] = B!At("build", 0) BY <2>2 DEF BuilderInv, B!BuilderTypeOK
  <2>4. initialized' /\ cbLock' /\ exists' = {} /\ logMtx' # "own"
    BY <1>1, <2>1 DEF B!Initialize, Whole
  <2>5. AtWork(c)' BY <2>3, <2>4, PartsAre DEF AtWork, B!At
  <2> QED BY <2>1, <2>2, <2>4, <2>5, GoesTo DEF B!At, B!Out
<1>2. CASE B!Finalize(c)
  <2>1. Alone(c) /\ Whole BY <1>2, BeginsAlone DEF B!Finalize
  <2>2. call' = [call EXCEPT ![c] = B!At("destroy", B!Gw)] BY <1>2 DEF B!Finalize, B!Goto
  <2>3. call'[c] = B!At("destroy", 5) BY <2>2, PartsAre DEF BuilderInv, B!BuilderTypeOK
  <2>4. ~initialized' /\ ~cbLock' /\ exists' = B!Parts /\ logMtx' # "none"
    BY <1>2, <2>1 DEF B!Finalize, Whole
  <2>5. AtWork(c)' BY <2>3, <2>4, PartsAre DEF AtWork, B!At
  <2> QED BY <2>1, <2>2, <2>4, <2>5, GoesTo DEF B!At, B!Out
<1> QED BY <1>1, <1>2

(* The mutex of the log: found, created, or the end. *)
LEMMA BuildLogStep ==
  ASSUME BuilderInv, B!BuilderTypeOK', NEW c \in Callers, B!BuildLog(c)
  PROVE  BuilderInv'
<1>0. call[c] = B!At("build", 0) /\ UNCHANGED <<initialized, cbLock, exists>>
  BY DEF B!BuildLog
<1>1. Alone(c) /\ AtWork(c) BY <1>0 DEF BuilderInv, B!At, B!Out
<1>2. initialized /\ exists = {} /\ logMtx # "own" /\ (cbLock <=> initialized)
  BY <1>0, <1>1, PartsAre DEF AtWork, B!At, BuilderInv
<1>3. CASE call' = [call EXCEPT ![c] = B!At("build", B!Bufs)] /\ logMtx' # "none"
  <2>1. call'[c] = B!At("build", 1) BY <1>3 DEF BuilderInv, B!BuilderTypeOK, B!Bufs
  <2>2. AtWork(c)' BY <1>0, <1>2, <1>3, <2>1, PartsAre DEF AtWork, B!At
  <2> QED BY <1>0, <1>1, <1>2, <1>3, <2>2, GoesTo DEF B!At, B!Out
<1>4. CASE call' = [call EXCEPT ![c] = B!At("giveup", 0)] /\ UNCHANGED logMtx
  <2>1. call'[c] = B!At("giveup", 0) BY <1>4 DEF BuilderInv, B!BuilderTypeOK
  <2>2. AtWork(c)' BY <1>0, <1>2, <1>4, <2>1 DEF AtWork, B!At
  <2> QED BY <1>0, <1>1, <1>2, <1>4, <2>2, GoesTo DEF B!At, B!Out
<1>5. \/ call' = [call EXCEPT ![c] = B!At("build", B!Bufs)] /\ logMtx' # "none"
      \/ call' = [call EXCEPT ![c] = B!At("giveup", 0)] /\ UNCHANGED logMtx
  BY DEF B!BuildLog, B!Goto
<1> QED BY <1>3, <1>4, <1>5

(* One more part, or the way back from the part before it. *)
LEMMA BuildPartStep ==
  ASSUME BuilderInv, B!BuilderTypeOK', NEW c \in Callers, B!BuildPart(c)
  PROVE  BuilderInv'
<1> DEFINE k == call[c].part
<1>0. call[c].does = "build" /\ k \in 1..5 /\ UNCHANGED <<initialized, cbLock, logMtx>>
  BY PartsAre DEF B!BuildPart
<1>1. Alone(c) /\ AtWork(c) BY <1>0 DEF BuilderInv, B!At, B!Out
<1>2. initialized /\ exists = Below(k) /\ logMtx # "none" /\ (cbLock <=> initialized)
  BY <1>0, <1>1, PartsAre DEF AtWork, BuilderInv
<1>3. \/ exists' = exists \cup {k} /\ call' = [call EXCEPT ![c] = IF k = 5 THEN B!Out ELSE B!At("build", k + 1)]
      \/ exists' = exists /\ call' = [call EXCEPT ![c] = B!At("undo", k - 1)]
  BY PartsAre DEF B!BuildPart, B!Built, B!Goto, B!Back
<1> HIDE DEF k
<1>4. CASE exists' = exists \cup {k} /\ k # 5 /\ call' = [call EXCEPT ![c] = B!At("build", k + 1)]
  <2>1. call'[c] = B!At("build", k + 1) BY <1>4 DEF BuilderInv, B!BuilderTypeOK
  <2>2. exists' = Below(k + 1) /\ k + 1 # 0 BY <1>0, <1>2, <1>4, PartsAre
  <2>3. AtWork(c)' BY <1>0, <1>2, <2>1, <2>2 DEF AtWork, B!At
  <2> QED BY <1>0, <1>1, <1>2, <1>4, <2>3, GoesTo DEF B!At, B!Out
<1>5. CASE exists' = exists \cup {k} /\ k = 5 /\ call' = [call EXCEPT ![c] = B!At("nothing", 0)]
  <2>1. call'[c] = B!At("nothing", 0) BY <1>5 DEF BuilderInv, B!BuilderTypeOK
  <2>2. exists' = B!Parts BY <1>0, <1>2, <1>5, PartsAre
  <2>3. AtWork(c)' BY <2>1 DEF AtWork, B!At
  <2>4. Whole' BY <1>0, <1>2, <2>2 DEF Whole
  <2> QED BY <1>0, <1>1, <1>2, <1>5, <2>3, <2>4, GoesTo
<1>6. CASE exists' = exists /\ call' = [call EXCEPT ![c] = B!At("undo", k - 1)]
  <2>1. call'[c] = B!At("undo", k - 1) BY <1>6 DEF BuilderInv, B!BuilderTypeOK
  <2>2. exists' = UpTo(k - 1) /\ k - 1 < B!Gw BY <1>0, <1>2, <1>6, PartsAre
  <2>3. AtWork(c)' BY <1>0, <1>2, <2>1, <2>2 DEF AtWork, B!At
  <2> QED BY <1>0, <1>1, <1>2, <1>6, <2>3, GoesTo DEF B!At, B!Out
<1> QED BY <1>3, <1>4, <1>5, <1>6 DEF B!Out

(* The way back takes away the last part, and then the mutex. *)
LEMMA UndoStep ==
  ASSUME BuilderInv, B!BuilderTypeOK', NEW c \in Callers, B!Undo(c)
  PROVE  BuilderInv'
<1> DEFINE k == call[c].part
<1>0. call[c].does = "undo" /\ UNCHANGED <<initialized, cbLock>> BY DEF B!Undo
<1>1. Alone(c) /\ AtWork(c) BY <1>0 DEF BuilderInv, B!At, B!Out
<1>2. initialized /\ exists = UpTo(k) /\ logMtx # "none" /\ k < 5 /\ (cbLock <=> initialized)
  BY <1>0, <1>1, PartsAre DEF AtWork, BuilderInv
<1>3. \/ /\ k \in 1..5 /\ exists' = exists \ {k} /\ logMtx' = logMtx
         /\ call' = [call EXCEPT ![c] = B!At("undo", k - 1)]
      \/ /\ k = 0 /\ exists' = exists /\ logMtx' # "own"
         /\ call' = [call EXCEPT ![c] = B!At("giveup", 0)]
  BY PartsAre DEF B!Undo, B!LogGoes, B!Goto
<1> HIDE DEF k
<1>4. CASE /\ k \in 1..5 /\ exists' = exists \ {k} /\ logMtx' = logMtx
           /\ call' = [call EXCEPT ![c] = B!At("undo", k - 1)]
  <2>1. call'[c] = B!At("undo", k - 1) BY <1>4 DEF BuilderInv, B!BuilderTypeOK
  <2>2. exists' = UpTo(k - 1) /\ k - 1 < B!Gw BY <1>2, <1>4, PartsAre
  <2>3. AtWork(c)' BY <1>0, <1>2, <1>4, <2>1, <2>2 DEF AtWork, B!At
  <2> QED BY <1>0, <1>1, <1>2, <1>4, <2>3, GoesTo DEF B!At, B!Out
<1>5. CASE /\ k = 0 /\ exists' = exists /\ logMtx' # "own"
           /\ call' = [call EXCEPT ![c] = B!At("giveup", 0)]
  <2>1. call'[c] = B!At("giveup", 0) BY <1>5 DEF BuilderInv, B!BuilderTypeOK
  <2>2. exists' = {} BY <1>2, <1>5, PartsAre
  <2>3. AtWork(c)' BY <1>0, <1>2, <1>5, <2>1, <2>2 DEF AtWork, B!At
  <2> QED BY <1>0, <1>1, <1>2, <1>5, <2>3, GoesTo DEF B!At, B!Out
<1> QED BY <1>3, <1>4, <1>5

(* After the way back there is nothing left. *)
LEMMA GiveUpStep ==
  ASSUME BuilderInv, B!BuilderTypeOK', NEW c \in Callers, B!GiveUp(c)
  PROVE  BuilderInv'
<1>0. call[c].does = "giveup" BY DEF B!GiveUp
<1>1. Alone(c) /\ AtWork(c) BY <1>0 DEF BuilderInv, B!At, B!Out
<1>2. exists = {} /\ logMtx # "own" BY <1>0, <1>1 DEF AtWork
<1>3. /\ ~initialized' /\ ~cbLock' /\ exists' = {} /\ logMtx' # "own"
      /\ call' = [call EXCEPT ![c] = B!At("nothing", 0)]
  BY <1>2 DEF B!GiveUp, B!Goto, B!Out
<1>4. call'[c] = B!At("nothing", 0) BY <1>3 DEF BuilderInv, B!BuilderTypeOK
<1>5. AtWork(c)' /\ Whole' BY <1>3, <1>4 DEF AtWork, Whole, B!At
<1> QED BY <1>1, <1>3, <1>5, GoesTo

(* lte_destroy finds every part it comes to. *)
LEMMA DestroyStep ==
  ASSUME BuilderInv, B!BuilderTypeOK', NEW c \in Callers, NEW k \in B!Parts, B!DestroyPart(c, k)
  PROVE  BuilderInv' /\ call[c] = B!At("destroy", k) /\ call'[c] = B!At("destroy", k - 1) /\ Alone(c)'
         /\ exists = UpTo(k) /\ exists' = exists \ {k} /\ ~initialized'
<1>0. call[c] = B!At("destroy", k) /\ UNCHANGED <<initialized, cbLock, logMtx>> /\ k \in 1..5
  BY PartsAre DEF B!DestroyPart
<1>1. Alone(c) /\ AtWork(c) BY <1>0 DEF BuilderInv, B!At, B!Out
<1>2. ~initialized /\ exists = UpTo(k) /\ logMtx # "none" /\ (cbLock <=> initialized)
  BY <1>0, <1>1 DEF AtWork, B!At, BuilderInv
<1>3. k \in exists BY <1>2, PartsAre DEF UpTo
<1>4. exists' = exists \ {k} /\ call' = [call EXCEPT ![c] = B!At("destroy", k - 1)]
  BY <1>3 DEF B!DestroyPart, B!Goto
<1>5. call'[c] = B!At("destroy", k - 1) BY <1>4 DEF BuilderInv, B!BuilderTypeOK
<1>6. exists' = UpTo(k - 1) BY <1>0, <1>2, <1>4, PartsAre
<1>7. AtWork(c)' BY <1>0, <1>2, <1>5, <1>6 DEF AtWork, B!At
<1>8. B!At("destroy", k - 1) # B!Out BY DEF B!At, B!Out
<1>9. BuilderInv' /\ Alone(c)' BY <1>0, <1>1, <1>2, <1>4, <1>7, <1>8, GoesTo
<1> QED BY <1>0, <1>2, <1>4, <1>5, <1>9

(* And at last the mutex of the log. *)
LEMMA DestroyLogStep ==
  ASSUME BuilderInv, B!BuilderTypeOK', NEW c \in Callers, B!DestroyLog(c)
  PROVE  BuilderInv'
<1>0. call[c] = B!At("destroy", 0) BY DEF B!DestroyLog
<1>1. Alone(c) /\ AtWork(c) BY <1>0 DEF BuilderInv, B!At, B!Out
<1>2. ~initialized /\ exists = {} /\ logMtx # "none" /\ (cbLock <=> initialized)
  BY <1>0, <1>1, PartsAre DEF AtWork, B!At, BuilderInv
<1>3. /\ ~initialized' /\ ~cbLock' /\ exists' = {} /\ logMtx' # "own"
      /\ call' = [call EXCEPT ![c] = B!At("nothing", 0)]
  BY <1>2 DEF B!DestroyLog, B!LogGoes, B!Goto, B!Out
<1>4. call'[c] = B!At("nothing", 0) BY <1>3 DEF BuilderInv, B!BuilderTypeOK
<1>5. AtWork(c)' /\ Whole' BY <1>3, <1>4 DEF AtWork, Whole, B!At
<1> QED BY <1>1, <1>3, <1>5, GoesTo

(* The builder's invariant is inductive when no calls cross. *)
LEMMA BuilderNext == ASSUME ~Crossing, BuilderInv, BuilderMoves PROVE BuilderInv'
<1>0. B!BuilderTypeOK' BY BuilderTypes DEF BuilderInv
<1>1. CASE UNCHANGED libVars
  BY <1>0, <1>1 DEF libVars, BuilderInv, Alone, AtWork, Whole
<1>2. ASSUME NEW c \in Callers, B!Building(c) PROVE BuilderInv'
  BY <1>0, <1>2, BuildLogStep, BuildPartStep, UndoStep, GiveUpStep DEF B!Building
<1>3. ASSUME NEW c \in Callers, NEW k \in B!Parts, B!DestroyPart(c, k) PROVE BuilderInv'
  BY <1>0, <1>3, DestroyStep
<1> QED BY <1>0, <1>1, <1>2, <1>3, BeginStep, DestroyLogStep DEF BuilderMoves

(* It holds when nobody has called anything. *)
LEMMA BuilderInit == B!Init => BuilderInv
<1> SUFFICES ASSUME B!Init PROVE BuilderInv OBVIOUS
<1>1. \A c \in Callers : call[c] = B!Out BY DEF B!Init
<1>2. B!BuilderTypeOK BY PlaceTypes DEF B!Init
<1>3. \A c \in Callers : AtWork(c) BY <1>1 DEF AtWork, B!Out, B!At
<1>4. Whole /\ ~cbLock /\ ~initialized BY DEF B!Init, Whole
<1> QED BY <1>1, <1>2, <1>3, <1>4 DEF BuilderInv

(* Every caller finds the parts it expects, on the way up, back and down   *)
(* (altcombuilder.c:596-690, 707-762), and no two are under way at once.   *)
THEOREM BuilderInvariant == ASSUME ~Crossing PROVE LifeSpec => []BuilderInv
<1>1. LifeInit => BuilderInv BY BuilderInit DEF LifeInit
<1>2. BuilderInv /\ [LifeNext]_lifeVars => BuilderInv' BY LifeBuilds, BuilderNext
<1> QED BY <1>1, <1>2, PTL DEF LifeSpec

(* After any failures and attempts of several tasks, between calls every   *)
(* part exists or none (altcombuilder.c:596-690, 707-762): provided no     *)
(* task calls altcom_initialize while another is in altcom_finalize, or    *)
(* the other way round.                                                    *)
THEOREM BuiltWhole == ASSUME ~Crossing PROVE LifeSpec => []WholeOrNothing
<1>1. BuilderInv => WholeOrNothing
  <2> SUFFICES ASSUME BuilderInv, B!Initializing = {}, B!Finalizing = {}
               PROVE  Whole /\ (cbLock <=> initialized)
    BY DEF WholeOrNothing, B!WholeOrNothing, Whole, BuilderInv, B!BuilderTypeOK
  <2>1. ASSUME NEW c \in Callers PROVE call[c] = B!Out
    <3>1. /\ call[c] \in [does : {"nothing", "build", "undo", "destroy", "giveup"}, part : 0..B!Gw]
          /\ AtWork(c)
      BY DEF BuilderInv, B!BuilderTypeOK
    <3>2. call[c].does = "nothing" BY <3>1 DEF B!Finalizing, B!Initializing, B!Doing
    <3>3. call[c].part = 0 BY <3>1, <3>2 DEF AtWork
    <3> QED BY <3>1, <3>2, <3>3 DEF B!Out, B!At
  <2> QED BY <2>1 DEF BuilderInv
<1> QED BY <1>1, BuilderInvariant, PTL
-----------------------------------------------------------------------------
(* The receive side before the gateway has been built: nothing to lose.    *)
Fresh ==
  que = <<>> /\ replay = <<>> /\ rcv = "idle" /\ \A w \in Workers : thrd[w] = "WAITING"

(* Where lte_destroy is, as its caller and the parts that exist show.      *)
Phase ==
  /\ fin = "off" /\ ~Up => Fresh
  /\ fin = "join" => \E c \in Callers : call[c] = B!At("destroy", B!Gw)
  /\ fin = "pool" => ~initialized /\ ~Up /\ B!Initializing = {}
  /\ \A c \in Callers : call[c].does = "destroy" =>
        /\ call[c].part = B!Gw => fin \in {"off", "join"}
        /\ call[c].part # B!Gw => fin = "pool"
  /\ fin = "pool" /\ B!Thrd \notin exists => del = "done"

\* The inductive invariant of the life cycle.
LifeInv == SideInv /\ BuilderInv /\ Phase

(* The parts that exist are the first ones, and all of them with the       *)
(* gateway.                                                                *)
LEMMA FirstParts ==
  ASSUME BuilderInv
  PROVE  /\ Up => exists = B!Parts
         /\ B!Thrd \in exists => B!Bufs \in exists
<1>0. /\ B!Parts = 1..5 /\ B!Gw = 5 /\ B!Thrd = 2 /\ B!Bufs = 1
  BY PartsAre DEF B!Thrd, B!Bufs
<1>1. CASE \A c \in Callers : call[c] = B!Out
  BY <1>0, <1>1 DEF BuilderInv, Whole, Up
<1>2. CASE \E c \in Callers : call[c] # B!Out
  <2> PICK c \in Callers : call[c] # B!Out BY <1>2
  <2>1. /\ call[c] \in Places /\ AtWork(c)
    BY PlaceTypes DEF BuilderInv
  <2> DEFINE k == call[c].part
  <2>2. k \in 0..5 /\ call[c].does \in Doings BY <2>1 DEF Places
  <2>3. call[c].does # "nothing" BY <2>1 DEF AtWork, Places, B!Out, B!At
  <2>4. exists = Below(k) \/ (exists = UpTo(k) /\ (k = 5 \/ k < 5)) \/ exists = {}
    BY <2>1, <2>2, <2>3, PartsAre DEF AtWork, Doings
  <2> HIDE DEF k
  <2> QED BY <1>0, <2>2, <2>4 DEF Below, UpTo, Up
<1> QED BY <1>1, <1>2

(* Nobody builds anything but before the receive side has begun. *)
LEMMA BuildsBefore ==
  ASSUME LifeInv, NEW c \in Callers, call[c].does \in {"build", "undo", "giveup"}
  PROVE  fin = "off" /\ ~Up /\ Fresh
<1>0. BuilderInv /\ Phase /\ Ending /\ TypeOK BY DEF LifeInv, SideInv, OrderInv
<1>1. AtWork(c) /\ Alone(c) /\ initialized
  BY <1>0 DEF BuilderInv, AtWork, B!Out, B!At
<1>2. call[c] \in Places BY <1>0, PlaceTypes DEF BuilderInv
<1>3. ~Up BY <1>1, <1>2, PartsAre DEF AtWork, Below, UpTo, Up, Places
<1>4. fin # "pool" BY <1>0, <1>1 DEF Phase
<1>5. fin # "join"
  <2> SUFFICES ASSUME NEW d \in Callers, call[d] = B!At("destroy", B!Gw) PROVE FALSE
    BY <1>0 DEF Phase
  <2>1. d # c BY DEF B!At
  <2> QED BY <1>1, <2>1 DEF Alone, B!At, B!Out
<1>6. fin = "off" BY <1>0, <1>4, <1>5 DEF TypeOK
<1> QED BY <1>0, <1>3, <1>6 DEF Phase

(* A caller of altcom_initialize leaves the receive side alone. *)
LEMMA ConstructPhase ==
  ASSUME LifeInv, NEW c \in Callers, Construct(c)
  PROVE  Phase'
<1>0. BuilderInv /\ Phase BY DEF LifeInv
<1>1. UNCHANGED <<que, replay, rcv, thrd, fin, del>> BY DEF Construct, vars, pool, task, life
<1>2. call \in [Callers -> Places] /\ AtWork(c) BY <1>0, PlaceTypes DEF BuilderInv
<1>3. fin = "off" /\ (~Up => Fresh) /\ (Up => Up')
  <2>1. CASE fin = "off" /\ B!Initialize(c) BY <1>0, <2>1 DEF B!Initialize, Phase, Up
  <2>2. CASE B!Building(c)
    <3>1. call[c].does \in {"build", "undo", "giveup"}
      BY <2>2 DEF B!Building, B!BuildLog, B!BuildPart, B!Undo, B!GiveUp, B!At
    <3> QED BY <3>1, BuildsBefore
  <2> QED BY <2>1, <2>2 DEF Construct
<1>4. call'[c].does # "destroy" /\ \A d \in Callers : d # c => call'[d] = call[d]
  <2>1. \E w \in Doings \ {"destroy"} : \E k : call' = [call EXCEPT ![c] = B!At(w, k)]
    <3> DEFINE IsAt(w) == \E k : call' = [call EXCEPT ![c] = B!At(w, k)]
    <3>1. IsAt("build") \/ IsAt("undo") \/ IsAt("giveup") \/ IsAt("nothing")
      BY DEF Construct, B!Building, B!Initialize, B!BuildLog, B!BuildPart, B!Built, B!Undo, B!GiveUp, B!Goto, B!Out
    <3> HIDE DEF IsAt
    <3>2. \E w \in Doings \ {"destroy"} : IsAt(w) BY <3>1 DEF Doings
    <3> QED BY <3>2 DEF IsAt
  <2>2. PICK w \in Doings \ {"destroy"} : \E k : call' = [call EXCEPT ![c] = B!At(w, k)] BY <2>1
  <2>3. PICK k : call' = [call EXCEPT ![c] = B!At(w, k)] BY <2>2
  <2>4. call'[c] = B!At(w, k) /\ \A d \in Callers : d # c => call'[d] = call[d] BY <1>2, <2>3
  <2> QED BY <2>2, <2>4 DEF B!At
<1>5. fin' = "off" /\ (~Up' => Fresh') BY <1>1, <1>3 DEF Fresh
<1>6. ASSUME NEW d \in Callers, call'[d].does = "destroy" PROVE call'[d].part = B!Gw
  <2>1. call[d].does = "destroy" /\ call'[d] = call[d] BY <1>4, <1>6
  <2> QED BY <1>0, <1>3, <2>1 DEF Phase
<1> QED BY <1>5, <1>6 DEF Phase

(* altcom_finalize begins, and ends. *)
LEMMA DestructPhase ==
  ASSUME LifeInv, NEW c \in Callers, Destruct(c)
  PROVE  Phase'
<1>0. BuilderInv /\ Phase /\ TypeOK BY DEF LifeInv, SideInv, OrderInv
<1>1. UNCHANGED <<que, replay, rcv, thrd, fin, del>> /\ (Fresh => Fresh')
  BY DEF Destruct, vars, pool, task, life, Fresh
<1>2. call \in [Callers -> Places] BY <1>0, PlaceTypes DEF BuilderInv
<1>3. CASE B!Finalize(c)
  <2>1. initialized /\ UNCHANGED exists /\ call' = [call EXCEPT ![c] = B!At("destroy", B!Gw)]
    BY <1>3 DEF B!Finalize, B!Goto
  <2>2. fin \in {"off", "join"} BY <1>0, <2>1 DEF Phase, TypeOK
  <2>3. call'[c] = B!At("destroy", B!Gw) /\ \A d \in Callers : d # c => call'[d] = call[d]
    BY <1>2, <2>1
  <2>4. ASSUME NEW d \in Callers, call'[d].does = "destroy" PROVE call'[d].part = B!Gw
    <3>1. CASE d = c BY <2>3, <3>1 DEF B!At
    <3>2. CASE d # c BY <1>0, <2>2, <2>3, <2>4, <3>2 DEF Phase
    <3> QED BY <3>1, <3>2
  <2>5. fin' = "off" /\ ~Up' => Fresh' BY <1>0, <1>1, <2>1 DEF Phase, Up
  <2> QED BY <1>1, <2>2, <2>3, <2>4, <2>5 DEF Phase
<1>4. CASE B!DestroyLog(c)
  <2>1. /\ call[c] = B!At("destroy", 0) /\ UNCHANGED <<exists, initialized>>
        /\ call' = [call EXCEPT ![c] = B!Out]
    BY <1>4 DEF B!DestroyLog, B!Goto
  <2>2. fin = "pool" BY <1>0, <2>1, PartsAre DEF Phase, B!At
  <2>3. call'[c] = B!Out /\ \A d \in Callers : d # c => call'[d] = call[d] BY <1>2, <2>1
  <2>4. \A d \in Callers : call'[d].does = "nothing" \/ call'[d] = call[d]
    BY <2>3 DEF B!Out, B!At
  <2>5. B!Initializing' = {}
    BY <1>0, <2>2, <2>4 DEF Phase, B!Initializing, B!Doing
  <2>6. ASSUME NEW d \in Callers, call'[d].does = "destroy" PROVE call'[d].part # B!Gw
    BY <1>0, <2>2, <2>4, <2>6 DEF Phase
  <2>7. /\ ~initialized' /\ ~Up' /\ (B!Thrd \notin exists' => del' = "done")
    BY <1>0, <1>1, <2>1, <2>2 DEF Phase, Up
  <2> QED BY <1>1, <2>2, <2>5, <2>6, <2>7 DEF Phase
<1> QED BY <1>3, <1>4 DEF Destruct

(* lte_destroy goes on. *)
LEMMA DestroyPhase ==
  ASSUME LifeInv, B!BuilderTypeOK', NEW c \in Callers, Destroy(c)
  PROVE  Phase'
<1>0. BuilderInv /\ Phase BY DEF LifeInv
<1>1. CASE FinAbort /\ UNCHANGED libVars /\ call[c] = B!At("destroy", B!Gw)
  <2>1. fin' = "join" /\ UNCHANGED call BY <1>1 DEF FinAbort, libVars
  <2>2. Alone(c) BY <1>0, <1>1 DEF BuilderInv, B!At, B!Out
  <2>3. ASSUME NEW d \in Callers, call'[d].does = "destroy" PROVE call'[d].part = B!Gw
    <3>1. d = c BY <2>1, <2>2, <2>3 DEF Alone, B!At, B!Out
    <3> QED BY <1>1, <2>1, <3>1 DEF B!At
  <2> QED BY <1>1, <2>1, <2>3 DEF Phase
<1>2. ASSUME NEW k \in B!Parts, B!DestroyPart(c, k), fin' = "pool",
             k = B!Thrd => del' = "done",
             k # B!Thrd /\ k # B!Gw => fin = "pool" /\ UNCHANGED del
      PROVE  Phase'
  <2>1. /\ call'[c] = B!At("destroy", k - 1) /\ Alone(c)' /\ exists = UpTo(k)
        /\ exists' = exists \ {k} /\ ~initialized' /\ k \in 1..5
    BY <1>0, <1>2, DestroyStep, PartsAre
  <2>2. ~Up' BY <2>1, PartsAre DEF Up, UpTo
  <2>3. \A d \in Callers : d # c => call'[d].does = "nothing"
    BY <2>1 DEF Alone, B!Out, B!At
  <2>4. B!Initializing' = {} BY <2>1, <2>3 DEF B!Initializing, B!Doing, B!At
  <2>5. ASSUME NEW d \in Callers, call'[d].does = "destroy" PROVE call'[d].part # B!Gw
    <3>1. d = c BY <2>3, <2>5
    <3>2. call'[c].part = k - 1 BY <2>1 DEF B!At
    <3> QED BY <2>1, <3>1, <3>2, PartsAre
  <2>6. B!Thrd \notin exists' => del' = "done"
    <3>1. CASE k = B!Thrd BY <1>2, <3>1
    <3>2. CASE k = B!Gw BY <2>1, <3>2, PartsAre DEF B!Thrd, UpTo, B!Parts
    <3>3. CASE k # B!Thrd /\ k # B!Gw BY <1>0, <1>2, <2>1, <3>3 DEF Phase
    <3> QED BY <3>1, <3>2, <3>3
  <2> QED BY <1>2, <2>1, <2>2, <2>4, <2>5, <2>6 DEF Phase
<1>3. ASSUME NEW k \in B!Parts, call[c] = B!At("destroy", k), k # B!Gw PROVE fin = "pool"
  BY <1>0, <1>3 DEF Phase, B!At
<1>4. /\ B!Parts = {B!Bufs, B!Thrd, B!Disp, B!Hal, B!Gw} /\ B!Thrd # B!Gw
      /\ B!Hal # B!Gw /\ B!Hal # B!Thrd /\ B!Disp # B!Gw /\ B!Disp # B!Thrd
      /\ B!Bufs # B!Gw /\ B!Bufs # B!Thrd
  BY DEF B!Parts, B!Bufs, B!Thrd, B!Disp, B!Hal, B!Gw
<1>5. CASE DestroyGw(c)
  <2>1. CASE FinJoin /\ B!DestroyPart(c, B!Gw)
    <3>1. fin' = "pool" BY <2>1 DEF FinJoin
    <3> QED BY <1>2, <1>4, <2>1, <3>1
  <2> QED BY <1>1, <1>5, <2>1 DEF DestroyGw
<1>6. CASE DestroyHal(c)
  <2>1. B!DestroyPart(c, B!Hal) /\ UNCHANGED <<fin, del>> BY <1>6 DEF DestroyHal, pool, life
  <2>2. fin = "pool" BY <1>3, <1>4, <2>1 DEF B!DestroyPart
  <2> QED BY <1>2, <1>4, <2>1, <2>2
<1>7. CASE DestroyIdle(c)
  <2>1. UNCHANGED <<fin, del>> BY <1>7 DEF DestroyIdle, vars, pool, life
  <2>2. CASE B!DestroyPart(c, B!Disp)
    <3>1. fin = "pool" BY <1>3, <1>4, <2>2 DEF B!DestroyPart
    <3> QED BY <1>2, <1>4, <2>1, <2>2, <3>1
  <2>3. CASE B!DestroyPart(c, B!Bufs)
    <3>1. fin = "pool" BY <1>3, <1>4, <2>3 DEF B!DestroyPart
    <3> QED BY <1>2, <1>4, <2>1, <2>3, <3>1
  <2> QED BY <1>7, <2>2, <2>3 DEF DestroyIdle
<1>8. CASE DestroyThrd(c)
  <2>1. call[c] = B!At("destroy", B!Thrd) /\ fin = "pool" /\ UNCHANGED <<fin, rcv, replay>>
    BY <1>8 DEF DestroyThrd, FinPool, life, task
  <2>2. CASE del' = "done" /\ B!DestroyPart(c, B!Thrd) BY <1>2, <1>4, <2>1, <2>2
  <2>3. CASE UNCHANGED libVars
    <3>1. UNCHANGED <<call, exists, initialized>> BY <2>3 DEF libVars
    <3>2. exists = UpTo(B!Thrd) BY <1>0, <2>1 DEF BuilderInv, AtWork, B!At
    <3>3. B!Thrd \in exists BY <3>2 DEF UpTo, B!Thrd, B!Parts
    <3>4. ~initialized' /\ ~Up' /\ B!Initializing' = {}
      BY <1>0, <2>1, <3>1 DEF Phase, Up, B!Initializing, B!Doing
    <3>5. ASSUME NEW d \in Callers, call'[d].does = "destroy" PROVE call'[d].part # B!Gw
      BY <1>0, <2>1, <3>1, <3>5 DEF Phase
    <3> QED BY <2>1, <3>1, <3>3, <3>4, <3>5 DEF Phase
  <2> QED BY <1>8, <2>2, <2>3 DEF DestroyThrd
<1> QED BY <1>5, <1>6, <1>7, <1>8 DEF Destroy

(* The tasks of the receive side do nothing before the gateway is there.   *)
LEMMA RunningPhase ==
  ASSUME LifeInv, Running, UNCHANGED libVars
  PROVE  Phase'
<1>0. Phase BY DEF LifeInv
<1>1. UNCHANGED <<call, exists, initialized>> BY DEF libVars
<1>2. UNCHANGED <<fin, del>>
  BY DEF Running, ArriveEvent, ArriveAnswer, Arrive, TimeOut, RecvStep, Idle, RecvTerminate, RecvAgain,
         RecvFrame, RecvWake, DispatchAnswer, DispatchPostpone, DispatchRun, RecvEnd, RunJob,
         delVars, CallbackStep, Begin, Ask, Return, End, Take, Finish,
         WorkerEnds, TakeNull, Terminate, Leave, AppReady, AppAgain, pool, life
<1>3. Fresh /\ ~Up => Fresh'
  <2> SUFFICES ASSUME Fresh, ~Up PROVE Fresh' OBVIOUS
  <2>1. ASSUME NEW e \in Events, ArriveEvent(e) \/ ArriveAnswer(e) \/ TimeOut(e) PROVE Fresh'
    BY <2>1 DEF ArriveEvent, ArriveAnswer, Arrive, TimeOut, Fresh, pool, task
  <2>2. ASSUME NEW w \in Workers, CallbackStep(w) PROVE Fresh'
    BY <2>2 DEF CallbackStep, Begin, Ask, Return, End, Take, Finish,
                WorkerEnds, TakeNull, Terminate, Leave, Fresh, task
  <2>3. ASSUME AppAgain PROVE Fresh' BY <2>3 DEF AppAgain, Fresh, pool, task
  <2> QED BY <2>1, <2>2, <2>3 DEF Running
<1>4. Up' <=> Up BY <1>1 DEF Up
<1>5. B!Initializing' = B!Initializing BY <1>1 DEF B!Initializing, B!Doing
<1> QED BY <1>0, <1>1, <1>2, <1>3, <1>4, <1>5 DEF Phase

(* The invariant of the life cycle is inductive. *)
LEMMA LifeNextInv == ASSUME ~Crossing PROVE LifeInv /\ [LifeNext]_lifeVars => LifeInv'
<1> SUFFICES ASSUME LifeInv, [LifeNext]_lifeVars PROVE LifeInv' OBVIOUS
<1>1. SideInv' BY SideNext DEF LifeInv
<1>2. BuilderInv' BY LifeBuilds, BuilderNext DEF LifeInv
<1>3. Phase'
  <2>1. B!BuilderTypeOK' BY <1>2 DEF BuilderInv
  <2>2. CASE UNCHANGED lifeVars
    <3>1. UNCHANGED <<que, replay, rcv, thrd, fin, del, call, exists, initialized>>
      BY <2>2 DEF lifeVars, vars, pool, task, life, libVars
    <3> QED BY <3>1 DEF LifeInv, Phase, Fresh, Up, B!Initializing, B!Doing
  <2> QED BY <2>1, <2>2, ConstructPhase, DestructPhase, DestroyPhase, RunningPhase DEF LifeNext, AllOver
<1> QED BY <1>1, <1>2, <1>3 DEF LifeInv

(* At the start there is nothing to lose. *)
LEMMA LifePhaseInit == LifeInit => Phase
<1> SUFFICES ASSUME LifeInit PROVE Phase OBVIOUS
<1>1. fin = "off" /\ Fresh BY DEF LifeInit, Init, PoolInit, Fresh
<1>2. \A c \in Callers : call[c].does = "nothing" BY DEF LifeInit, B!Init, B!Out, B!At
<1> QED BY <1>1, <1>2 DEF Phase

(* The receive side and the parts it uses go together through the whole    *)
(* life cycle (altcombuilder.c:596-762).                                   *)
THEOREM LifeInvariant == ASSUME ~Crossing PROVE LifeSpec => []LifeInv
<1>1. LifeInit => LifeInv BY SideInit, BuilderInit, LifePhaseInit DEF LifeInit, LifeInv
<1>2. LifeInv /\ [LifeNext]_lifeVars => LifeInv' BY LifeNextInv
<1> QED BY <1>1, <1>2, PTL DEF LifeSpec

(* No task of the receive side uses a part that lte_destroy has taken away *)
(* (altcombuilder.c:707-762, thrdpool.c:359-378).                          *)
THEOREM PartsOutliveUsers == ASSUME ~Crossing PROVE LifeSpec => []UsedPartsExist
<1>1. LifeInv => UsedPartsExist
  <2> SUFFICES ASSUME LifeInv PROVE UsedPartsExist OBVIOUS
  <2>0. /\ BuilderInv /\ Phase /\ Ending /\ TypeOK /\ PoolInv /\ FreedLast /\ EndedLast
        /\ B!BuilderTypeOK
    BY FreedAtEnd DEF LifeInv, SideInv, OrderInv, EndedLast, Ending, BuilderInv
  <2>1. /\ Up => exists = B!Parts
        /\ B!Thrd \in exists => B!Bufs \in exists
    BY <2>0, FirstParts
  <2>2. fin = "join" => Up
    <3> SUFFICES ASSUME NEW c \in Callers, call[c] = B!At("destroy", B!Gw) PROVE Up
      BY <2>0 DEF Phase
    <3>1. exists = UpTo(B!Gw) BY <2>0 DEF BuilderInv, AtWork, B!At
    <3> QED BY <3>1, PartsAre DEF Up
  <2>3. ~Up => fin \in {"off", "pool"} BY <2>0, <2>2 DEF TypeOK
  <2>4. del = "done" => que = <<>> /\ \A w \in Workers : thrd[w] = "TERMINATING"
    BY <2>0 DEF FreedLast
  <2>5. B!Thrd \notin exists =>
          que = <<>> /\ replay = <<>> /\ \A w \in Workers : thrd[w] # "RUNNABLE"
    <3> SUFFICES ASSUME B!Thrd \notin exists
                 PROVE  que = <<>> /\ replay = <<>> /\ \A w \in Workers : thrd[w] # "RUNNABLE"
      OBVIOUS
    <3>1. ~Up BY <2>1 DEF B!Parts
    <3>2. CASE fin = "off" BY <2>0, <3>1, <3>2 DEF Phase, Fresh
    <3>3. CASE fin = "pool" BY <2>0, <2>4, <3>3 DEF Phase, Ending
    <3> QED BY <2>3, <3>1, <3>2, <3>3
  <2>6. Up => {B!Hal, B!Disp, B!Thrd, B!Bufs} \subseteq exists BY <2>1 DEF B!Parts
  <2> QED BY <2>0, <2>1, <2>5, <2>6 DEF UsedPartsExist, Ending
<1> QED BY <1>1, LifeInvariant, PTL
=============================================================================
