------------------------------- MODULE BuffPool -------------------------------
(***************************************************************************)
(* The buffer pool of altcomlib (util/buffpool.c).  Buffers come in size   *)
(* classes.  buffpool_alloc takes a buffer of the smallest class that fits *)
(* and has one free, and otherwise waits on the pool's only condition      *)
(* variable; buffpool_free returns a buffer and signals it once.  The      *)
(* mutex getwaitcondmtx and the condition variable getwaitcond are those   *)
(* of module Monitor, which the OS layer implements.                       *)
(*                                                                         *)
(* stage[t] is where task t is: "idle" outside the pool, "alloc" inside    *)
(* buffpool_alloc, "put", "signal" and "unlock" inside buffpool_free.      *)
(***************************************************************************)
EXTENDS Monitor, FiniteSets, FiniteSetsExt

CONSTANTS Buffers,   (* every buffer of the pool                           *)
          SizeOf,    (* the size of each buffer, that of its class         *)
          Requests,  (* the sizes tasks ask for                            *)
          NoBuffer,  (* a null pointer                                     *)
          MaxHeld    (* how many buffers a task uses at a time             *)

ASSUME BuffPoolAssumption ==
  /\ IsFiniteSet(Buffers) /\ IsFiniteSet(Threads)
  /\ SizeOf \in [Buffers -> Nat \ {0}]
  /\ Requests \subseteq Nat \ {0}
  /\ NoBuffer \notin Buffers
  /\ MaxHeld \in Nat

VARIABLES freelist,   (* the free buffers of every class                   *)
          alloclist,  (* the buffers in use                                *)
          freecnt, usedcnt, maxusedcnt,  (* the counters of each class     *)
          holder,     (* the task that uses each buffer, or NoThread       *)
          stage,      (* where each task is                                *)
          reqsize,    (* what a task in buffpool_alloc asks for            *)
          buff        (* what a task in buffpool_free gives back           *)

poolVars == <<freelist, alloclist, freecnt, usedcnt, maxusedcnt>>
taskVars == <<holder, stage, reqsize, buff>>
vars == <<monitorVars, poolVars, taskVars>>

Classes == {SizeOf[b] : b \in Buffers}
OfClass(c) == {b \in Buffers : SizeOf[b] = c}
Goto(t, s) == stage' = [stage EXCEPT ![t] = s]

Init ==
  /\ MonitorInit
  /\ freelist = Buffers
  /\ alloclist = {}
  /\ freecnt = [c \in Classes |-> Cardinality(OfClass(c))]
  /\ usedcnt = [c \in Classes |-> 0]
  /\ maxusedcnt = [c \in Classes |-> 0]
  /\ holder = [b \in Buffers |-> NoThread]
  /\ stage = [t \in Threads |-> "idle"]
  /\ reqsize = [t \in Threads |-> 0]
  /\ buff = [t \in Threads |-> NoBuffer]
-----------------------------------------------------------------------------
(* buffpool_getbuffer: the first class in ascending order that is large    *)
(* enough and has a free buffer.                                           *)
Fitting(size) == {c \in Classes : c >= size}
Available(size) == {c \in Fitting(size) : freelist \cap OfClass(c) # {}}
FirstFit(size) == Min(Available(size))

(* Mutant: the high-water mark is not kept. *)
TakeBufferNoMark(t, c) ==
  \E b \in freelist \cap OfClass(c) :
     /\ freelist' = freelist \ {b}
     /\ alloclist' = alloclist \cup {b}
     /\ holder' = [holder EXCEPT ![b] = t]
     /\ freecnt' = [freecnt EXCEPT ![c] = @ - 1]
     /\ usedcnt' = [usedcnt EXCEPT ![c] = @ + 1]
     /\ UNCHANGED maxusedcnt

TakeBuffer(t, c) ==
  \E b \in freelist \cap OfClass(c) :
     /\ freelist' = freelist \ {b}
     /\ alloclist' = alloclist \cup {b}
     /\ holder' = [holder EXCEPT ![b] = t]
     /\ freecnt' = [freecnt EXCEPT ![c] = @ - 1]
     /\ usedcnt' = [usedcnt EXCEPT ![c] = @ + 1]
     /\ maxusedcnt' = [maxusedcnt EXCEPT ![c] = Max({@, usedcnt[c] + 1})]

Held(t) == {b \in Buffers : holder[b] = t}

AllocLock(t, size) ==
  /\ stage[t] = "idle"
  /\ Cardinality(Held(t)) < MaxHeld
  /\ Acquire(t)
  /\ Goto(t, "alloc")
  /\ reqsize' = [reqsize EXCEPT ![t] = size]
  /\ UNCHANGED <<poolVars, holder, buff>>

AllocTake(t) ==
  /\ stage[t] = "alloc"
  /\ Available(reqsize[t]) # {}
  /\ TakeBuffer(t, FirstFit(reqsize[t]))
  /\ Release(t)
  /\ Goto(t, "idle")
  /\ UNCHANGED <<reqsize, buff>>

AllocWait(t) ==
  /\ stage[t] = "alloc"
  /\ Available(reqsize[t]) = {}
  /\ Fitting(reqsize[t]) # {}
  /\ Wait(t)
  /\ UNCHANGED <<poolVars, taskVars>>

(* No class is large enough: buffpool_alloc returns NULL. *)
AllocFail(t) ==
  /\ stage[t] = "alloc"
  /\ Fitting(reqsize[t]) = {}
  /\ Release(t)
  /\ Goto(t, "idle")
  /\ UNCHANGED <<poolVars, holder, reqsize, buff>>

(* The two halves of altcom_sys_thread_cond_wait after it was signalled. *)
AllocWake(t) == Wake(t) /\ UNCHANGED <<poolVars, taskVars>>
AllocRelock(t) == Reacquire(t) /\ UNCHANGED <<poolVars, taskVars>>
-----------------------------------------------------------------------------
(* buffpool_free. *)
FreeLock(t, b) ==
  /\ stage[t] = "idle"
  /\ b \in Held(t)
  /\ Acquire(t)
  /\ Goto(t, "put")
  /\ buff' = [buff EXCEPT ![t] = b]
  /\ UNCHANGED <<poolVars, holder, reqsize>>

(* Mutant: the buffer stays on alloclist. *)
FreePutNoPull(t) ==
  LET b == buff[t]
      c == SizeOf[b]
  IN /\ stage[t] = "put"
     /\ owner = t
     /\ freelist' = freelist \cup {b}
     /\ freecnt' = [freecnt EXCEPT ![c] = @ + 1]
     /\ usedcnt' = [usedcnt EXCEPT ![c] = @ - 1]
     /\ holder' = [holder EXCEPT ![b] = NoThread]
     /\ Goto(t, "signal")
     /\ UNCHANGED <<alloclist, monitorVars, maxusedcnt, reqsize, buff>>

FreePut(t) ==
  LET b == buff[t]
      c == SizeOf[b]
  IN /\ stage[t] = "put"
     /\ owner = t
     /\ alloclist' = alloclist \ {b}
     /\ freelist' = freelist \cup {b}
     /\ freecnt' = [freecnt EXCEPT ![c] = @ + 1]
     /\ usedcnt' = [usedcnt EXCEPT ![c] = @ - 1]
     /\ holder' = [holder EXCEPT ![b] = NoThread]
     /\ Goto(t, "signal")
     /\ UNCHANGED <<monitorVars, maxusedcnt, reqsize, buff>>

(* Mutant: signal only when the free list was empty before. *)
FreeSignalWhenFirst(t) ==
  /\ stage[t] = "signal"
  /\ IF waiting \cup woken = {} \/ Cardinality(freelist) > 1
     THEN UNCHANGED monitorVars ELSE Notify(t)
  /\ Goto(t, "unlock")
  /\ UNCHANGED <<poolVars, holder, reqsize, buff>>

(* altcom_sys_signal_thread_cond: nothing is sent if nobody waits. *)
FreeSignal(t) ==
  /\ stage[t] = "signal"
  /\ IF waiting \cup woken = {} THEN UNCHANGED monitorVars ELSE Notify(t)
  /\ Goto(t, "unlock")
  /\ UNCHANGED <<poolVars, holder, reqsize, buff>>

FreeUnlock(t) ==
  /\ stage[t] = "unlock"
  /\ Release(t)
  /\ Goto(t, "idle")
  /\ buff' = [buff EXCEPT ![t] = NoBuffer]
  /\ UNCHANGED <<poolVars, holder, reqsize>>

Next ==
  \E t \in Threads :
     \/ \E size \in Requests : AllocLock(t, size)
     \/ AllocTake(t) \/ AllocWait(t) \/ AllocFail(t)
     \/ AllocWake(t) \/ AllocRelock(t)
     \/ \E b \in Buffers : FreeLock(t, b)
     \/ FreePut(t) \/ FreeSignal(t) \/ FreeUnlock(t)

Spec == Init /\ [][Next]_vars
-----------------------------------------------------------------------------
TypeOK ==
  /\ MonitorTypeOK
  /\ freelist \in SUBSET Buffers /\ alloclist \in SUBSET Buffers
  /\ freecnt \in [Classes -> Nat]
  /\ usedcnt \in [Classes -> Nat]
  /\ maxusedcnt \in [Classes -> Nat]
  /\ holder \in [Buffers -> Threads \cup {NoThread}]
  /\ stage \in [Threads -> {"idle", "alloc", "put", "signal", "unlock"}]
  /\ reqsize \in [Threads -> Requests \cup {0}]
  /\ buff \in [Threads -> Buffers \cup {NoBuffer}]

(* The assertions of buffpool.c:330, 336 and 610: the counters of a class  *)
(* agree with its lists, and the high-water mark with both.                *)
CountsConsistent ==
  \A c \in Classes :
    /\ freecnt[c] = Cardinality(freelist \cap OfClass(c))
    /\ usedcnt[c] = Cardinality(alloclist \cap OfClass(c))
    /\ usedcnt[c] <= maxusedcnt[c]
    /\ maxusedcnt[c] <= Cardinality(OfClass(c))

(* A buffer is on exactly one list, and on the alloclist exactly while one *)
(* task uses it.                                                           *)
OneOwner ==
  /\ freelist = Buffers \ alloclist
  /\ \A b \in Buffers : b \in alloclist <=> holder[b] # NoThread

(* Nobody sleeps on a free buffer: buffpool_getbuffer makes a caller wait  *)
(* "when all buffers satisfying the request are in use" (buffpool.c:296),  *)
(* so while a buffer that would do for a waiting task is free, a wake-up   *)
(* is under way: a permit is queued, a woken task is coming, or the owner  *)
(* of the mutex has still to look or to signal.                            *)
Satisfiable(t) == Available(reqsize[t]) # {}
NobodySleepsOnFree ==
  (\E t \in waiting : Satisfiable(t))
    => \/ permits > 0
       \/ woken # {}
       \/ \E t \in Threads : owner = t /\ stage[t] \in {"alloc", "signal"}
=============================================================================
