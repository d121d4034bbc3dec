------------------------------- MODULE CondVar -------------------------------
(***************************************************************************)
(* The condition variable of altcomlib's OS abstraction layer over         *)
(* FreeRTOS (osal/openrtos/osal.c, the thread_cond calls).  FreeRTOS        *)
(* has none, so the layer builds one from a mutex (cond_mutex), a counter  *)
(* (num_waiting) and a queue of bounded length (evtQue) whose messages are *)
(* wake-up tokens.  Every task of the model uses one condition variable    *)
(* together with one mutex, the way the gateway, the buffer pool and the   *)
(* thread pool do: lock, then wait, signal or broadcast while the mutex is *)
(* held, then unlock.                                                      *)
(*                                                                         *)
(* pc[t] is the line a task has reached:                                   *)
(*   out, in      without and with the mutex, outside this layer           *)
(*   release      counted in num_waiting, about to unlock the mutex        *)
(*   blocked      receiving from evtQue                                    *)
(*   relock       received or timed out, about to lock the mutex           *)
(*   deregister   has the mutex, about to decrement num_waiting            *)
(*   signal, broadcast   has cond_mutex, todo[t] tokens left to send       *)
(*   leave        has notified, about to unlock the mutex: every caller in *)
(*                altcomlib signals once, as the last thing it does        *)
(***************************************************************************)
EXTENDS Integers, FiniteSets

CONSTANTS Threads,   (* the tasks                                          *)
          NoThread,  (* the holder of a free mutex                         *)
          QueCap     (* ALTCOM_MAX_TASKS_WAITING_ON_COND_VAR, 10 in        *)
                     (* include/opt/altcom_osal_opt.h                      *)

ASSUME ThreadsAssumption == NoThread \notin Threads /\ IsFiniteSet(Threads)
ASSUME QueCapAssumption == QueCap \in Nat \ {0}

VARIABLES mutex,       (* the holder of the caller's mutex                 *)
          condMutex,   (* the holder of cond_mutex                         *)
          numWaiting,  (* num_waiting                                      *)
          evtQue,      (* the number of tokens in evtQue                   *)
          pc,          (* where each task is                               *)
          todo,        (* tokens a signal or broadcast has left to send    *)
          timed        (* the tasks whose wait has a timeout               *)

vars == <<mutex, condMutex, numWaiting, evtQue, pc, todo, timed>>

Region(S) == {t \in Threads : pc[t] \in S}
Goto(t, l) == pc' = [pc EXCEPT ![t] = l]

Init ==
  /\ mutex = NoThread
  /\ condMutex = NoThread
  /\ numWaiting = 0
  /\ evtQue = 0
  /\ pc = [t \in Threads |-> "out"]
  /\ todo = [t \in Threads |-> 0]
  /\ timed = {}
-----------------------------------------------------------------------------
(* altcom_sys_lock_mutex / altcom_sys_unlock_mutex of the caller's mutex. *)
Lock(t) ==
  /\ pc[t] = "out"
  /\ mutex = NoThread
  /\ mutex' = t
  /\ Goto(t, "in")
  /\ UNCHANGED <<condMutex, numWaiting, evtQue, todo, timed>>

Unlock(t) ==
  /\ pc[t] \in {"in", "leave"}
  /\ mutex' = NoThread
  /\ Goto(t, "out")
  /\ UNCHANGED <<condMutex, numWaiting, evtQue, todo, timed>>

(* num_waiting++ under cond_mutex.  isTimed tells timedwait from wait; a   *)
(* timeout shorter than a tick is passed down as 0 and waits for ever.     *)
WaitRegister(t, isTimed) ==
  /\ pc[t] = "in"
  /\ condMutex = NoThread
  /\ numWaiting' = numWaiting + 1
  /\ timed' = IF isTimed THEN timed \cup {t} ELSE timed \ {t}
  /\ Goto(t, "release")
  /\ UNCHANGED <<mutex, condMutex, evtQue, todo>>

WaitRelease(t) ==
  /\ pc[t] = "release"
  /\ mutex' = NoThread
  /\ Goto(t, "blocked")
  /\ UNCHANGED <<condMutex, numWaiting, evtQue, todo, timed>>

WaitReceive(t) ==
  /\ pc[t] = "blocked"
  /\ evtQue > 0
  /\ evtQue' = evtQue - 1
  /\ Goto(t, "relock")
  /\ UNCHANGED <<mutex, condMutex, numWaiting, todo, timed>>

(* xQueueReceive gives up only if the queue is empty when its time is up. *)
WaitTimeout(t) ==
  /\ pc[t] = "blocked"
  /\ t \in timed
  /\ evtQue = 0
  /\ Goto(t, "relock")
  /\ UNCHANGED <<mutex, condMutex, numWaiting, evtQue, todo, timed>>

WaitRelock(t) ==
  /\ pc[t] = "relock"
  /\ mutex = NoThread
  /\ mutex' = t
  /\ Goto(t, "deregister")
  /\ UNCHANGED <<condMutex, numWaiting, evtQue, todo, timed>>

(* Mutant: the time-out path returns before num_waiting--. *)
WaitDeregisterUnlessTimed(t) ==
  /\ pc[t] = "deregister"
  /\ condMutex = NoThread
  /\ numWaiting' = IF t \in timed THEN numWaiting ELSE numWaiting - 1
  /\ Goto(t, "in")
  /\ UNCHANGED <<mutex, condMutex, evtQue, todo, timed>>

(* num_waiting-- under cond_mutex. *)
WaitDeregister(t) ==
  /\ pc[t] = "deregister"
  /\ condMutex = NoThread
  /\ numWaiting' = numWaiting - 1
  /\ Goto(t, "in")
  /\ UNCHANGED <<mutex, condMutex, evtQue, todo, timed>>

(* Mutants: a signal that does not look at num_waiting, and a broadcast    *)
(* whose loop stops one short.                                             *)
SignalTokensAlways == 1
BroadcastTokensShort == IF numWaiting > 1 THEN numWaiting - 1 ELSE numWaiting

(* The number of tokens each call sends. *)
SignalTokens == IF numWaiting # 0 THEN 1 ELSE 0
BroadcastTokens == numWaiting

(* signal and broadcast read num_waiting once cond_mutex is held, and keep *)
(* cond_mutex until the last token is in the queue.                        *)
NotifyBegin(t, call, tokens) ==
  /\ pc[t] = "in"
  /\ condMutex = NoThread
  /\ condMutex' = t
  /\ todo' = [todo EXCEPT ![t] = tokens]
  /\ Goto(t, call)
  /\ UNCHANGED <<mutex, numWaiting, evtQue, timed>>

Signal(t) == NotifyBegin(t, "signal", SignalTokens)
Broadcast(t) == NotifyBegin(t, "broadcast", BroadcastTokens)

Notifying == Region({"signal", "broadcast"})

(* xQueueSend with portMAX_DELAY: waits for as long as the queue is full. *)
NotifySend(t) ==
  /\ t \in Notifying
  /\ todo[t] > 0
  /\ evtQue < QueCap
  /\ evtQue' = evtQue + 1
  /\ todo' = [todo EXCEPT ![t] = @ - 1]
  /\ UNCHANGED <<mutex, condMutex, numWaiting, pc, timed>>

NotifyEnd(t) ==
  /\ t \in Notifying
  /\ todo[t] = 0
  /\ condMutex' = NoThread
  /\ Goto(t, "leave")
  /\ UNCHANGED <<mutex, numWaiting, evtQue, todo, timed>>

Next ==
  \E t \in Threads :
     \/ Lock(t)
     \/ Unlock(t)
     \/ \E isTimed \in BOOLEAN : WaitRegister(t, isTimed)
     \/ Signal(t)
     \/ Broadcast(t)
     \/ WaitRelease(t) \/ WaitReceive(t) \/ WaitTimeout(t)
     \/ WaitRelock(t) \/ WaitDeregister(t)
     \/ NotifySend(t) \/ NotifyEnd(t)

Spec == Init /\ [][Next]_vars
-----------------------------------------------------------------------------
PCs == {"out", "in", "release", "blocked", "relock", "deregister",
        "signal", "broadcast", "leave"}
Counted == Region({"release", "blocked", "relock", "deregister"})
Holding == Region({"in", "release", "deregister", "signal", "broadcast", "leave"})

TypeOK ==
  /\ mutex \in Threads \cup {NoThread}
  /\ condMutex \in Threads \cup {NoThread}
  /\ numWaiting \in Nat
  /\ evtQue \in 0 .. QueCap
  /\ pc \in [Threads -> PCs]
  /\ todo \in [Threads -> Nat]
  /\ timed \in SUBSET Threads

(* Only the holder of the mutex is past a lock of it, inside wait() too:   *)
(* the lock that osal.c:466 takes again is the caller's critical section.  *)
MutualExclusion == \A t \in Threads : t \in Holding <=> mutex = t

(* num_waiting is the number of tasks between its ++ and its --, whatever  *)
(* wake-ups, time-outs and notifications are in progress (osal.c:460,474). *)
CountExact == numWaiting = Cardinality(Counted)

Blocked == Region({"blocked"})
Awake == Region({"relock", "deregister"})

(* "shall unblock at least one of the threads that are blocked"            *)
(* (altcom_osal.h:669): while a signal is sending, a token is queued or    *)
(* about to be, or some waiter is awake already, unless nobody is blocked. *)
SignalCovers ==
  \A t \in Threads :
    pc[t] = "signal" => evtQue + todo[t] > 0 \/ Awake # {} \/ Blocked = {}

(* "shall unblock all of the threads that are blocked" (altcom_osal.h:688): *)
(* while a broadcast is sending, the tokens queued and still to come are at *)
(* least as many as the tasks still blocked.                                *)
BroadcastCovers ==
  \A t \in Threads :
    pc[t] = "broadcast" => evtQue + todo[t] >= Cardinality(Blocked)

(* What a notification in progress owes the waiters (osal.c:500-504,       *)
(* 520-524), whatever time-outs and wake-ups come between its tokens.      *)
Covers == SignalCovers /\ BroadcastCovers

(* What the callers may rely on (module Monitor): a task is waiting from   *)
(* the moment it gives the mutex up, woken once it has a token or is out   *)
(* of time, and a signal that sees num_waiting # 0 leaves a permit.        *)
M == INSTANCE Monitor WITH
       owner <- mutex,
       waiting <- Blocked,
       woken <- Region({"relock"}),
       permits <- evtQue,
       PermitCap <- QueCap

ImplementsMonitor == M!MonitorSpec
=============================================================================
