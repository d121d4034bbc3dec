------------------------------- MODULE Monitor -------------------------------
(***************************************************************************)
(* What a mutex and a condition variable of the altcomlib OS abstraction   *)
(* layer promise to the code that waits and signals (altcom_osal.h,        *)
(* osal.c): a monitor whose signals are kept as permits.  A permit is      *)
(* deposited by the owner of the mutex when somebody waits, is taken by    *)
(* any waiter, and outlives the waiter it was meant for, so a wake-up may  *)
(* be spurious.  CondVar implements this module; BuffPool and ThrdPool use *)
(* its operations.                                                         *)
(***************************************************************************)
EXTENDS Integers

CONSTANTS Threads,   (* the tasks that share the mutex                     *)
          NoThread,  (* the owner of a free mutex                          *)
          PermitCap  (* ALTCOM_MAX_TASKS_WAITING_ON_COND_VAR               *)

ASSUME MonitorAssumption == NoThread \notin Threads /\ PermitCap \in Nat \ {0}

VARIABLES owner,     (* the task that holds the mutex                      *)
          waiting,   (* tasks inside wait() that nothing has woken yet     *)
          woken,     (* tasks inside wait() that must take the mutex again *)
          permits    (* signals that no waiter has taken                   *)

monitorVars == <<owner, waiting, woken, permits>>

MonitorTypeOK ==
  /\ owner \in Threads \cup {NoThread}
  /\ waiting \in SUBSET Threads
  /\ woken \in SUBSET Threads
  /\ permits \in 0 .. PermitCap

MonitorInit ==
  /\ owner = NoThread
  /\ waiting = {}
  /\ woken = {}
  /\ permits = 0
-----------------------------------------------------------------------------
Outside(t) == owner # t /\ t \notin waiting \cup woken

Acquire(t) ==
  /\ owner = NoThread
  /\ Outside(t)
  /\ owner' = t
  /\ UNCHANGED <<waiting, woken, permits>>

Release(t) ==
  /\ owner = t
  /\ owner' = NoThread
  /\ UNCHANGED <<waiting, woken, permits>>

(* The waiter gives the mutex up and starts to wait in one step. *)
Wait(t) ==
  /\ owner = t
  /\ owner' = NoThread
  /\ waiting' = waiting \cup {t}
  /\ UNCHANGED <<woken, permits>>

Wake(t) ==
  /\ t \in waiting
  /\ permits > 0
  /\ permits' = permits - 1
  /\ waiting' = waiting \ {t}
  /\ woken' = woken \cup {t}
  /\ UNCHANGED owner

(* A timed wait only gives up when there is no permit to take. *)
TimeOut(t) ==
  /\ t \in waiting
  /\ permits = 0
  /\ waiting' = waiting \ {t}
  /\ woken' = woken \cup {t}
  /\ UNCHANGED <<owner, permits>>

Reacquire(t) ==
  /\ t \in woken
  /\ owner = NoThread
  /\ owner' = t
  /\ woken' = woken \ {t}
  /\ UNCHANGED <<waiting, permits>>

(* One permit of a signal or of a broadcast: only while somebody waits. *)
Notify(t) ==
  /\ owner = t
  /\ waiting \cup woken # {}
  /\ permits < PermitCap
  /\ permits' = permits + 1
  /\ UNCHANGED <<owner, waiting, woken>>

MonitorNext ==
  \E t \in Threads :
     \/ Acquire(t) \/ Release(t) \/ Wait(t) \/ Wake(t)
     \/ TimeOut(t) \/ Reacquire(t) \/ Notify(t)

MonitorSpec == MonitorInit /\ [][MonitorNext]_monitorVars
=============================================================================
