------------------------------- MODULE RecvTask -------------------------------
(***************************************************************************)
(* The receive side of ALTCOM: the HAL's receive buffer and its abort flag *)
(* (hal_uart_alt125x.c), the receive task of the gateway with its list of  *)
(* postponed events (apicmdgw_recvtask), the callback thread it hands      *)
(* events to (evthdlbs_runjob and thrdpool.c, here the module ThrdPool),   *)
(* altcom_app_ready, and the end of it all in lte_destroy.                 *)
(*                                                                         *)
(* A frame is an event, or the answer to a command that an event's         *)
(* callback has sent; magic number, header and checksums are not seen      *)
(* here, and damaged frames are GwState's.  The callback thread cannot go  *)
(* on before the receive task has received the answer, and the receive     *)
(* task cannot go on before the job queue has room.                        *)
(***************************************************************************)
EXTENDS ThrdPool, SequencesExt

CONSTANTS Postponable, (* the events in g_postponable_evt_list             *)
          Postpone,    (* is_postpone_evt_until_appready                   *)
          HalMax,      (* frames in HAL_UART_ALT125X_MAXPACKETSIZE         *)
          Concurrent   (* altcom_finalize may overtake altcom_app_ready    *)

(* Every job is an event's callback, and the modem sends each event once.  *)
(* The code has one callback thread, APICALLBACK_THRD_NUM.                 *)
Events == Jobs
Answer(e) == <<"answer", e>>
Answers == {Answer(e) : e \in Events}
Frames == Events \cup Answers

ASSUME RecvTaskAssumption ==
  /\ Events \cap Answers = {} /\ NULL \notin Answers
  /\ Postponable \subseteq Events
  /\ HalMax \in Nat \ {0}
  /\ Postpone \in BOOLEAN /\ Concurrent \in BOOLEAN

VARIABLES hal,      (* recvbuff from readptr to writeptr                   *)
          sem,      (* objsem                                              *)
          abort,    (* g_abort_type                                        *)
          rcv,      (* the receive task's place                            *)
          cur,      (* the frame in rcvbuff                                *)
          postpone, (* is_postpone_evt                                     *)
          replay,   (* replay_evt_list                                     *)
          ready,    (* g_checkpostpone_sem                                 *)
          app,      (* where altcom_app_ready is                           *)
          fin,      (* where lte_destroy is                                *)
          cb,       (* each event's callback                               *)
          arrived,  (* history: the events, as they entered the HAL buffer *)
          begun     (* history: the events, as their callbacks began       *)

task == <<rcv, cur, postpone, replay>>
life == <<ready, app, fin>>
history == <<arrived, begun>>
vars == <<pool, hal, sem, abort, task, life, cb, history>>

Init ==
  /\ PoolInit
  /\ hal = <<>> /\ sem = FALSE /\ abort = "NONE"
  /\ rcv = "idle" /\ cur = NULL /\ postpone = Postpone /\ replay = <<>>
  /\ ready = FALSE /\ app = "off" /\ fin = "off"
  /\ cb = [e \in Events |-> "none"]
  /\ arrived = <<>> /\ begun = <<>>

Awaiting == {e \in Events : cb[e] = "ask"}
-----------------------------------------------------------------------------
(* The modem, and hal_uart_alt125x_recv_callback. *)
Arrive(f) ==
  /\ Len(hal) < HalMax
  /\ hal' = Append(hal, f)
  /\ sem' = TRUE
  /\ UNCHANGED <<pool, abort, task, life, cb, begun>>

(* An event is sent once; an event that finds the buffer full is discarded *)
(* and stands for itself never having been sent.                           *)
ArriveEvent(e) ==
  /\ e \notin Range(arrived)
  /\ arrived' = Append(arrived, e)
  /\ Arrive(e)

ArriveAnswer(e) ==
  /\ e \in Awaiting
  /\ Answer(e) \notin Range(hal) /\ cur # Answer(e)
  /\ UNCHANGED arrived
  /\ Arrive(Answer(e))
-----------------------------------------------------------------------------
(* The receive task between two frames.  It asks the semaphore whether the *)
(* application is ready, and reads the next frame from the HAL, or from    *)
(* the postponed events.                                                   *)
Postponing == postpone /\ ~ready

Idle ==
  /\ rcv = "idle"
  /\ postpone' = Postponing
  /\ IF Postponing \/ replay = <<>>
       THEN rcv' = "recv" /\ UNCHANGED <<cur, replay>>
       ELSE rcv' = "dispatch" /\ cur' = Head(replay) /\ replay' = Tail(replay)
  /\ UNCHANGED <<pool, hal, sem, abort, life, cb, history>>

(* hal_uart_alt125x_recv: first the abort flag (HAL_RECV_ABORT_CHECK). *)
RecvTerminate ==
  /\ rcv = "recv"
  /\ abort = "TERMINATE"
  /\ rcv' = "end"
  /\ UNCHANGED <<pool, hal, sem, abort, cur, postpone, replay, life, cb, history>>

RecvAgain ==
  /\ rcv = "recv"
  /\ abort = "AGAIN"
  /\ abort' = "NONE"
  /\ rcv' = "idle"
  /\ UNCHANGED <<pool, hal, sem, cur, postpone, replay, life, cb, history>>

RecvFrame ==
  /\ rcv = "recv"
  /\ abort = "NONE"
  /\ IF hal = <<>>
       THEN rcv' = "sleep" /\ UNCHANGED <<hal, cur>>
       ELSE rcv' = "dispatch" /\ cur' = Head(hal) /\ hal' = Tail(hal)
  /\ UNCHANGED <<pool, sem, abort, postpone, replay, life, cb, history>>

RecvWake ==
  /\ rcv = "sleep"
  /\ sem
  /\ sem' = FALSE
  /\ rcv' = "recv"
  /\ UNCHANGED <<pool, hal, abort, cur, postpone, replay, life, cb, history>>

(* apicmdgw_writetable wakes the command that waits for the answer.  An    *)
(* answer nobody waits for finds no event handler and is freed.            *)
DispatchAnswer ==
  /\ rcv = "dispatch"
  /\ cur \in Answers
  /\ cb' = [e \in Events |-> IF cur = Answer(e) /\ cb[e] = "ask" THEN "back" ELSE cb[e]]
  /\ rcv' = "idle" /\ cur' = NULL
  /\ UNCHANGED <<pool, hal, sem, abort, postpone, replay, life, history>>

(* apicmdgw_checkpostponeevt appends to the list.  Mutant: at its head.    *)
PostponedFirst(e) == <<e>> \o replay

Postponed(e) == Append(replay, e)

IsPostponed == postpone /\ cur \in Postponable

DispatchPostpone ==
  /\ rcv = "dispatch"
  /\ cur \in Events
  /\ IsPostponed
  /\ replay' = Postponed(cur)
  /\ rcv' = "idle" /\ cur' = NULL
  /\ UNCHANGED <<pool, hal, sem, abort, postpone, life, cb, history>>

(* evtdisp_dispatch: the event's handler calls evthdlbs_runjob, which      *)
(* blocks the receive task while the job queue is full.                    *)
DispatchRun ==
  /\ rcv = "dispatch"
  /\ cur \in Events
  /\ ~IsPostponed
  /\ RunJob(cur)
  /\ rcv' = "idle" /\ cur' = NULL
  /\ UNCHANGED <<hal, sem, abort, postpone, replay, life, cb, history>>

(* The end: the postponed events are freed and apicmdgw_fin is told. *)
RecvEnd ==
  /\ rcv = "end"
  /\ rcv' = "ended"
  /\ replay' = <<>>
  /\ UNCHANGED <<pool, hal, sem, abort, cur, postpone, life, cb, history>>

RecvStep ==
  \/ Idle \/ RecvTerminate \/ RecvAgain \/ RecvFrame \/ RecvWake
  \/ DispatchAnswer \/ DispatchPostpone \/ DispatchRun \/ RecvEnd
-----------------------------------------------------------------------------
(* The callback thread runs the event's callback. *)
Begin(w) ==
  /\ Take(w)
  /\ cb' = [cb EXCEPT ![job'[w]] = "run"]
  /\ begun' = Append(begun, job'[w])
  /\ UNCHANGED <<hal, sem, abort, task, life, arrived>>

(* A callback may send a command and wait for the answer; apicmdgw_send    *)
(* refuses it when apicmdgw_fin has begun.                                 *)
Ask(w) ==
  /\ thrd[w] = "RUNNABLE"
  /\ cb[job[w]] = "run"
  /\ fin = "off"
  /\ cb' = [cb EXCEPT ![job[w]] = "ask"]
  /\ UNCHANGED <<pool, hal, sem, abort, task, life, history>>

(* The command's timeout.  Mutant: it waits with ALTCOM_SYS_TIMEO_FEVR. *)
TimeOutNever(e) == FALSE /\ UNCHANGED vars

TimeOut(e) ==
  /\ cb[e] = "ask"
  /\ cb' = [cb EXCEPT ![e] = "back"]
  /\ UNCHANGED <<pool, hal, sem, abort, task, life, history>>

Return(w) ==
  /\ thrd[w] = "RUNNABLE"
  /\ cb[job[w]] \in {"run", "back"}
  /\ cb' = [cb EXCEPT ![job[w]] = "over"]
  /\ Finish(w)
  /\ UNCHANGED <<hal, sem, abort, task, life, history>>

End(w) ==
  /\ WorkerEnds(w)
  /\ UNCHANGED <<hal, sem, abort, task, life, cb, history>>
-----------------------------------------------------------------------------
(* abortrecv of the HAL.  Mutant: the semaphore is not posted. *)
AbortRecvQuiet(type) == abort' = type /\ UNCHANGED sem

AbortRecv(type) == abort' = type /\ sem' = TRUE

(* altcom_app_ready: apicmdgw_replay_postponed_event, apicmdgw_recvagain. *)
AppReady ==
  /\ app = "off"
  /\ fin = "off"
  /\ app' = "posted"
  /\ ready' = TRUE
  /\ UNCHANGED <<pool, hal, sem, abort, task, fin, cb, history>>

AppAgain ==
  /\ app = "posted"
  /\ fin \in {"off", "join"}
  /\ app' = "ready"
  /\ AbortRecv("AGAIN")
  /\ UNCHANGED <<pool, hal, task, ready, fin, cb, history>>

(* lte_destroy: apicmdgw_fin, and after the HAL and the dispatcher the     *)
(* callback threads.  Mutant: apicmdgw_fin does not wait for the task.     *)
FinAbort ==
  /\ fin = "off"
  /\ Concurrent \/ app # "posted"
  /\ fin' = "join"
  /\ AbortRecv("TERMINATE")
  /\ UNCHANGED <<pool, hal, task, ready, app, cb, history>>

RecvTaskEndedUnasked == TRUE

RecvTaskEnded == rcv = "ended"

(* apicmdgw_relcondwaitall ends the commands that still wait. *)
FinJoin ==
  /\ fin = "join"
  /\ RecvTaskEnded
  /\ fin' = "pool"
  /\ cb' = [e \in Events |-> IF cb[e] = "ask" THEN "back" ELSE cb[e]]
  /\ UNCHANGED <<pool, hal, sem, abort, task, ready, app, history>>

FinPool ==
  /\ fin = "pool"
  /\ Delete
  /\ UNCHANGED <<hal, sem, abort, task, life, cb, history>>

CallbackStep(w) == Begin(w) \/ Ask(w) \/ Return(w) \/ End(w)
-----------------------------------------------------------------------------
(* The places of the tasks, the frames and the flags. *)
TypeOK ==
  /\ PoolTypeOK
  /\ hal \in Seq(Frames) /\ Len(hal) <= HalMax
  /\ sem \in BOOLEAN
  /\ abort \in {"NONE", "AGAIN", "TERMINATE"}
  /\ rcv \in {"idle", "recv", "sleep", "dispatch", "end", "ended"}
  /\ cur \in Frames \cup {NULL}
  /\ postpone \in BOOLEAN /\ ready \in BOOLEAN
  /\ replay \in Seq(Postponable)
  /\ app \in {"off", "posted", "ready"}
  /\ fin \in {"off", "join", "pool"}
  /\ cb \in [Events -> {"none", "run", "ask", "back", "over"}]
  /\ arrived \in Seq(Events) /\ begun \in Seq(Events)

(* Callbacks begin in the order in which the events arrived, the           *)
(* postponable ones among themselves and the others among themselves, each *)
(* once, and none is skipped: whether they went through the list of        *)
(* postponed events (apicmdgw.c:713-733, 609-648) or not, and whatever     *)
(* arrived while the list was being replayed.  Until the application has   *)
(* called altcom_app_ready no postponable one begins                       *)
(* (altcom_initialize.c:85-89).                                            *)
Earlier(s, a, b) == \E i, j \in DOMAIN s : i < j /\ s[i] = a /\ s[j] = b
Kinds == {Postponable, Events \ Postponable}
InTurn ==
  /\ \A K \in Kinds : \A a, b \in K :
       Earlier(arrived, a, b) /\ b \in Range(begun) => Earlier(begun, a, b)
  /\ \A i, j \in DOMAIN begun : begun[i] = begun[j] => i = j
  /\ Range(begun) \subseteq Range(arrived)
  /\ Postpone /\ ~ready => Postponable \cap Range(begun) = {}

(* When thrdpool_delete frees the queue and the threads' tables, no thread *)
(* looks at them again and no event is left behind (thrdpool.c:359-378).   *)
EndedLast == TypeOK /\ FreedLast /\ (del = "done" => rcv = "ended")

(* A callback that waits for an answer goes on, though only the receive    *)
(* task can bring the answer, and it may be waiting for the queue that the *)
(* callback's own thread has to empty (thrdpool.c:126).                    *)
CallbackGoesOn == \A e \in Events : cb[e] = "ask" ~> cb[e] # "ask"

(* Once the application is ready, every event that has arrived has its     *)
(* callback run, the postponed ones too (apicmdgw.c:713-733, 1072-1079),   *)
(* or the library ends.                                                    *)
EventsRun ==
  \A e \in Events :
    (e \in Range(arrived) /\ app = "ready") ~> (cb[e] = "over" \/ fin # "off")
=============================================================================
