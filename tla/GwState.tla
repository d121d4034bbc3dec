-------------------------------- MODULE GwState --------------------------------
(***************************************************************************)
(* The state machine in front of the API command gateway                   *)
(* (altcom/gw/apicmdgw.c).  The first command after apicmdgw_init starts a *)
(* task that sends echo commands until the modem answers one; meanwhile    *)
(* every command waits on g_stateCond.  apicmdgw_fin ends it all.          *)
(*                                                                         *)
(* Commands come from application tasks and from the receive task itself,  *)
(* which reports a damaged frame to the modem with apicmdgw_errind.  Each  *)
(* step below runs under g_stateCondMtx, or touches one shared variable.   *)
(* The echo task of one initialization may still run in the next.          *)
(***************************************************************************)
EXTENDS Naturals, FiniteSets

CONSTANTS Senders,     (* the application's tasks                          *)
          RecvTask,    (* apicmdgw_recvtask                                *)
          RetryCnt,    (* ECHO_RETRYCNT                                    *)
          Bypass,      (* bypass_echo of apicmdgw_init                     *)
          MaxEpochs    (* bound: apicmdgw_init calls in a behaviour        *)

ASSUME GwStateAssumption ==
  /\ IsFiniteSet(Senders)
  /\ RecvTask \notin Senders
  /\ RetryCnt \in Nat \ {0} /\ MaxEpochs \in Nat \ {0}
  /\ Bypass \in BOOLEAN

Tasks == Senders \cup {RecvTask}
Epochs == 1..MaxEpochs

VARIABLES gw,        (* g_apicmdgwState                                    *)
          g_isinit,  (* g_isinit                                           *)
          abort,     (* HAL_ABORT_TERMINATE is set                         *)
          finAt,     (* where apicmdgw_fin is                              *)
          epoch,     (* how often apicmdgw_init has run                    *)
          place,     (* each task's place                                  *)
          timed,     (* the tasks whose command has a timeout              *)
          signalled, (* the sleepers on g_stateCond with a wake-up to take *)
          echo,      (* the place of each initialization's echo task       *)
          tries,     (* its retryCnt                                       *)
          echoed     (* the modem has answered an echo since apicmdgw_init *)

finVars == <<g_isinit, abort, finAt, epoch>>
taskVars == <<place, timed>>
echoVars == <<echo, tries, echoed>>
stateVars == <<gw, finVars, taskVars, signalled, echoVars>>

Sleepers == {t \in Tasks : place[t] = "wait"}
TaskGoto(t, p) == place' = [place EXCEPT ![t] = p]
EchoGoto(e, p) == echo' = [echo EXCEPT ![e] = p]

(* altcom_sys_broadcast_thread_cond *)
SetState(s) == gw' = s /\ signalled' = Sleepers

FirstState == IF Bypass THEN "COMPLETED" ELSE "INIT"

GwInit ==
  /\ gw = FirstState
  /\ g_isinit = TRUE /\ abort = FALSE /\ finAt = "off" /\ epoch = 1
  /\ place = [t \in Tasks |-> "idle"]
  /\ timed = {} /\ signalled = {}
  /\ echo = [e \in Epochs |-> "none"]
  /\ tries = [e \in Epochs |-> 0]
  /\ echoed = Bypass
-----------------------------------------------------------------------------
(* apicmdgw_send, by an application task. *)
Call(s, isTimed) ==
  /\ place[s] = "idle"
  /\ TaskGoto(s, "enter")
  /\ timed' = IF isTimed THEN timed \cup {s} ELSE timed \ {s}
  /\ UNCHANGED <<gw, finVars, signalled, echoVars>>

(* Case INIT: the echo task is created, and the call made again.  The      *)
(* state is set before, and stays when the creation fails: its result is   *)
(* only asserted, and DBGIF_ASSERT is empty.                               *)
EnterInit(t) ==
  /\ place[t] = "enter"
  /\ gw = "INIT"
  /\ gw' = "ECHO_TESTING"
  /\ \E p \in {"loop", "failed"} : EchoGoto(epoch, p)
  /\ UNCHANGED <<finVars, taskVars, signalled, tries, echoed>>

(* Case ECHO_TESTING: altcom_sys_thread_cond_timedwait.  Mutant: the call  *)
(* does not wait.                                                          *)
EnterTestingGoesOn(t) ==
  /\ place[t] = "enter" /\ gw = "ECHO_TESTING"
  /\ TaskGoto(t, "send")
  /\ UNCHANGED <<gw, finVars, timed, signalled, echoVars>>

EnterTesting(t) ==
  /\ place[t] = "enter"
  /\ gw = "ECHO_TESTING"
  /\ TaskGoto(t, "wait")
  /\ UNCHANGED <<gw, finVars, timed, signalled, echoVars>>

EnterCompleted(t) ==
  /\ place[t] = "enter"
  /\ gw = "COMPLETED"
  /\ TaskGoto(t, "send")
  /\ UNCHANGED <<gw, finVars, timed, signalled, echoVars>>

EnterFin(t) ==
  /\ place[t] = "enter"
  /\ gw = "FIN"
  /\ TaskGoto(t, "idle")
  /\ UNCHANGED <<gw, finVars, timed, signalled, echoVars>>

(* After the wait the call is made again, or gives up with -ETIMEDOUT. *)
WakeUp(t) ==
  /\ place[t] = "wait"
  /\ t \in signalled
  /\ signalled' = signalled \ {t}
  /\ TaskGoto(t, "enter")
  /\ UNCHANGED <<gw, finVars, timed, echoVars>>

GiveUp(t) ==
  /\ place[t] = "wait"
  /\ t \in timed \ signalled
  /\ TaskGoto(t, "idle")
  /\ UNCHANGED <<gw, finVars, timed, signalled, echoVars>>

(* __apicmdgw_send: refused when g_isinit is clear; else module BlockTbl. *)
Send(t) ==
  /\ place[t] = "send"
  /\ TaskGoto(t, "idle")
  /\ UNCHANGED <<gw, finVars, timed, signalled, echoVars>>
-----------------------------------------------------------------------------
(* The receive task reads a frame with a wrong checksum, version or length *)
(* and calls apicmdgw_errind, which takes a buffer and calls apicmdgw_send *)
(* with the timeout 0: less than a tick, so that the wait has no timeout.  *)
BadFrame ==
  /\ place[RecvTask] = "idle"
  /\ ~ abort
  /\ TaskGoto(RecvTask, "errind")
  /\ UNCHANGED <<gw, finVars, timed, signalled, echoVars>>

(* Without a buffer it writes through a null pointer, DBGIF_ASSERT being   *)
(* empty: the task is lost, or goes on.                                    *)
ErrInd ==
  /\ place[RecvTask] = "errind"
  /\ \/ g_isinit /\ TaskGoto(RecvTask, "enter")
     \/ ~ g_isinit /\ \E p \in {"gone", "enter"} : TaskGoto(RecvTask, p)
  /\ UNCHANGED <<gw, finVars, timed, signalled, echoVars>>

GwRecvEnd ==
  /\ place[RecvTask] = "idle"
  /\ abort
  /\ TaskGoto(RecvTask, "end")
  /\ UNCHANGED <<gw, finVars, timed, signalled, echoVars>>

(* The response to an echo reaches its task through the receive task. *)
EchoAnswer(e) ==
  /\ echo[e] = "asked"
  /\ place[RecvTask] = "idle"
  /\ g_isinit
  /\ EchoGoto(e, "answered")
  /\ echoed' = TRUE
  /\ UNCHANGED <<gw, finVars, taskVars, signalled, tries>>
-----------------------------------------------------------------------------
(* apicmdgw_echotask. *)
EchoLoop(e) ==
  /\ echo[e] = "loop"
  /\ tries' = [tries EXCEPT ![e] = @ + 1]
  /\ EchoGoto(e, IF tries[e] < RetryCnt THEN "ask" ELSE "over")
  /\ UNCHANGED <<gw, finVars, taskVars, signalled, echoed>>

(* apicmdgw_echo: the command is sent, or it has no buffer, is refused or  *)
(* finds the interface down.  While the buffer pool is empty the task      *)
(* waits here (module BuffPool); that this ends is the fairness of         *)
(* EchoStep.                                                               *)
EchoAsk(e) ==
  /\ echo[e] = "ask"
  /\ \/ g_isinit /\ EchoGoto(e, "asked")
     \/ EchoGoto(e, "sleep")
  /\ UNCHANGED <<gw, finVars, taskVars, signalled, tries, echoed>>

(* ECHO_TIMEOUT, or a release by apicmdgw_fin, or a wrong response. *)
EchoFails(e) ==
  /\ echo[e] = "asked"
  /\ EchoGoto(e, "sleep")
  /\ UNCHANGED <<gw, finVars, taskVars, signalled, tries, echoed>>

EchoSleep(e) ==
  /\ echo[e] = "sleep"
  /\ EchoGoto(e, "loop")
  /\ UNCHANGED <<gw, finVars, taskVars, signalled, tries, echoed>>

(* Mutant: the state is set without a broadcast. *)
EchoCompleteQuiet(e) ==
  /\ echo[e] = "answered"
  /\ gw' = "COMPLETED"
  /\ EchoGoto(e, "over")
  /\ UNCHANGED <<finVars, taskVars, signalled, tries, echoed>>

EchoComplete(e) ==
  /\ echo[e] = "answered"
  /\ SetState("COMPLETED")
  /\ EchoGoto(e, "over")
  /\ UNCHANGED <<finVars, taskVars, tries, echoed>>

(* retryCnt is compared again behind the loop, however the loop was left.  *)
(* Mutant: nobody gives up.                                                *)
ExceededNever(e) == FALSE
Exceeded(e) == RetryCnt <= tries[e]

EchoOver(e) ==
  /\ echo[e] = "over"
  /\ IF Exceeded(e) THEN SetState("FIN") ELSE UNCHANGED <<gw, signalled>>
  /\ EchoGoto(e, "dead")
  /\ UNCHANGED <<finVars, taskVars, tries, echoed>>
-----------------------------------------------------------------------------
(* apicmdgw_fin and, after it, apicmdgw_init. *)
GwFinBegin ==
  /\ finAt = "off" /\ g_isinit
  /\ finAt' = "abort"
  /\ g_isinit' = FALSE
  /\ UNCHANGED <<gw, abort, epoch, taskVars, signalled, echoVars>>

(* Mutant: the receive task is not told. *)
GwFinAbortLost ==
  /\ finAt = "abort" /\ finAt' = "state"
  /\ UNCHANGED <<gw, g_isinit, abort, epoch, taskVars, signalled, echoVars>>

GwFinAbort ==
  /\ finAt = "abort"
  /\ finAt' = "state"
  /\ abort' = TRUE
  /\ UNCHANGED <<gw, g_isinit, epoch, taskVars, signalled, echoVars>>

GwFinState ==
  /\ finAt = "state"
  /\ finAt' = "join"
  /\ SetState("FIN")
  /\ UNCHANGED <<g_isinit, abort, epoch, taskVars, echoVars>>

GwFinJoin ==
  /\ finAt = "join"
  /\ place[RecvTask] = "end"
  /\ finAt' = "done"
  /\ UNCHANGED <<gw, g_isinit, abort, epoch, taskVars, signalled, echoVars>>

GwReinit ==
  /\ finAt = "done"
  /\ epoch < MaxEpochs
  /\ finAt' = "off"
  /\ g_isinit' = TRUE
  /\ abort' = FALSE
  /\ epoch' = epoch + 1
  /\ gw' = FirstState
  /\ echoed' = Bypass
  /\ TaskGoto(RecvTask, "idle")
  /\ UNCHANGED <<timed, signalled, echo, tries>>
-----------------------------------------------------------------------------
SendStep(t) ==
  \/ EnterInit(t) \/ EnterTesting(t) \/ EnterCompleted(t) \/ EnterFin(t)
  \/ WakeUp(t) \/ GiveUp(t) \/ Send(t)

EchoStep(e) ==
  EchoLoop(e) \/ EchoAsk(e) \/ EchoFails(e) \/ EchoSleep(e)
    \/ EchoComplete(e) \/ EchoOver(e)

GwFinStep == GwFinAbort \/ GwFinState \/ GwFinJoin

GwNext ==
  \/ \E s \in Senders, isTimed \in BOOLEAN : Call(s, isTimed)
  \/ \E t \in Tasks : SendStep(t)
  \/ \E e \in Epochs : EchoStep(e) \/ EchoAnswer(e)
  \/ BadFrame \/ ErrInd \/ GwRecvEnd
  \/ GwFinBegin \/ GwFinStep \/ GwReinit

GwSpec == GwInit /\ [][GwNext]_stateVars

(* The scheduler runs every task that can run; nothing makes the modem     *)
(* answer, and damaged frames come or do not come.                         *)
GwFairSpec ==
  /\ GwSpec
  /\ \A t \in Tasks : WF_stateVars(SendStep(t))
  /\ \A e \in Epochs : WF_stateVars(EchoStep(e))
  /\ WF_stateVars(ErrInd) /\ WF_stateVars(GwRecvEnd) /\ WF_stateVars(GwFinStep)
-----------------------------------------------------------------------------
GwTypeOK ==
  /\ gw \in {"INIT", "ECHO_TESTING", "COMPLETED", "FIN"}
  /\ g_isinit \in BOOLEAN /\ abort \in BOOLEAN
  /\ finAt \in {"off", "abort", "state", "join", "done"}
  /\ epoch \in Epochs
  /\ place \in [Tasks -> {"idle", "enter", "wait", "send", "errind", "gone", "end"}]
  /\ timed \subseteq Senders
  /\ signalled \subseteq Sleepers
  /\ echo \in [Epochs -> {"none", "failed", "loop", "ask", "asked", "sleep",
                          "answered", "over", "dead"}]
  /\ tries \in [Epochs -> 0 .. RetryCnt + 1]
  /\ echoed \in BOOLEAN

(* Nobody sleeps on g_stateCond for nothing: who has no wake-up to take    *)
(* waits for an echo task that is still at work and will broadcast, and    *)
(* without one the echo task of this initialization could not be created.  *)
AtWork(e) == echo[e] \notin {"none", "failed", "dead"}
NoEchoTask == echo[epoch] = "failed"
NobodyStranded ==
  /\ GwTypeOK
  /\ \/ Sleepers \subseteq signalled
     \/ /\ gw = "ECHO_TESTING"
        /\ \/ NoEchoTask
           \/ \E e \in Epochs : AtWork(e) /\ (echo[e] = "over" => Exceeded(e))

(* The echo test decides.  An initialized gateway gives up, in state FIN,  *)
(* only after some echo task has used up all its tries; and "make the      *)
(* target cmd wait until echo replied" (apicmdgw.c:1287): in the first     *)
(* initialization a command is passed on only if the modem has answered    *)
(* an echo.  In a later one an echo task, or a command, left over from     *)
(* before can make it untrue.                                              *)
EchoDecides ==
  /\ g_isinit /\ gw = "FIN" => \E e \in Epochs : tries[e] >= RetryCnt
  /\ \A t \in Tasks : place[t] = "send" /\ g_isinit /\ epoch = 1 => echoed

(* The log line of apicmdgw.c:1061, "Echo retry count exceeded": while     *)
(* nobody finalizes, the state FIN means that no echo was answered.        *)
AnsweredEchoHolds == g_isinit /\ gw = "FIN" => ~ echoed

(* The same comment of 1287 supposes that the echo can be answered: the    *)
(* task that alone receives the response is not asleep until it comes.     *)
EchoCanBeAnswered ==
  gw = "ECHO_TESTING" /\ RecvTask \in Sleepers => RecvTask \in signalled

(* No command waits for ever, whatever the modem does.  The one exception  *)
(* has no timeout, the echo task could not be created, and nobody calls    *)
(* apicmdgw_fin.                                                           *)
SleeperLeaves ==
  \A t \in Tasks :
    \/ []<>(place[t] # "wait")
    \/ <>[](t \notin timed /\ NoEchoTask /\ finAt = "off")

(* apicmdgw_fin returns, unless the receive task was lost. *)
FinReturns == (finAt = "abort") ~> (finAt = "done" \/ place[RecvTask] = "gone")
=============================================================================
