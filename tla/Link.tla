-------------------------------- MODULE Link --------------------------------
(***************************************************************************)
(* The host interface (Hifc) together with the sleep of the MCU: the idle  *)
(* task takes the MCU to STOP (vPortSuppressTicksAndSleep with             *)
(* pwr_check_allow2sleep of pm/pwr_mngr.c) when no task is ready and the   *)
(* interface is down.                                                      *)
(***************************************************************************)
EXTENDS Hifc

VARIABLE cpu    \* "awake", "checked" (allowed to sleep, scheduler suspended) or "stop"

vars == <<hifcVars, cpu>>

LinkTypeOK == TypeOK /\ cpu \in {"awake", "checked", "stop"}

LinkInit == Init /\ cpu = "awake"

\* A task is ready to run: the idle task does not.
Ready == tpc # "idle" \/ posted \/ \E w \in Writers : writer[w] \in {"asks", "granted"}

\* The idle task, scheduler suspended: pwr_check_allow2sleep, interrupts still enabled.
IdleCheck ==
    /\ cpu = "awake" /\ ~Ready
    /\ ifState = "IfDown"
    /\ cpu' = "checked" /\ UNCHANGED hifcVars

\* Mutant: the idle task does not ask again.
IdleConfirmBlind ==
    /\ cpu = "checked" /\ cpu' = "stop" /\ UNCHANGED hifcVars

\* Interrupts disabled, eTaskConfirmSleepModeStatus: an interrupt may have made a
\* task ready since the check.
IdleConfirm ==
    /\ cpu = "checked"
    /\ cpu' = IF Ready THEN "awake" ELSE "stop"
    /\ UNCHANGED hifcVars

\* The mailbox interrupt, the only one not masked in STOP, also ends the sleep.
ModemIrq == M2hIsr /\ cpu' = IF cpu = "stop" THEN "awake" ELSE cpu

\* The time asked for, never more than PWR_DEF_MAX_DRUATION, is over.
WakeByTime ==
    /\ cpu = "stop"
    /\ cpu' = "awake" /\ UNCHANGED hifcVars

TaskStep(A) == cpu = "awake" /\ A /\ UNCHANGED cpu

LinkNext ==
    \/ ModemIrq \/ (cpu # "stop" /\ UartRx /\ UNCHANGED cpu)
    \/ TaskStep(TimerTask)
    \/ \E w \in Writers : TaskStep(Task(w))
    \/ Outside /\ UNCHANGED cpu
    \/ IdleCheck \/ IdleConfirm \/ WakeByTime

LinkSpec == LinkInit /\ [][LinkNext]_vars

\* What the hardware and the scheduler give: an enabled interrupt is taken, a task
\* that is ready runs, a delay ends although the MCU may sleep again and again, a
\* writer that asks again and again finds the interface up at some time it is up.
\* The modem answers, if it is given the time to before the protocol timer, which
\* may overtake it MaxOvertakes times.
Fairness ==
    /\ WF_vars(M2hPending /\ ModemIrq)
    /\ WF_vars(TaskStep(TimerTask)) /\ WF_vars(TaskStep(ProtoExpire))
    /\ \A w \in Writers :
        /\ WF_vars(TaskStep(Resumes(w) \/ Refused(w) \/ Send(w)))
        /\ SF_vars(TaskStep(AskAgain(w))) /\ SF_vars(TaskStep(Granted(w)))
    /\ WF_vars(FifoDrains /\ UNCHANGED cpu)
    /\ WF_vars(ModemLowers /\ UNCHANGED cpu)
    /\ SF_vars((ModemAnswers \/ ModemIsServed) /\ UNCHANGED cpu)
    /\ WF_vars(IdleConfirm) /\ WF_vars(WakeByTime)

FairSpec == LinkSpec /\ Fairness

-----------------------------------------------------------------------------
(* Properties                                                              *)

(* "m2h interrupt is on during IfDown" (hifc_api.c:380): while the         *)
(* interface is down a call of the modem raises an interrupt, and so it    *)
(* does while the MCU is in STOP, where nothing else but the time would    *)
(* end the sleep and no task may be waiting to run (pwr_mngr.c:313-347).   *)
(* Excepted is a machine in error, which the modem's call after a failed   *)
(* resume makes of hifc_fsm_timeout; one whose suspend took the resume     *)
(* that followed it for its own end (hifc_api.c:304-312, misread): there   *)
(* the interrupt may have come too early; and one that an interrupt or a   *)
(* writer moved in the middle of a timer callback.                         *)
SleepIsWakeable ==
    /\ cpu = "stop" => ifState = "IfDown" /\ ~Ready
    /\ ifState = "IfDown" /\ ~torn /\ ~misread /\ fsm # "error" => irqOn /\ irqMode = "NOT_ZERO"

(* Between two callbacks the line that the modem sees agrees with the      *)
(* state: h2m is up exactly while the interface is up or coming up         *)
(* (hifc_api.c:135-176, 178-370), unless the machine was moved in the      *)
(* middle of a callback.  After a suspend that took a resume for its own   *)
(* end (misread) both lines say up, and the interface is down.             *)
LinesAgree ==
    /\ LinkTypeOK
    /\ tpc = "idle" /\ ~torn /\ ~misread /\ ~M2hPending
         => (h2m = 1 <=> ifState \in {"IfUp", "IfResuming"})
    /\ misread /\ ~torn => h2m = 1 /\ m2h = 1

(* An interface that is up will be taken down again: its inactivity timer  *)
(* runs whenever the timer task is idle, whoever brought the interface up, *)
(* and the unsigned count of periods is never decremented from zero        *)
(* (hifc_api.c:118-133, 609-621).                                          *)
UpIsWatched ==
    /\ ifState = "IfUp" /\ tpc = "idle" => inact
    /\ inact \/ tpc = "inact" => section > 0

(* A writer that was told to send finds the interface up until it has      *)
(* sent, for the inactivity time: "to avoid triggering HIFC suspend"       *)
(* (hifc_api.c:637-638), unless the grant fell into a timer callback.      *)
GrantHolds ==
    \A w \in Writers :
      writer[w] = "granted" /\ ~torn /\ quiet < Sections => ifState = "IfUp"

(* A writer that asks to send is granted it, over failed suspends and      *)
(* resumes and sleeps of the MCU (serial.c:846-858), unless the machine    *)
(* was moved in the middle of a timer callback.                            *)
WriterServed ==
    \A w \in Writers : writer[w] = "asks" ~> (writer[w] = "granted" \/ torn)

(* A modem that calls has the interface brought up, awake or asleep        *)
(* (hifc_api.c:405-418, 318-374), with the exceptions of SleepIsWakeable.  *)
ModemServed == modem = "calling" ~> (modem = "up" \/ torn \/ fsm = "error")
=============================================================================
