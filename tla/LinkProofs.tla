------------------------------ MODULE LinkProofs ------------------------------
(***************************************************************************)
(* The host interface can always be woken, shows the modem the state it is *)
(* in, is watched by its inactivity timer while it is up, and stays up for *)
(* the writer that was told to send: for every set of writers and every    *)
(* inactivity time, as long as no interrupt or writer moves the machine in *)
(* the middle of a timer callback (torn).                                  *)
(*                                                                         *)
(* The argument has two layers.  Control says in which combinations of the *)
(* machine, the interrupt, the line and the timer task the interface can   *)
(* be; it does not depend on the inactivity time.  Counting relates the    *)
(* periods the timer has still to count to those without traffic.          *)
(***************************************************************************)
EXTENDS Link, TLAPS

Flags ==
  /\ traffic \in BOOLEAN /\ proto \in BOOLEAN /\ inact \in BOOLEAN /\ posted \in BOOLEAN
  /\ irqOn \in BOOLEAN /\ latched \in BOOLEAN /\ fifo \in BOOLEAN
  /\ torn \in BOOLEAN /\ misread \in BOOLEAN

Names ==
  /\ ifState \in IfStates /\ fsm \in Fsm /\ tpc \in TimerPc
  /\ h2m \in {0, 1} /\ m2h \in {0, 1} /\ irqMode \in {"NOT_ZERO", "DEC"}
  /\ modem \in {"down", "calling", "up"} /\ cpu \in {"awake", "checked", "stop"}
  /\ writer \in [Writers -> {"idle", "asks", "delays", "granted"}]
  /\ overtakes \in 0..MaxOvertakes

Kinds == Flags /\ Names

\* The modem's counter is its state; a decrement is only seen in mode DEC.
Modem == m2h = 1 <=> modem # "down"
Latch == ~torn /\ latched => irqOn /\ irqMode = "DEC"

\* Where the timer task is while it leaves the machine alone.
Apart == {"idle", "inact", "suspend", "trail"}

\* The combinations of a machine that was not torn, for each state of the interface.
Down ==
  /\ tpc \in Apart /\ ~proto /\ irqMode = "NOT_ZERO"
  /\ fsm \in {"config", "timeout", "error"}
  /\ ~misread => h2m = 0 /\ (irqOn <=> fsm # "error")
  /\ misread => h2m = 1 /\ m2h = 1 /\ fsm = "config"

Resuming ==
  /\ ~misread /\ irqOn /\ irqMode = "NOT_ZERO"
  /\ \/ tpc \in Apart /\ fsm = "approve" /\ h2m = 1 /\ proto
     \/ tpc = "proto" /\ fsm = "approve" /\ h2m = 1 /\ ~proto
     \/ tpc = "branch" /\ fsm = "timeout" /\ h2m = 1 /\ ~proto
     \/ tpc \in {"listen", "down"} /\ fsm = "timeout" /\ h2m = 0 /\ ~proto

\* The interrupt of the last resume is off until the suspend enables it anew.
Unarmed == irqMode = "DEC" \/ ~irqOn

Suspending ==
  /\ ~misread
  /\ \/ tpc = "config" /\ fsm = "init" /\ h2m = 1 /\ ~proto /\ Unarmed
     \/ tpc = "lower" /\ fsm = "config" /\ h2m = 1 /\ ~proto /\ irqMode = "DEC"
     \/ tpc \in Apart /\ fsm = "config" /\ h2m = 0 /\ proto /\ irqMode = "DEC"
     \/ tpc = "proto" /\ fsm = "config" /\ h2m = 0 /\ ~proto /\ irqMode = "DEC"
     \/ tpc = "branch" /\ fsm = "timeout" /\ h2m = 0 /\ ~proto /\ irqMode = "DEC"
     \/ tpc = "up" /\ fsm = "timeout" /\ h2m = 1 /\ ~proto /\ irqMode = "DEC"

Up ==
  /\ h2m = 1 /\ ~proto /\ (misread => tpc = "falling")
  /\ \/ /\ tpc \in Apart /\ fsm = "complete" /\ m2h = 1
        /\ ~irqOn /\ irqMode = "NOT_ZERO"
     \/ tpc = "suspend" /\ fsm = "timeout" /\ irqMode = "DEC"
     \/ /\ tpc = "falling" /\ fsm = "config" /\ m2h = 1
        /\ irqMode = "NOT_ZERO" /\ misread
     \/ tpc = "suspending" /\ fsm = "init" /\ Unarmed

Phases ==
  ~torn =>
    /\ ifState = "IfDown" => Down
    /\ ifState = "IfResuming" => Resuming
    /\ ifState = "IfSuspending" => Suspending
    /\ ifState = "IfUp" => Up

\* The idle task found nothing ready and the interface down; an interrupt since then
\* has either left it down or posted a command to the timer task.
Sleeps ==
  /\ cpu \in {"checked", "stop"} /\ ~Ready => ifState = "IfDown"
  /\ cpu = "stop" => ~Ready

\* Where the timer task passes through or returns with the interface up.
Watched ==
  ifState = "IfUp" /\ tpc \in {"idle", "proto", "branch", "config", "lower", "trail"} => inact

Control == Kinds /\ Modem /\ Latch /\ Phases /\ Sleeps /\ Watched

\* At two periods or more: the count never reaches zero while the timer runs, and an
\* interrupt that starts the timer under its own callback leaves more than one.
Periods ==
  /\ section \in 0..Sections /\ quiet \in 0..(Sections + 1)
  /\ inact \/ tpc = "inact" => section > 0
  /\ inact /\ tpc = "inact" => section > 1

\* Since the last grant the timer has noted the traffic of it, or counted from it.
Held ==
  /\ ifState = "IfUp" /\ tpc \in {"idle", "inact"}
  /\ traffic \/ section + quiet > Sections

Grants ==
  \A w \in Writers : writer[w] = "granted" /\ ~torn /\ quiet < Sections => Held

IInv == Control /\ Periods /\ Grants

-----------------------------------------------------------------------------
(* The variables keep their kinds, and the modem's counter is its state. *)
LEMMA KindsKept ==
  ASSUME Kinds, Modem, [LinkNext]_vars
  PROVE  Kinds' /\ Modem'
<1> USE HifcAssumption DEF Kinds, Flags, Names, Modem, IfStates, Fsm, TimerPc, hifcVars,
   machine, timers, line, irq, others, history
<1>1. CASE ModemIrq
  <2>1. Flags'
    BY <1>1 DEF ModemIrq, M2hIsr, M2hPending, SuspendSm, ResumeSm, ModemResumeSm, ModemNotUp, ComeUp,
       RestartInactivity, SetH2m, M2hInit
  <2>2. Names'
    BY <1>1 DEF ModemIrq, M2hIsr, M2hPending, SuspendSm, ResumeSm, ModemResumeSm, ModemNotUp, ComeUp,
       RestartInactivity, SetH2m, M2hInit
  <2>3. Modem'
    BY <1>1 DEF ModemIrq, M2hIsr, M2hPending, SuspendSm, ResumeSm, ModemResumeSm, ModemNotUp, ComeUp,
       RestartInactivity, SetH2m, M2hInit
  <2> QED BY <2>1, <2>2, <2>3
<1>2. CASE UartRx /\ cpu # "stop" /\ UNCHANGED cpu
  BY <1>2 DEF UartRx
<1>3. CASE TaskStep(TimerTask)
  <2>1. CASE TaskStep(TimerCommands)
    <3>1. Flags'
      BY <2>1 DEF TaskStep, TimerCommands
    <3>2. Names'
      BY <2>1 DEF TaskStep, TimerCommands
    <3>3. Modem'
      BY <2>1 DEF TaskStep, TimerCommands
    <3> QED BY <3>1, <3>2, <3>3
  <2>2. CASE TaskStep(ProtoExpire)
    <3>1. Flags'
      BY <2>2 DEF TaskStep, ProtoExpire, ModemOwes, M2hPending
    <3>2. Names'
      BY <2>2 DEF TaskStep, ProtoExpire, ModemOwes, M2hPending
    <3>3. Modem'
      BY <2>2 DEF TaskStep, ProtoExpire, ModemOwes, M2hPending
    <3> QED BY <3>1, <3>2, <3>3
  <2>3. CASE TaskStep(ProtoFsm)
    BY <2>3 DEF TaskStep, ProtoFsm
  <2>4. CASE TaskStep(ProtoBranch)
    BY <2>4 DEF TaskStep, ProtoBranch, SetH2m
  <2>5. CASE TaskStep(ProtoUp)
    BY <2>5 DEF TaskStep, ProtoUp
  <2>6. CASE TaskStep(ProtoListen)
    BY <2>6 DEF TaskStep, ProtoListen, M2hInit
  <2>7. CASE TaskStep(ProtoDown)
    BY <2>7 DEF TaskStep, ProtoDown
  <2>8. CASE TaskStep(InactExpire)
    <3>1. Flags'
      BY <2>8 DEF TaskStep, InactExpire
    <3>2. Names'
      BY <2>8 DEF TaskStep, InactExpire
    <3>3. Modem'
      BY <2>8 DEF TaskStep, InactExpire
    <3> QED BY <3>1, <3>2, <3>3
  <2>9. CASE TaskStep(InactCallback)
    <3>1. Flags'
      BY <2>9 DEF TaskStep, InactCallback
    <3>2. Names'
      BY <2>9 DEF TaskStep, InactCallback
    <3>3. Modem'
      BY <2>9 DEF TaskStep, InactCallback
    <3> QED BY <3>1, <3>2, <3>3
  <2>10. CASE TaskStep(HostSuspend)
    BY <2>10 DEF TaskStep, HostSuspend
  <2>11. CASE TaskStep(SetSuspending)
    BY <2>11 DEF TaskStep, SetSuspending
  <2>12. CASE TaskStep(AwaitDecrement)
    BY <2>12 DEF TaskStep, AwaitDecrement, M2hInit
  <2>13. CASE TaskStep(LowerH2m)
    BY <2>13 DEF TaskStep, LowerH2m, SetH2m
  <2>14. CASE TaskStep(SuspendTrail)
    <3>1. Flags'
      BY <2>14 DEF TaskStep, SuspendTrail, M2hInit
    <3>2. Names'
      BY <2>14 DEF TaskStep, SuspendTrail, M2hInit
    <3>3. Modem'
      BY <2>14 DEF TaskStep, SuspendTrail, M2hInit
    <3> QED BY <3>1, <3>2, <3>3
  <2>15. CASE TaskStep(SuspendFalls)
    <3>1. Flags'
      BY <2>15 DEF TaskStep, SuspendFalls
    <3>2. Names'
      BY <2>15 DEF TaskStep, SuspendFalls
    <3>3. Modem'
      BY <2>15 DEF TaskStep, SuspendFalls
    <3> QED BY <3>1, <3>2, <3>3
  <2> QED BY <1>3, <2>1, <2>2, <2>3, <2>4, <2>5, <2>6, <2>7, <2>8, <2>9, <2>10, <2>11,
     <2>12, <2>13, <2>14, <2>15 DEF TaskStep, TimerTask
<1>4. ASSUME NEW w \in Writers, TaskStep(Task(w))
      PROVE  Kinds' /\ Modem'
  <2>1. CASE TaskStep(Write(w))
    BY <2>1 DEF TaskStep, Write
  <2>2. CASE TaskStep(Granted(w))
    BY <2>2 DEF TaskStep, Granted
  <2>3. CASE TaskStep(Resumes(w))
    <3>1. Flags'
      BY <2>3 DEF TaskStep, Resumes, SetH2m, M2hInit
    <3>2. Names'
      BY <2>3 DEF TaskStep, Resumes, SetH2m, M2hInit
    <3>3. Modem'
      BY <2>3 DEF TaskStep, Resumes, SetH2m, M2hInit
    <3> QED BY <3>1, <3>2, <3>3
  <2>4. CASE TaskStep(Refused(w))
    BY <2>4 DEF TaskStep, Refused
  <2>5. CASE TaskStep(AskAgain(w))
    BY <2>5 DEF TaskStep, AskAgain
  <2>6. CASE TaskStep(Send(w))
    BY <2>6 DEF TaskStep, Send
  <2> QED BY <1>4, <2>1, <2>2, <2>3, <2>4, <2>5, <2>6 DEF TaskStep, Task
<1>5. CASE Outside /\ UNCHANGED cpu
  <2>1. CASE FifoDrains /\ UNCHANGED cpu
    <3>1. Flags'
      BY <2>1 DEF FifoDrains
    <3>2. Names'
      BY <2>1 DEF FifoDrains
    <3>3. Modem'
      BY <2>1 DEF FifoDrains
    <3> QED BY <3>1, <3>2, <3>3
  <2>2. CASE ModemAnswers /\ UNCHANGED cpu
    BY <2>2 DEF ModemAnswers
  <2>3. CASE ModemCalls /\ UNCHANGED cpu
    BY <2>3 DEF ModemCalls
  <2>4. CASE ModemIsServed /\ UNCHANGED cpu
    BY <2>4 DEF ModemIsServed
  <2>5. CASE ModemLowers /\ UNCHANGED cpu
    BY <2>5 DEF ModemLowers
  <2> QED BY <1>5, <2>1, <2>2, <2>3, <2>4, <2>5 DEF Outside
<1>6. CASE IdleCheck
  BY <1>6 DEF IdleCheck
<1>7. CASE IdleConfirm
  BY <1>7 DEF IdleConfirm
<1>8. CASE WakeByTime
  BY <1>8 DEF WakeByTime
<1>9. CASE UNCHANGED vars
  BY <1>9 DEF vars
<1> QED BY <1>1, <1>2, <1>3, <1>4, <1>5, <1>6, <1>7, <1>8, <1>9 DEF LinkNext

(* A step leads from one of the combinations to another, or tears the machine. *)
LEMMA PhasesKept ==
  ASSUME Kinds, Modem, Latch, Phases, Kinds', Modem', [LinkNext]_vars
  PROVE  Latch' /\ Phases'
<1> USE DEF Kinds, Flags, Names, Modem, Latch, Phases, Down, Resuming, Suspending, Up,
   Apart, Unarmed, Callback, IfStates, Fsm, TimerPc, hifcVars, machine, timers, line, irq,
   others, history
<1>1. CASE ModemIrq
  BY <1>1 DEF ModemIrq, M2hIsr, M2hPending, SuspendSm, ResumeSm, ModemResumeSm, ModemNotUp, ComeUp,
     RestartInactivity, SetH2m, M2hInit
<1>2. CASE UartRx /\ cpu # "stop" /\ UNCHANGED cpu
  BY <1>2 DEF UartRx
<1>3. CASE TaskStep(TimerTask)
  <2>1. CASE TaskStep(TimerCommands)
    BY <2>1 DEF TaskStep, TimerCommands
  <2>2. CASE TaskStep(ProtoExpire)
    BY <2>2 DEF TaskStep, ProtoExpire, ModemOwes, M2hPending
  <2>3. CASE TaskStep(ProtoFsm)
    BY <2>3 DEF TaskStep, ProtoFsm
  <2>4. CASE TaskStep(ProtoBranch)
    BY <2>4 DEF TaskStep, ProtoBranch, SetH2m
  <2>5. CASE TaskStep(ProtoUp)
    BY <2>5 DEF TaskStep, ProtoUp
  <2>6. CASE TaskStep(ProtoListen)
    BY <2>6 DEF TaskStep, ProtoListen, M2hInit
  <2>7. CASE TaskStep(ProtoDown)
    BY <2>7 DEF TaskStep, ProtoDown
  <2>8. CASE TaskStep(InactExpire)
    <3>1. tpc = "idle" /\ tpc' = "inact" /\ UNCHANGED <<machine, proto, line, irq, modem, torn, misread>>
      BY <2>8 DEF TaskStep, InactExpire
    <3>2. Latch'
      BY <3>1
    <3>3. /\ Down => Down'
          /\ Resuming => Resuming'
          /\ Suspending => Suspending'
          /\ Up => Up'
          /\ ifState = ifState' /\ torn = torn'
      BY <3>1
    <3> QED BY <3>2, <3>3
  <2>9. CASE TaskStep(InactCallback)
    BY <2>9 DEF TaskStep, InactCallback
  <2>10. CASE TaskStep(HostSuspend)
    BY <2>10 DEF TaskStep, HostSuspend
  <2>11. CASE TaskStep(SetSuspending)
    BY <2>11 DEF TaskStep, SetSuspending
  <2>12. CASE TaskStep(AwaitDecrement)
    BY <2>12 DEF TaskStep, AwaitDecrement, M2hInit
  <2>13. CASE TaskStep(LowerH2m)
    BY <2>13 DEF TaskStep, LowerH2m, SetH2m
  <2>14. CASE TaskStep(SuspendTrail)
    BY <2>14 DEF TaskStep, SuspendTrail, M2hInit
  <2>15. CASE TaskStep(SuspendFalls)
    BY <2>15 DEF TaskStep, SuspendFalls
  <2> QED BY <1>3, <2>1, <2>2, <2>3, <2>4, <2>5, <2>6, <2>7, <2>8, <2>9, <2>10, <2>11,
     <2>12, <2>13, <2>14, <2>15 DEF TaskStep, TimerTask
<1>4. ASSUME NEW w \in Writers, TaskStep(Task(w))
      PROVE  Latch' /\ Phases'
  <2>1. CASE TaskStep(Write(w))
    BY <2>1 DEF TaskStep, Write
  <2>2. CASE TaskStep(Granted(w))
    BY <2>2 DEF TaskStep, Granted
  <2>3. CASE TaskStep(Resumes(w))
    BY <2>3 DEF TaskStep, Resumes, SetH2m, M2hInit
  <2>4. CASE TaskStep(Refused(w))
    BY <2>4 DEF TaskStep, Refused
  <2>5. CASE TaskStep(AskAgain(w))
    BY <2>5 DEF TaskStep, AskAgain
  <2>6. CASE TaskStep(Send(w))
    BY <2>6 DEF TaskStep, Send
  <2> QED BY <1>4, <2>1, <2>2, <2>3, <2>4, <2>5, <2>6 DEF TaskStep, Task
<1>5. CASE Outside /\ UNCHANGED cpu
  <2>1. CASE FifoDrains /\ UNCHANGED cpu
    BY <2>1 DEF FifoDrains
  <2>2. CASE ModemAnswers /\ UNCHANGED cpu
    BY <2>2 DEF ModemAnswers
  <2>3. CASE ModemCalls /\ UNCHANGED cpu
    BY <2>3 DEF ModemCalls
  <2>4. CASE ModemIsServed /\ UNCHANGED cpu
    BY <2>4 DEF ModemIsServed
  <2>5. CASE ModemLowers /\ UNCHANGED cpu
    BY <2>5 DEF ModemLowers
  <2> QED BY <1>5, <2>1, <2>2, <2>3, <2>4, <2>5 DEF Outside
<1>6. CASE IdleCheck
  BY <1>6 DEF IdleCheck
<1>7. CASE IdleConfirm
  BY <1>7 DEF IdleConfirm
<1>8. CASE WakeByTime
  BY <1>8 DEF WakeByTime
<1>9. CASE UNCHANGED vars
  BY <1>9 DEF vars
<1> QED BY <1>1, <1>2, <1>3, <1>4, <1>5, <1>6, <1>7, <1>8, <1>9 DEF LinkNext

(* What may put the MCU to sleep holds until it is awake again. *)
LEMMA SleepsKept ==
  ASSUME Kinds, Sleeps, Kinds', [LinkNext]_vars
  PROVE  Sleeps'
<1> USE DEF Kinds, Flags, Names, Sleeps, Ready, IfStates, TimerPc, hifcVars, machine,
   timers, line, irq, others, history
<1>1. CASE ModemIrq
  BY <1>1 DEF ModemIrq, M2hIsr, M2hPending, SuspendSm, ResumeSm, ModemResumeSm, ModemNotUp, ComeUp,
     RestartInactivity, SetH2m, M2hInit
<1>2. CASE UartRx /\ cpu # "stop" /\ UNCHANGED cpu
  BY <1>2 DEF UartRx
<1>3. CASE TaskStep(TimerTask)
  <2>1. CASE TaskStep(TimerCommands)
    BY <2>1 DEF TaskStep, TimerCommands
  <2>2. CASE TaskStep(ProtoExpire)
    BY <2>2 DEF TaskStep, ProtoExpire, ModemOwes, M2hPending
  <2>3. CASE TaskStep(ProtoFsm)
    BY <2>3 DEF TaskStep, ProtoFsm
  <2>4. CASE TaskStep(ProtoBranch)
    BY <2>4 DEF TaskStep, ProtoBranch, SetH2m
  <2>5. CASE TaskStep(ProtoUp)
    BY <2>5 DEF TaskStep, ProtoUp
  <2>6. CASE TaskStep(ProtoListen)
    BY <2>6 DEF TaskStep, ProtoListen, M2hInit
  <2>7. CASE TaskStep(ProtoDown)
    BY <2>7 DEF TaskStep, ProtoDown
  <2>8. CASE TaskStep(InactExpire)
    BY <2>8 DEF TaskStep, InactExpire
  <2>9. CASE TaskStep(InactCallback)
    BY <2>9 DEF TaskStep, InactCallback
  <2>10. CASE TaskStep(HostSuspend)
    BY <2>10 DEF TaskStep, HostSuspend
  <2>11. CASE TaskStep(SetSuspending)
    BY <2>11 DEF TaskStep, SetSuspending
  <2>12. CASE TaskStep(AwaitDecrement)
    BY <2>12 DEF TaskStep, AwaitDecrement, M2hInit
  <2>13. CASE TaskStep(LowerH2m)
    BY <2>13 DEF TaskStep, LowerH2m, SetH2m
  <2>14. CASE TaskStep(SuspendTrail)
    BY <2>14 DEF TaskStep, SuspendTrail, M2hInit
  <2>15. CASE TaskStep(SuspendFalls)
    BY <2>15 DEF TaskStep, SuspendFalls
  <2> QED BY <1>3, <2>1, <2>2, <2>3, <2>4, <2>5, <2>6, <2>7, <2>8, <2>9, <2>10, <2>11,
     <2>12, <2>13, <2>14, <2>15 DEF TaskStep, TimerTask
<1>4. ASSUME NEW w \in Writers, TaskStep(Task(w))
      PROVE  Sleeps'
  <2>1. CASE TaskStep(Write(w))
    BY <2>1 DEF TaskStep, Write
  <2>2. CASE TaskStep(Granted(w))
    BY <2>2 DEF TaskStep, Granted
  <2>3. CASE TaskStep(Resumes(w))
    BY <2>3 DEF TaskStep, Resumes, SetH2m, M2hInit
  <2>4. CASE TaskStep(Refused(w))
    BY <2>4 DEF TaskStep, Refused
  <2>5. CASE TaskStep(AskAgain(w))
    BY <2>5 DEF TaskStep, AskAgain
  <2>6. CASE TaskStep(Send(w))
    BY <2>6 DEF TaskStep, Send
  <2> QED BY <1>4, <2>1, <2>2, <2>3, <2>4, <2>5, <2>6 DEF TaskStep, Task
<1>5. CASE Outside /\ UNCHANGED cpu
  <2>1. CASE FifoDrains /\ UNCHANGED cpu
    BY <2>1 DEF FifoDrains
  <2>2. CASE ModemAnswers /\ UNCHANGED cpu
    BY <2>2 DEF ModemAnswers
  <2>3. CASE ModemCalls /\ UNCHANGED cpu
    BY <2>3 DEF ModemCalls
  <2>4. CASE ModemIsServed /\ UNCHANGED cpu
    BY <2>4 DEF ModemIsServed
  <2>5. CASE ModemLowers /\ UNCHANGED cpu
    BY <2>5 DEF ModemLowers
  <2> QED BY <1>5, <2>1, <2>2, <2>3, <2>4, <2>5 DEF Outside
<1>6. CASE IdleCheck
  BY <1>6 DEF IdleCheck
<1>7. CASE IdleConfirm
  BY <1>7 DEF IdleConfirm
<1>8. CASE WakeByTime
  BY <1>8 DEF WakeByTime
<1>9. CASE UNCHANGED vars
  BY <1>9 DEF vars
<1> QED BY <1>1, <1>2, <1>3, <1>4, <1>5, <1>6, <1>7, <1>8, <1>9 DEF LinkNext

(* Whoever brings the interface up starts its inactivity timer. *)
LEMMA WatchedKept ==
  ASSUME Kinds, Watched, Kinds', [LinkNext]_vars
  PROVE  Watched'
<1> USE DEF Kinds, Flags, Names, Watched, IfStates, TimerPc, hifcVars, machine, timers,
   line, irq, others, history
<1>1. CASE ModemIrq
  BY <1>1 DEF ModemIrq, M2hIsr, M2hPending, SuspendSm, ResumeSm, ModemResumeSm, ModemNotUp, ComeUp,
     RestartInactivity, SetH2m, M2hInit
<1>2. CASE UartRx /\ cpu # "stop" /\ UNCHANGED cpu
  BY <1>2 DEF UartRx
<1>3. CASE TaskStep(TimerTask)
  <2>1. CASE TaskStep(TimerCommands)
    BY <2>1 DEF TaskStep, TimerCommands
  <2>2. CASE TaskStep(ProtoExpire)
    BY <2>2 DEF TaskStep, ProtoExpire, ModemOwes, M2hPending
  <2>3. CASE TaskStep(ProtoFsm)
    BY <2>3 DEF TaskStep, ProtoFsm
  <2>4. CASE TaskStep(ProtoBranch)
    BY <2>4 DEF TaskStep, ProtoBranch, SetH2m
  <2>5. CASE TaskStep(ProtoUp)
    BY <2>5 DEF TaskStep, ProtoUp
  <2>6. CASE TaskStep(ProtoListen)
    BY <2>6 DEF TaskStep, ProtoListen, M2hInit
  <2>7. CASE TaskStep(ProtoDown)
    BY <2>7 DEF TaskStep, ProtoDown
  <2>8. CASE TaskStep(InactExpire)
    BY <2>8 DEF TaskStep, InactExpire
  <2>9. CASE TaskStep(InactCallback)
    BY <2>9 DEF TaskStep, InactCallback
  <2>10. CASE TaskStep(HostSuspend)
    BY <2>10 DEF TaskStep, HostSuspend
  <2>11. CASE TaskStep(SetSuspending)
    BY <2>11 DEF TaskStep, SetSuspending
  <2>12. CASE TaskStep(AwaitDecrement)
    BY <2>12 DEF TaskStep, AwaitDecrement, M2hInit
  <2>13. CASE TaskStep(LowerH2m)
    BY <2>13 DEF TaskStep, LowerH2m, SetH2m
  <2>14. CASE TaskStep(SuspendTrail)
    BY <2>14 DEF TaskStep, SuspendTrail, M2hInit
  <2>15. CASE TaskStep(SuspendFalls)
    BY <2>15 DEF TaskStep, SuspendFalls
  <2> QED BY <1>3, <2>1, <2>2, <2>3, <2>4, <2>5, <2>6, <2>7, <2>8, <2>9, <2>10, <2>11,
     <2>12, <2>13, <2>14, <2>15 DEF TaskStep, TimerTask
<1>4. ASSUME NEW w \in Writers, TaskStep(Task(w))
      PROVE  Watched'
  <2>1. CASE TaskStep(Write(w))
    BY <2>1 DEF TaskStep, Write
  <2>2. CASE TaskStep(Granted(w))
    BY <2>2 DEF TaskStep, Granted
  <2>3. CASE TaskStep(Resumes(w))
    BY <2>3 DEF TaskStep, Resumes, SetH2m, M2hInit
  <2>4. CASE TaskStep(Refused(w))
    BY <2>4 DEF TaskStep, Refused
  <2>5. CASE TaskStep(AskAgain(w))
    BY <2>5 DEF TaskStep, AskAgain
  <2>6. CASE TaskStep(Send(w))
    BY <2>6 DEF TaskStep, Send
  <2> QED BY <1>4, <2>1, <2>2, <2>3, <2>4, <2>5, <2>6 DEF TaskStep, Task
<1>5. CASE Outside /\ UNCHANGED cpu
  <2>1. CASE FifoDrains /\ UNCHANGED cpu
    BY <2>1 DEF FifoDrains
  <2>2. CASE ModemAnswers /\ UNCHANGED cpu
    BY <2>2 DEF ModemAnswers
  <2>3. CASE ModemCalls /\ UNCHANGED cpu
    BY <2>3 DEF ModemCalls
  <2>4. CASE ModemIsServed /\ UNCHANGED cpu
    BY <2>4 DEF ModemIsServed
  <2>5. CASE ModemLowers /\ UNCHANGED cpu
    BY <2>5 DEF ModemLowers
  <2> QED BY <1>5, <2>1, <2>2, <2>3, <2>4, <2>5 DEF Outside
<1>6. CASE IdleCheck
  BY <1>6 DEF IdleCheck
<1>7. CASE IdleConfirm
  BY <1>7 DEF IdleConfirm
<1>8. CASE WakeByTime
  BY <1>8 DEF WakeByTime
<1>9. CASE UNCHANGED vars
  BY <1>9 DEF vars
<1> QED BY <1>1, <1>2, <1>3, <1>4, <1>5, <1>6, <1>7, <1>8, <1>9 DEF LinkNext

(* The periods are counted down to a suspend and never below. *)
LEMMA PeriodsKept ==
  ASSUME Sections > 1, Kinds, Periods, [LinkNext]_vars
  PROVE  Periods'
<1> USE HifcAssumption DEF Periods, hifcVars, machine, timers, line, irq, others, history
<1>1. CASE ModemIrq
  BY <1>1 DEF ModemIrq, M2hIsr, M2hPending, SuspendSm, ResumeSm, ModemResumeSm, ModemNotUp, ComeUp,
     RestartInactivity, SetH2m, M2hInit
<1>2. CASE UartRx /\ cpu # "stop" /\ UNCHANGED cpu
  BY <1>2 DEF UartRx
<1>3. CASE TaskStep(TimerTask)
  <2>1. CASE TaskStep(TimerCommands)
    BY <2>1 DEF TaskStep, TimerCommands
  <2>2. CASE TaskStep(ProtoExpire)
    BY <2>2 DEF TaskStep, ProtoExpire, ModemOwes, M2hPending
  <2>3. CASE TaskStep(ProtoFsm)
    BY <2>3 DEF TaskStep, ProtoFsm
  <2>4. CASE TaskStep(ProtoBranch)
    BY <2>4 DEF TaskStep, ProtoBranch, SetH2m
  <2>5. CASE TaskStep(ProtoUp)
    BY <2>5 DEF TaskStep, ProtoUp
  <2>6. CASE TaskStep(ProtoListen)
    BY <2>6 DEF TaskStep, ProtoListen, M2hInit
  <2>7. CASE TaskStep(ProtoDown)
    BY <2>7 DEF TaskStep, ProtoDown
  <2>8. CASE TaskStep(InactExpire)
    BY <2>8 DEF TaskStep, InactExpire
  <2>9. CASE TaskStep(InactCallback)
    <3>1. section \in 1..Sections /\ quiet \in 0..(Sections + 1)
      BY <2>9 DEF TaskStep, InactCallback
    <3>2. section' \in 0..Sections /\ quiet' \in 0..(Sections + 1)
      BY <2>9, <3>1 DEF TaskStep, InactCallback
    <3>3. tpc' # "inact"
      BY <2>9 DEF TaskStep, InactCallback
    <3>4. CASE traffic
      BY <2>9, <3>2, <3>3, <3>4 DEF TaskStep, InactCallback
    <3>5. CASE ~traffic /\ section # 1
      BY <2>9, <3>1, <3>2, <3>3, <3>5 DEF TaskStep, InactCallback
    <3>6. CASE ~traffic /\ section = 1 /\ ~fifo
      <4>1. tpc = "inact" /\ UNCHANGED inact
        BY <2>9, <3>6 DEF TaskStep, InactCallback
      <4>2. ~inact
        BY <4>1, <3>6
      <4> QED BY <3>2, <3>3, <4>1, <4>2
    <3>7. CASE ~traffic /\ section = 1 /\ fifo
      <4>1. inact' => section' = Sections
        BY <2>9, <3>7 DEF TaskStep, InactCallback
      <4> QED BY <3>2, <3>3, <4>1
    <3> QED BY <3>4, <3>5, <3>6, <3>7
  <2>10. CASE TaskStep(HostSuspend)
    BY <2>10 DEF TaskStep, HostSuspend
  <2>11. CASE TaskStep(SetSuspending)
    BY <2>11 DEF TaskStep, SetSuspending
  <2>12. CASE TaskStep(AwaitDecrement)
    BY <2>12 DEF TaskStep, AwaitDecrement, M2hInit
  <2>13. CASE TaskStep(LowerH2m)
    BY <2>13 DEF TaskStep, LowerH2m, SetH2m
  <2>14. CASE TaskStep(SuspendTrail)
    BY <2>14 DEF TaskStep, SuspendTrail, M2hInit
  <2>15. CASE TaskStep(SuspendFalls)
    BY <2>15 DEF TaskStep, SuspendFalls
  <2> QED BY <1>3, <2>1, <2>2, <2>3, <2>4, <2>5, <2>6, <2>7, <2>8, <2>9, <2>10, <2>11,
     <2>12, <2>13, <2>14, <2>15 DEF TaskStep, TimerTask
<1>4. ASSUME NEW w \in Writers, TaskStep(Task(w))
      PROVE  Periods'
  <2>1. CASE TaskStep(Write(w))
    BY <2>1 DEF TaskStep, Write
  <2>2. CASE TaskStep(Granted(w))
    BY <2>2 DEF TaskStep, Granted
  <2>3. CASE TaskStep(Resumes(w))
    BY <2>3 DEF TaskStep, Resumes, SetH2m, M2hInit
  <2>4. CASE TaskStep(Refused(w))
    BY <2>4 DEF TaskStep, Refused
  <2>5. CASE TaskStep(AskAgain(w))
    BY <2>5 DEF TaskStep, AskAgain
  <2>6. CASE TaskStep(Send(w))
    BY <2>6 DEF TaskStep, Send
  <2> QED BY <1>4, <2>1, <2>2, <2>3, <2>4, <2>5, <2>6 DEF TaskStep, Task
<1>5. CASE Outside /\ UNCHANGED cpu
  <2>1. CASE FifoDrains /\ UNCHANGED cpu
    BY <2>1 DEF FifoDrains
  <2>2. CASE ModemAnswers /\ UNCHANGED cpu
    BY <2>2 DEF ModemAnswers
  <2>3. CASE ModemCalls /\ UNCHANGED cpu
    BY <2>3 DEF ModemCalls
  <2>4. CASE ModemIsServed /\ UNCHANGED cpu
    BY <2>4 DEF ModemIsServed
  <2>5. CASE ModemLowers /\ UNCHANGED cpu
    BY <2>5 DEF ModemLowers
  <2> QED BY <1>5, <2>1, <2>2, <2>3, <2>4, <2>5 DEF Outside
<1>6. CASE IdleCheck
  BY <1>6 DEF IdleCheck
<1>7. CASE IdleConfirm
  BY <1>7 DEF IdleConfirm
<1>8. CASE WakeByTime
  BY <1>8 DEF WakeByTime
<1>9. CASE UNCHANGED vars
  BY <1>9 DEF vars
<1> QED BY <1>1, <1>2, <1>3, <1>4, <1>5, <1>6, <1>7, <1>8, <1>9 DEF LinkNext

(* Nothing takes the interface from a writer before its periods are over. *)
LEMMA GrantsKept ==
  ASSUME Sections > 1, Control, Periods, Grants, Control', Periods', [LinkNext]_vars
  PROVE  Grants'
<1> USE HifcAssumption DEF Control, Kinds, Flags, Names, Phases, Up, Apart, Callback,
   Periods, Grants, Held, IfStates, TimerPc, hifcVars, machine, timers, line, irq, others,
   history
<1>1. CASE ModemIrq
  BY <1>1 DEF ModemIrq, M2hIsr, M2hPending, SuspendSm, ResumeSm, ModemResumeSm, ModemNotUp, ComeUp,
     RestartInactivity, SetH2m, M2hInit
<1>2. CASE UartRx /\ cpu # "stop" /\ UNCHANGED cpu
  BY <1>2 DEF UartRx
<1>3. CASE TaskStep(TimerTask)
  <2>1. CASE TaskStep(TimerCommands)
    BY <2>1 DEF TaskStep, TimerCommands
  <2>2. CASE TaskStep(ProtoExpire)
    BY <2>2 DEF TaskStep, ProtoExpire, ModemOwes, M2hPending
  <2>3. CASE TaskStep(ProtoFsm)
    BY <2>3 DEF TaskStep, ProtoFsm
  <2>4. CASE TaskStep(ProtoBranch)
    BY <2>4 DEF TaskStep, ProtoBranch, SetH2m
  <2>5. CASE TaskStep(ProtoUp)
    BY <2>5 DEF TaskStep, ProtoUp
  <2>6. CASE TaskStep(ProtoListen)
    BY <2>6 DEF TaskStep, ProtoListen, M2hInit
  <2>7. CASE TaskStep(ProtoDown)
    BY <2>7 DEF TaskStep, ProtoDown
  <2>8. CASE TaskStep(InactExpire)
    BY <2>8 DEF TaskStep, InactExpire
  <2>9. CASE TaskStep(InactCallback)
    <3> SUFFICES ASSUME NEW w \in Writers, writer'[w] = "granted", ~torn', quiet' < Sections
                 PROVE  Held'
      OBVIOUS
    <3>1. section \in 1..Sections /\ quiet \in 0..(Sections + 1)
      BY <2>9 DEF TaskStep, InactCallback
    <3>2. writer[w] = "granted" /\ ~torn /\ quiet' = quiet + 1 /\ quiet < Sections
      BY <2>9, <3>1 DEF TaskStep, InactCallback
    <3>3. ifState = "IfUp" /\ (traffic \/ section + quiet > Sections)
      BY <3>2
    <3>4. traffic \/ section # 1
      BY <3>1, <3>2, <3>3
    <3>5. ifState' = "IfUp" /\ tpc' = "idle"
      BY <2>9, <3>3, <3>4 DEF TaskStep, InactCallback
    <3>6. section' = Sections \/ (~traffic /\ section' = section - 1)
      BY <2>9, <3>4 DEF TaskStep, InactCallback
    <3>7. section + quiet > Sections \/ section' = Sections
      BY <3>3, <3>6
    <3>8. section' + quiet' > Sections
      <4> HIDE <2>9 DEF Grants, Control, Periods
      <4> QED BY <3>1, <3>2, <3>6, <3>7
    <3> QED BY <3>5, <3>8
  <2>10. CASE TaskStep(HostSuspend)
    BY <2>10 DEF TaskStep, HostSuspend
  <2>11. CASE TaskStep(SetSuspending)
    BY <2>11 DEF TaskStep, SetSuspending
  <2>12. CASE TaskStep(AwaitDecrement)
    BY <2>12 DEF TaskStep, AwaitDecrement, M2hInit
  <2>13. CASE TaskStep(LowerH2m)
    BY <2>13 DEF TaskStep, LowerH2m, SetH2m
  <2>14. CASE TaskStep(SuspendTrail)
    BY <2>14 DEF TaskStep, SuspendTrail, M2hInit
  <2>15. CASE TaskStep(SuspendFalls)
    BY <2>15 DEF TaskStep, SuspendFalls
  <2> QED BY <1>3, <2>1, <2>2, <2>3, <2>4, <2>5, <2>6, <2>7, <2>8, <2>9, <2>10, <2>11,
     <2>12, <2>13, <2>14, <2>15 DEF TaskStep, TimerTask
<1>4. ASSUME NEW w \in Writers, TaskStep(Task(w))
      PROVE  Grants'
  <2>1. CASE TaskStep(Write(w))
    BY <2>1 DEF TaskStep, Write
  <2>2. CASE TaskStep(Granted(w))
    BY <2>2 DEF TaskStep, Granted
  <2>3. CASE TaskStep(Resumes(w))
    BY <2>3 DEF TaskStep, Resumes, SetH2m, M2hInit
  <2>4. CASE TaskStep(Refused(w))
    BY <2>4 DEF TaskStep, Refused
  <2>5. CASE TaskStep(AskAgain(w))
    BY <2>5 DEF TaskStep, AskAgain
  <2>6. CASE TaskStep(Send(w))
    BY <2>6 DEF TaskStep, Send
  <2> QED BY <1>4, <2>1, <2>2, <2>3, <2>4, <2>5, <2>6 DEF TaskStep, Task
<1>5. CASE Outside /\ UNCHANGED cpu
  <2>1. CASE FifoDrains /\ UNCHANGED cpu
    BY <2>1 DEF FifoDrains
  <2>2. CASE ModemAnswers /\ UNCHANGED cpu
    BY <2>2 DEF ModemAnswers
  <2>3. CASE ModemCalls /\ UNCHANGED cpu
    BY <2>3 DEF ModemCalls
  <2>4. CASE ModemIsServed /\ UNCHANGED cpu
    BY <2>4 DEF ModemIsServed
  <2>5. CASE ModemLowers /\ UNCHANGED cpu
    BY <2>5 DEF ModemLowers
  <2> QED BY <1>5, <2>1, <2>2, <2>3, <2>4, <2>5 DEF Outside
<1>6. CASE IdleCheck
  BY <1>6 DEF IdleCheck
<1>7. CASE IdleConfirm
  BY <1>7 DEF IdleConfirm
<1>8. CASE WakeByTime
  BY <1>8 DEF WakeByTime
<1>9. CASE UNCHANGED vars
  BY <1>9 DEF vars
<1> QED BY <1>1, <1>2, <1>3, <1>4, <1>5, <1>6, <1>7, <1>8, <1>9 DEF LinkNext

-----------------------------------------------------------------------------
(* Control holds at the start. *)
LEMMA ControlInit == LinkInit => Control
<1> SUFFICES ASSUME LinkInit PROVE Control
  OBVIOUS
<1> USE HifcAssumption DEF LinkInit, Init
<1>1. Flags BY DEF Flags
<1>2. Names BY DEF Names, IfStates, Fsm, TimerPc
<1>3. Modem /\ Latch BY DEF Modem, Latch
<1>4. Phases BY DEF Phases, Down, Apart
<1>5. Sleeps /\ Watched BY DEF Sleeps, Watched
<1> QED BY <1>1, <1>2, <1>3, <1>4, <1>5 DEF Control, Kinds

(* Control is inductive. *)
LEMMA ControlKept == Control /\ [LinkNext]_vars => Control'
<1> SUFFICES ASSUME Control, [LinkNext]_vars PROVE Control'
  OBVIOUS
<1> USE DEF Control
<1>1. Kinds' /\ Modem' BY KindsKept
<1>2. Latch' /\ Phases' BY <1>1, PhasesKept
<1>3. Sleeps' BY <1>1, SleepsKept
<1>4. Watched' BY <1>1, WatchedKept
<1> QED BY <1>1, <1>2, <1>3, <1>4

(* Whatever the inactivity time, the machine, the interrupt, the line and  *)
(* the timer task are in one of the combinations of hifc_api.c.            *)
THEOREM ControlInvariant == LinkSpec => []Control
<1>1. LinkInit => Control BY ControlInit
<1>2. Control /\ [LinkNext]_vars => Control' BY ControlKept
<1> QED BY <1>1, <1>2, PTL DEF LinkSpec

(* A sleeping MCU has nothing to do and can be woken by the modem, and so  *)
(* can the interface while it is down (hifc_api.c:380, pwr_mngr.c:313-347).*)
THEOREM Wakeable == LinkSpec => []SleepIsWakeable
<1>1. Control => SleepIsWakeable
  BY DEF Control, Sleeps, Phases, Down, SleepIsWakeable
<1> QED BY <1>1, ControlInvariant, PTL

(* The whole invariant, for an inactivity time of two periods or more.     *)
THEOREM Invariant == ASSUME Sections > 1 PROVE LinkSpec => []IInv
<1>1. LinkInit => IInv
  BY ControlInit, HifcAssumption DEF IInv, LinkInit, Init, Periods, Grants
<1>2. IInv /\ [LinkNext]_vars => IInv'
  <2> SUFFICES ASSUME IInv, [LinkNext]_vars PROVE IInv'
    OBVIOUS
  <2>1. Control' BY ControlKept DEF IInv
  <2>2. Periods' BY PeriodsKept DEF IInv, Control
  <2>3. Grants' BY <2>1, <2>2, GrantsKept DEF IInv
  <2> QED BY <2>1, <2>2, <2>3 DEF IInv
<1> QED BY <1>1, <1>2, PTL DEF LinkSpec

(* Between two callbacks h2m tells the modem the state of the interface    *)
(* (hifc_api.c:135-176, 178-370).                                          *)
THEOREM LinesTell == ASSUME Sections > 1 PROVE LinkSpec => []LinesAgree
<1>1. IInv => LinkTypeOK
  BY DEF IInv, Control, Kinds, Flags, Names, Periods, LinkTypeOK, TypeOK
<1>2. ASSUME IInv, tpc = "idle", ~torn, ~misread, ~M2hPending
      PROVE  h2m = 1 <=> ifState \in {"IfUp", "IfResuming"}
  BY <1>2 DEF IInv, Control, Kinds, Names, IfStates, Phases, Down, Resuming, Suspending,
     Up, Apart, M2hPending
<1>3. ASSUME IInv, misread, ~torn PROVE h2m = 1 /\ m2h = 1
  BY <1>3 DEF IInv, Control, Kinds, Names, IfStates, Phases, Down, Resuming, Suspending,
     Up, Apart
<1>4. IInv => LinesAgree BY <1>1, <1>2, <1>3 DEF LinesAgree
<1> QED BY <1>4, Invariant, PTL

(* An interface that is up has its inactivity timer running, whose count   *)
(* of periods does not wrap (hifc_api.c:118-133, 609-621).                 *)
THEOREM TimerWatches == ASSUME Sections > 1 PROVE LinkSpec => []UpIsWatched
<1>1. IInv => UpIsWatched
  BY DEF IInv, Control, Watched, Periods, UpIsWatched
<1> QED BY <1>1, Invariant, PTL

(* A granted writer finds the interface up for the inactivity time         *)
(* (hifc_api.c:637-638).                                                   *)
THEOREM GrantIsHeld == ASSUME Sections > 1 PROVE LinkSpec => []GrantHolds
<1>1. IInv => GrantHolds
  BY DEF IInv, Grants, Held, GrantHolds
<1> QED BY <1>1, Invariant, PTL
=============================================================================
