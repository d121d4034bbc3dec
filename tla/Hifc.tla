-------------------------------- MODULE Hifc --------------------------------
(***************************************************************************)
(* The host interface protocol of the MCU (middleware/hifc, hifc_api.c) in *)
(* mode b, the one of the internal MCU (devices/ALT125X/hifc/hifc_mi.c).   *)
(* The MCU is the host: it raises h2m to bring the serial link to the      *)
(* modem up and lowers it to take it down, the modem answers with m2h, and *)
(* may raise m2h on its own when it has data.                              *)
(*                                                                         *)
(* Three parties change the state.  The interrupt of the m2h counter runs  *)
(* to its end.  A task that writes calls request_to_send, a critical       *)
(* section.  The timer task runs the two timer callbacks, and the          *)
(* interrupt and a writer can run between any two of its accesses, hence   *)
(* the program counter tpc.                                                *)
(*                                                                         *)
(* A timer command posted from an interrupt takes effect at once here: a   *)
(* timer that expires although a stop is on its way is a timer whose       *)
(* expiry was decided (InactExpire, ProtoExpire) before the interrupt.     *)
(***************************************************************************)
EXTENDS Integers

CONSTANTS
    Writers,    \* the tasks that call serialUartDriverWrite
    Sections,   \* inactivity_time / 50 ms: periods without traffic before a suspend
    MaxOvertakes \* bound: how often one side overtakes the other, see overtakes

ASSUME HifcAssumption == Sections \in Nat \ {0} /\ MaxOvertakes \in Nat

VARIABLES
    ifState,    \* gHifc_struct.eIf_state
    fsm,        \* gHifc_struct.eFSM
    traffic,    \* isUartTraffic
    section,    \* gInact_tout_running.section
    proto,      \* protcol_timeout_timer is running
    inact,      \* xInactivity_Timer is running
    posted,     \* a command waits in the queue of the timer task
    h2m, m2h,   \* the two atomic counters of the mailbox, 0 or 1
    irqOn,      \* the interrupt of the m2h counter is enabled
    irqMode,    \* its mode: "NOT_ZERO" or "DEC"
    latched,    \* its INT_STAT: a decrement has been seen
    tpc,        \* the timer task: "idle" or the next access of its callback
    writer,     \* writer[w]: where w is in serialUartDriverWrite
    fifo,       \* is_serial_tx_busy: bytes are leaving the UART
    modem,      \* the other side (external)
    overtakes,  \* history: how often the protocol timer fired before an answer of the
                \* modem was taken, or the modem called again before its last was
    torn,       \* history: the machine was moved in the middle of a timer callback
    misread,    \* history: a suspend has taken the resume that followed it for its own
                \* end, and the interface has not come up since, nor a writer called
    quiet       \* history: inactivity periods counted since the last grant to a writer

line    == <<h2m, m2h>>
irq     == <<irqOn, irqMode, latched>>
timers  == <<proto, inact, section, traffic, posted>>
machine == <<ifState, fsm>>
others  == <<writer, fifo>>
history == <<overtakes, torn, misread, quiet>>
hifcVars == <<machine, timers, line, irq, tpc, others, modem, history>>

IfStates == {"IfUp", "IfDown", "IfSuspending", "IfResuming"}
Fsm == {"init", "config", "approve", "complete", "error", "timeout"}
TimerPc == {"idle", "proto", "branch", "up", "listen", "down", "inact",
            "suspend", "suspending", "config", "lower", "trail", "falling"}

\* The timer task is inside a callback that moves the machine.
Callback == TimerPc \ {"idle", "inact", "trail", "falling"}

TypeOK ==
    /\ ifState \in IfStates /\ fsm \in Fsm
    /\ traffic \in BOOLEAN /\ section \in 0..Sections
    /\ proto \in BOOLEAN /\ inact \in BOOLEAN /\ posted \in BOOLEAN
    /\ h2m \in {0, 1} /\ m2h \in {0, 1}
    /\ irqOn \in BOOLEAN /\ irqMode \in {"NOT_ZERO", "DEC"} /\ latched \in BOOLEAN
    /\ tpc \in TimerPc
    /\ writer \in [Writers -> {"idle", "asks", "delays", "granted"}]
    /\ fifo \in BOOLEAN
    /\ modem \in {"down", "calling", "up"}
    /\ overtakes \in 0..MaxOvertakes /\ torn \in BOOLEAN /\ misread \in BOOLEAN
    /\ quiet \in 0..(Sections + 1)

\* After hifc_host_interface_init and set_hifc_mode(hifc_mode_b): the link is down
\* and the m2h interrupt waits for the modem.
Init ==
    /\ ifState = "IfDown" /\ fsm = "config"
    /\ traffic = FALSE /\ section = Sections
    /\ proto = FALSE /\ inact = FALSE /\ posted = FALSE
    /\ h2m = 0 /\ m2h = 0
    /\ irqOn = TRUE /\ irqMode = "NOT_ZERO" /\ latched = FALSE
    /\ tpc = "idle"
    /\ writer = [w \in Writers |-> "idle"] /\ fifo = FALSE
    /\ modem = "down"
    /\ overtakes = 0 /\ torn = FALSE /\ misread = FALSE /\ quiet = 0

-----------------------------------------------------------------------------
(* Pieces of the code that several handlers share                          *)

\* hifc_mi_h2m_set: the counter is stepped only if it is not there yet.
SetH2m(v) == h2m' = v

\* hifc_mi_m2h_init(callback, level): choose the interrupt mode and enable it.
M2hInit(level) ==
    /\ irqOn' = TRUE
    /\ irqMode' = IF level = 1 THEN "NOT_ZERO" ELSE "DEC"

\* generic_reset_inactivity_timer(base, true) with the interface up.
\* Mutant: the count of periods is not restored.
RestartTimerOnly ==
    /\ section' = section /\ inact' = TRUE /\ posted' = TRUE

RestartInactivity ==
    /\ section' = Sections /\ inact' = TRUE /\ posted' = TRUE

\* The interface comes up: hifc_fsm_complete of the two resume machines.
ComeUp ==
    /\ ifState' = "IfUp" /\ fsm' = "complete" /\ RestartInactivity
    /\ misread' = FALSE

-----------------------------------------------------------------------------
(* The interrupt of the m2h counter                                        *)

M2hPending == irqOn /\ (latched \/ (irqMode = "NOT_ZERO" /\ m2h = 1))

\* hifc_host_suspend_sm, called from the interrupt while suspending.  Complete, it ends
\* with hifc_modem_resume_sm at init.
SuspendSm ==
    /\ \/ /\ fsm \in {"config", "complete"}
          /\ proto' = (proto /\ fsm # "config") /\ posted' = (posted \/ fsm = "config")
          /\ ifState' = "IfDown" /\ fsm' = "config" /\ M2hInit(1)
          /\ UNCHANGED h2m
       \/ /\ fsm = "init"            \* the timer task is between init and config
          /\ proto' = TRUE /\ posted' = TRUE
          /\ fsm' = "config" /\ M2hInit(0) /\ SetH2m(0)
          /\ UNCHANGED ifState
       \/ /\ fsm \notin {"config", "complete", "init"}
          /\ fsm' = IF fsm = "approve" THEN fsm ELSE "error"
          /\ proto' = (proto /\ fsm # "approve") /\ posted' = (posted \/ fsm = "approve")
          /\ irqOn' = FALSE
          /\ UNCHANGED <<ifState, irqMode, h2m>>
    /\ UNCHANGED <<inact, section, misread>>

\* hifc_host_resume_sm, called from the interrupt while resuming.
ResumeSm ==
    \/ /\ fsm = "approve"
       /\ proto' = FALSE /\ ComeUp /\ irqOn' = FALSE
       /\ UNCHANGED <<irqMode, h2m>>
    \/ /\ fsm # "approve"
       /\ IF fsm \in {"init", "config"}
          THEN /\ fsm' = "approve" /\ M2hInit(1) /\ proto' = TRUE /\ posted' = TRUE
               /\ h2m' = IF fsm = "init" THEN 1 ELSE h2m
          ELSE /\ fsm' = IF fsm = "complete" THEN fsm ELSE "error"
               /\ irqOn' = FALSE /\ UNCHANGED <<irqMode, proto, posted, h2m>>
       /\ UNCHANGED <<ifState, inact, section, misread>>

\* hifc_modem_resume_sm where it does not bring the interface up.
ModemNotUp ==
    /\ fsm \notin {"config", "complete"}
    /\ IF fsm = "init" THEN fsm' = "config" /\ M2hInit(1)
       ELSE /\ fsm' = IF fsm = "approve" THEN fsm ELSE "error"
            /\ irqOn' = FALSE /\ UNCHANGED irqMode
    /\ UNCHANGED <<ifState, proto, inact, section, posted, h2m, misread>>

\* hifc_modem_resume_sm, called from the interrupt while the interface is down.
\* Mutant: the interface is taken for up without raising h2m.
ModemResumeQuiet ==
    \/ /\ fsm \in {"config", "complete"}
       /\ ComeUp /\ irqOn' = FALSE
       /\ UNCHANGED <<irqMode, proto, h2m>>
    \/ ModemNotUp

ModemResumeSm ==
    \/ /\ fsm \in {"config", "complete"}
       /\ h2m' = IF fsm = "config" THEN 1 ELSE h2m
       /\ ComeUp /\ irqOn' = FALSE
       /\ UNCHANGED <<irqMode, proto>>
    \/ ModemNotUp

\* ATMCTR_MAILBOX_IRQhandler, MAILBOX_IRQHandler and hifc_m2h_level_change_callback.
\* In NOT_ZERO mode the handler of the counter is called whenever the shared
\* mailbox interrupt fires with m2h set, although the counter's own interrupt
\* may be disabled: irqOn is not part of the guard then.
M2hIsr ==
    /\ M2hPending \/ (irqMode = "NOT_ZERO" /\ m2h = 1)
    /\ latched' = (latched /\ irqMode = "NOT_ZERO" /\ m2h = 1)
    /\ \/ ifState = "IfSuspending" /\ m2h = 0 /\ SuspendSm
       \/ ifState = "IfResuming" /\ m2h = 1 /\ ResumeSm
       \/ ifState = "IfDown" /\ m2h = 1 /\ ModemResumeSm
       \/ /\ ~(ifState = "IfSuspending" /\ m2h = 0)
          /\ ~(ifState \in {"IfResuming", "IfDown"} /\ m2h = 1)
          /\ irqOn' = FALSE
          /\ UNCHANGED <<machine, irqMode, proto, inact, section, posted, h2m, misread>>
    /\ torn' = (torn \/ (irqOn /\ tpc \in Callback))
    /\ UNCHANGED <<traffic, m2h, tpc, others, modem, overtakes, quiet>>

\* The receive interrupt of the UART: reset_inactivity_timer(base).
UartRx ==
    /\ modem = "up" /\ ifState = "IfUp"
    /\ traffic' = TRUE
    /\ UNCHANGED <<machine, section, proto, inact, posted, line, irq, tpc, others, modem,
                   history>>

-----------------------------------------------------------------------------
(* The timer task                                                          *)

\* The timer task empties its command queue.
TimerCommands ==
    /\ tpc = "idle" /\ posted
    /\ posted' = FALSE
    /\ UNCHANGED <<machine, traffic, section, proto, inact, line, irq, tpc, others, modem,
                   history>>

\* The modem has still to answer, or its answer has still to be taken.
ModemOwes == M2hPending \/ (h2m = 1 /\ modem = "down") \/ (h2m = 0 /\ modem = "up")

\* The protocol timer expires: from here on a stop comes too late.
ProtoExpire ==
    /\ tpc = "idle" /\ proto
    /\ ModemOwes => overtakes < MaxOvertakes
    /\ proto' = FALSE /\ tpc' = "proto"
    /\ overtakes' = IF ModemOwes THEN overtakes + 1 ELSE overtakes
    /\ UNCHANGED <<machine, traffic, section, inact, posted, line, irq, others, modem,
                   torn, misread, quiet>>

\* hifc_protocol_timeout_isr, its first line.
ProtoFsm ==
    /\ tpc = "proto"
    /\ fsm' = "timeout" /\ tpc' = "branch"
    /\ UNCHANGED <<ifState, timers, line, irq, others, modem, history>>

\* It then looks at the interface state.
ProtoBranch ==
    /\ tpc = "branch"
    /\ \/ ifState = "IfSuspending" /\ SetH2m(1) /\ tpc' = "up"
       \/ ifState = "IfResuming" /\ SetH2m(0) /\ tpc' = "listen"
       \/ ifState \in {"IfUp", "IfDown"} /\ tpc' = "idle" /\ UNCHANGED h2m
    /\ UNCHANGED <<machine, timers, m2h, irq, others, modem, history>>

\* A failed suspend: up again, and hifc_host_suspend at once.
ProtoUp ==
    /\ tpc = "up"
    /\ ifState' = "IfUp" /\ tpc' = "suspend"
    /\ UNCHANGED <<fsm, timers, line, irq, others, modem, history>>

\* A failed resume: wait for the modem, then down.
ProtoListen ==
    /\ tpc = "listen"
    /\ M2hInit(1) /\ tpc' = "down"
    /\ UNCHANGED <<machine, timers, line, latched, others, modem, history>>

\* Mutant: the state is left at IfResuming.
ProtoDownForgotten ==
    /\ tpc = "down" /\ tpc' = "idle"
    /\ UNCHANGED <<machine, timers, line, irq, others, modem, history>>

ProtoDown ==
    /\ tpc = "down"
    /\ ifState' = "IfDown" /\ tpc' = "idle"
    /\ UNCHANGED <<fsm, timers, line, irq, others, modem, history>>

\* The inactivity timer expires.  Its period, 50 ms, outlasts the 5 ms of a delay.
InactExpire ==
    /\ tpc = "idle" /\ inact /\ \A w \in Writers : writer[w] # "delays"
    /\ inact' = FALSE /\ tpc' = "inact"
    /\ UNCHANGED <<machine, traffic, section, proto, posted, line, irq, others, modem,
                   history>>

\* hifc_inactivity_timeout_isr.  Its counter of periods is unsigned: zero wraps.
InactCallback ==
    /\ tpc = "inact"
    /\ \/ /\ traffic                       \* there was traffic in this period
          /\ traffic' = FALSE /\ section' = Sections
          /\ inact' = TRUE /\ posted' = TRUE /\ tpc' = "idle"
       \/ /\ ~traffic /\ section # 1       \* not the last period
          /\ section' = section - 1
          /\ inact' = TRUE /\ posted' = TRUE /\ tpc' = "idle" /\ UNCHANGED traffic
       \/ /\ ~traffic /\ section = 1 /\ ~fifo
          /\ section' = 0 /\ tpc' = "suspend" /\ UNCHANGED <<traffic, inact, posted>>
       \/ /\ ~traffic /\ section = 1 /\ fifo   \* transmission busy: start again
          /\ section' = IF ifState = "IfUp" THEN Sections ELSE 0
          /\ inact' = (ifState = "IfUp") /\ posted' = TRUE /\ tpc' = "idle"
          /\ UNCHANGED traffic
    /\ quiet' = IF quiet <= Sections THEN quiet + 1 ELSE quiet
    /\ UNCHANGED <<machine, proto, line, irq, others, modem, overtakes, torn,
                   misread>>

\* hifc_host_suspend: only an interface that is up is suspended.
HostSuspend ==
    /\ tpc = "suspend"
    /\ \/ ifState = "IfUp" /\ fsm' = "init" /\ tpc' = "suspending"
       \/ ifState # "IfUp" /\ tpc' = "idle" /\ UNCHANGED fsm
    /\ UNCHANGED <<ifState, timers, line, irq, others, modem, history>>

\* hifc_host_suspend_sm at init, access by access.
SetSuspending ==
    /\ tpc = "suspending"
    /\ ifState' = "IfSuspending" /\ tpc' = "config"
    /\ UNCHANGED <<fsm, timers, line, irq, others, modem, history>>

AwaitDecrement ==
    /\ tpc = "config"
    /\ fsm' = "config" /\ M2hInit(0) /\ tpc' = "lower"
    /\ UNCHANGED <<ifState, timers, line, latched, others, modem, history>>

LowerH2m ==
    /\ tpc = "lower"
    /\ proto' = TRUE /\ posted' = TRUE /\ SetH2m(0) /\ tpc' = "trail"
    /\ UNCHANGED <<machine, traffic, section, inact, m2h, irq, others, modem, history>>

\* The end of hifc_host_suspend_sm looks at the machine again: when a whole resume was
\* completed meanwhile it takes hifc_fsm_complete for the end of its suspend, and calls
\* hifc_modem_resume_sm at init.  Up to here nobody else looks at fsm or writes it, the
\* interface being up.
SuspendTrail ==
    /\ tpc = "trail"
    /\ \/ /\ fsm = "complete" /\ fsm' = "config" /\ M2hInit(1)
          /\ tpc' = "falling" /\ misread' = TRUE
       \/ fsm # "complete" /\ tpc' = "idle" /\ UNCHANGED <<fsm, irqOn, irqMode, misread>>
    /\ UNCHANGED <<ifState, timers, line, latched, others, modem, overtakes, torn, quiet>>

\* Only then it sets IfDown.  The interrupt, enabled with m2h up, may have come before:
\* it finds IfUp, does nothing and is disabled.
SuspendFalls ==
    /\ tpc = "falling"
    /\ ifState' = "IfDown" /\ tpc' = "idle"
    /\ UNCHANGED <<fsm, timers, line, irq, others, modem, history>>

TimerTask ==
    \/ TimerCommands \/ ProtoExpire \/ ProtoFsm \/ ProtoBranch \/ ProtoUp \/ ProtoListen
    \/ ProtoDown \/ InactExpire \/ InactCallback \/ HostSuspend \/ SetSuspending
    \/ AwaitDecrement \/ LowerH2m \/ SuspendTrail \/ SuspendFalls

-----------------------------------------------------------------------------
(* The writers: serialUartDriverWrite                                      *)

Write(w) ==
    /\ writer[w] = "idle"
    /\ writer' = [writer EXCEPT ![w] = "asks"]
    /\ UNCHANGED <<machine, timers, line, irq, tpc, fifo, modem, history>>

\* request_to_send with the interface up: the traffic is noted.
\* Mutant: it is not.
GrantedUnnoted(w) ==
    /\ writer[w] = "asks" /\ ifState = "IfUp"
    /\ quiet' = 0
    /\ writer' = [writer EXCEPT ![w] = "granted"]
    /\ torn' = (torn \/ tpc \in Callback \union {"trail", "falling"})
    /\ UNCHANGED <<machine, traffic, section, proto, inact, posted, line, irq, tpc, fifo,
                   modem, overtakes, misread>>

Granted(w) ==
    /\ writer[w] = "asks" /\ ifState = "IfUp"
    /\ traffic' = TRUE /\ quiet' = 0
    /\ writer' = [writer EXCEPT ![w] = "granted"]
    /\ torn' = (torn \/ tpc \in Callback \union {"trail", "falling"})
    /\ UNCHANGED <<machine, section, proto, inact, posted, line, irq, tpc, fifo, modem,
                   overtakes, misread>>

\* request_to_send with the interface down: hifc_host_resume, then a delay.
Resumes(w) ==
    /\ writer[w] = "asks" /\ ifState = "IfDown"
    /\ ifState' = "IfResuming" /\ fsm' = "approve"
    /\ SetH2m(1) /\ M2hInit(1) /\ proto' = TRUE /\ posted' = TRUE
    /\ writer' = [writer EXCEPT ![w] = "delays"]
    /\ torn' = (torn \/ tpc \in Callback) /\ misread' = FALSE
    /\ UNCHANGED <<traffic, section, inact, m2h, latched, tpc, fifo, modem, overtakes, quiet>>

\* request_to_send while the interface is on its way: try again after the delay.
Refused(w) ==
    /\ writer[w] = "asks" /\ ifState \in {"IfSuspending", "IfResuming"}
    /\ writer' = [writer EXCEPT ![w] = "delays"]
    /\ UNCHANGED <<machine, timers, line, irq, tpc, fifo, modem, history>>

\* vTaskDelay(five_ms) is over.
AskAgain(w) ==
    /\ writer[w] = "delays"
    /\ writer' = [writer EXCEPT ![w] = "asks"]
    /\ UNCHANGED <<machine, timers, line, irq, tpc, fifo, modem, history>>

\* The bytes go to the UART; each notes the traffic if the interface is still up.
Send(w) ==
    /\ writer[w] = "granted"
    /\ fifo' = TRUE /\ writer' = [writer EXCEPT ![w] = "idle"]
    /\ traffic' = (traffic \/ ifState = "IfUp")
    /\ UNCHANGED <<machine, section, proto, inact, posted, line, irq, tpc, modem, history>>

Task(w) == Write(w) \/ Granted(w) \/ Resumes(w) \/ Refused(w) \/ AskAgain(w) \/ Send(w)

-----------------------------------------------------------------------------
(* The hardware and the modem (external)                                   *)

FifoDrains ==
    /\ fifo /\ fifo' = FALSE
    /\ UNCHANGED <<machine, timers, line, irq, tpc, writer, modem, history>>

\* The modem answers the host's call.
ModemAnswers ==
    /\ modem = "down" /\ h2m = 1 /\ m2h' = 1 /\ modem' = "up"
    /\ UNCHANGED <<machine, timers, h2m, irq, tpc, others, history>>

\* The modem has data and raises m2h on its own, until the host raises h2m.
ModemCalls ==
    /\ modem = "down" /\ h2m = 0 /\ m2h' = 1 /\ modem' = "calling"
    /\ latched => overtakes < MaxOvertakes
    /\ overtakes' = IF latched THEN overtakes + 1 ELSE overtakes
    /\ UNCHANGED <<machine, timers, h2m, irq, tpc, others, torn, misread, quiet>>

ModemIsServed ==
    /\ modem = "calling" /\ h2m = 1 /\ modem' = "up"
    /\ UNCHANGED <<machine, timers, line, irq, tpc, others, history>>

\* The modem follows the host down.
ModemLowers ==
    /\ modem = "up" /\ h2m = 0 /\ m2h' = 0 /\ modem' = "down"
    /\ latched' = (latched \/ (irqOn /\ irqMode = "DEC"))
    /\ UNCHANGED <<machine, timers, h2m, irqOn, irqMode, tpc, others, history>>

Outside == FifoDrains \/ ModemAnswers \/ ModemCalls \/ ModemIsServed \/ ModemLowers

Next == M2hIsr \/ UartRx \/ TimerTask \/ (\E w \in Writers : Task(w)) \/ Outside

Spec == Init /\ [][Next]_hifcVars
=============================================================================
