------------------------------- MODULE Builder -------------------------------
(***************************************************************************)
(* The life cycle of ALTCOM: altcom_initialize and altcom_finalize with    *)
(* the one flag they share (apiutil.h), the director, and the builder with *)
(* its way back from a part that could not be built (altcombuilder.c).     *)
(*                                                                         *)
(* The parts are numbered in the order of lte_buildmain; part 0 is the     *)
(* mutex of the log, which the application may supply instead.             *)
(***************************************************************************)
EXTENDS Naturals

CONSTANTS
    Callers,    \* the tasks that call altcom_initialize and altcom_finalize
    Suppliers,  \* the ones whose altcom_init_t has an altcom_log_lock
    Crossing    \* one may be called while the other is under way

VARIABLES
    initialized,  \* g_altcom_initialized
    cbLock,       \* g_altcom_apicallback_mtx exists
    exists,       \* the parts that exist
    logMtx,       \* the mutex of the log: none, our "own" (local_logmtx) or the "app"'s
    call          \* call[c]: what c does, and the part that is next

libVars == <<initialized, cbLock, exists, logMtx, call>>

Bufs == 1  \* buffpoolwrapper_init
Thrd == 2  \* thrdfctry_init
Disp == 3  \* evtdisp_create
Hal  == 4  \* hal_uart_alt125x_create
Gw   == 5  \* apicmdgw_init
Parts == {Bufs, Thrd, Disp, Hal, Gw}

At(w, k) == [does |-> w, part |-> k]
Out == At("nothing", 0)
Doing(w) == {c \in Callers : call[c].does = w}
Initializing == Doing("build") \cup Doing("undo") \cup Doing("giveup")
Finalizing == Doing("destroy")
Goto(c, p) == call' = [call EXCEPT ![c] = p]

BuilderTypeOK ==
    /\ initialized \in BOOLEAN /\ cbLock \in BOOLEAN
    /\ exists \subseteq Parts /\ logMtx \in {"none", "own", "app"}
    /\ call \in [Callers -> [does : {"nothing", "build", "undo", "destroy", "giveup"},
                             part : 0..Gw]]

Init ==
    /\ initialized = FALSE /\ cbLock = FALSE /\ exists = {} /\ logMtx = "none"
    /\ call = [c \in Callers |-> Out]

\* altcom_check_initialized_and_set.
Initialize(c) ==
    /\ call[c] = Out
    /\ Crossing \/ Finalizing = {}
    /\ ~initialized
    /\ initialized' = TRUE /\ cbLock' = TRUE
    /\ Goto(c, At("build", 0))
    /\ UNCHANGED <<exists, logMtx>>

\* The application supplies a mutex, or there is one still, or one is created.
BuildLog(c) ==
    /\ call[c] = At("build", 0)
    /\ LET log == IF c \in Suppliers THEN "app" ELSE logMtx IN
         \/ Goto(c, At("build", Bufs)) /\ logMtx' = IF log = "none" THEN "own" ELSE log
         \/ log = "none" /\ Goto(c, At("giveup", 0)) /\ UNCHANGED logMtx
    /\ UNCHANGED <<initialized, cbLock, exists>>

\* These look whether they have been built already.
Guarded == {Bufs, Thrd, Gw}

Built(c, k) ==
    /\ k \notin Guarded \cap exists
    /\ exists' = exists \cup {k}
    /\ Goto(c, IF k = Gw THEN Out ELSE At("build", k + 1))

\* The label to which a failure jumps: the part before the one that failed.
\* Mutant: the one before that.
BackTwo(k) == IF k < 2 THEN 0 ELSE k - 2

Back(k) == k - 1

BuildPart(c) ==
    /\ call[c].does = "build" /\ call[c].part \in Parts
    /\ \/ Built(c, call[c].part)
       \/ Goto(c, At("undo", Back(call[c].part))) /\ UNCHANGED exists
    /\ UNCHANGED <<initialized, cbLock, logMtx>>

LogGoes == logMtx' = IF logMtx = "own" THEN "none" ELSE logMtx

\* The labels of lte_buildmain, each falling through to the next.
Undo(c) ==
    /\ call[c].does = "undo"
    /\ LET k == call[c].part IN
         \/ /\ k \in Parts /\ exists' = exists \ {k}
            /\ Goto(c, At("undo", k - 1)) /\ UNCHANGED logMtx
         \/ k = 0 /\ LogGoes /\ Goto(c, At("giveup", 0)) /\ UNCHANGED exists
    /\ UNCHANGED <<initialized, cbLock>>

\* altcom_set_finalized, after a failure of either call.
GiveUp(c) ==
    /\ call[c].does = "giveup"
    /\ initialized' = FALSE /\ cbLock' = FALSE
    /\ Goto(c, Out)
    /\ UNCHANGED <<exists, logMtx>>

\* altcom_check_finalized_and_set.
Finalize(c) ==
    /\ call[c] = Out
    /\ Crossing \/ Initializing = {}
    /\ initialized
    /\ initialized' = FALSE /\ cbLock' = FALSE
    /\ Goto(c, At("destroy", Gw))
    /\ UNCHANGED <<exists, logMtx>>

\* lte_destroy, from the gateway down; a part that is not there ends it.
DestroyPart(c, k) ==
    /\ call[c] = At("destroy", k) /\ k \in Parts
    /\ \/ k \in exists /\ exists' = exists \ {k} /\ Goto(c, At("destroy", k - 1))
       \/ k \notin exists /\ Goto(c, At("giveup", 0)) /\ UNCHANGED exists
    /\ UNCHANGED <<initialized, cbLock, logMtx>>

DestroyLog(c) ==
    /\ call[c] = At("destroy", 0)
    /\ LogGoes /\ Goto(c, Out)
    /\ UNCHANGED <<initialized, cbLock, exists>>

\* What a caller of altcom_initialize goes on with.
Building(c) == BuildLog(c) \/ BuildPart(c) \/ Undo(c) \/ GiveUp(c)

(* Between calls the library exists as a whole or not at all: every part,  *)
(* the lock of the callbacks and a mutex for the log, or nothing of it,    *)
(* after any failures of any parts and attempts by several tasks           *)
(* (altcombuilder.c:596-690, 707-762, apiutil.h:158-202).                  *)
WholeOrNothing ==
    Initializing = {} /\ Finalizing = {} =>
        /\ exists = IF initialized THEN Parts ELSE {}
        /\ cbLock = initialized
        /\ initialized => logMtx # "none"
        /\ ~initialized => logMtx # "own"
=============================================================================
