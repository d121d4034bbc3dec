-------------------------------- MODULE Life --------------------------------
(***************************************************************************)
(* The receive side (RecvTask) in the life cycle of the library (Builder): *)
(* its tasks begin when the builder has made them, and lte_destroy ends    *)
(* them one by one while it takes away the parts they use.  One lifetime   *)
(* is followed to its end, after any number of failed attempts.            *)
(***************************************************************************)
EXTENDS RecvTask

CONSTANTS Callers, Suppliers, Crossing
VARIABLES initialized, cbLock, exists, logMtx, call

B == INSTANCE Builder
libVars == <<initialized, cbLock, exists, logMtx, call>>
lifeVars == <<vars, libVars>>

LifeInit == Init /\ B!Init

\* The gateway has been built: the receive task runs.
Up == B!Gw \in exists

\* altcom_initialize; the histories of RecvTask are of one lifetime.
Construct(c) ==
    /\ (fin = "off" /\ B!Initialize(c)) \/ B!Building(c)
    /\ UNCHANGED vars

\* altcom_finalize
Destruct(c) == (B!Finalize(c) \/ B!DestroyLog(c)) /\ UNCHANGED vars

\* lte_destroy, the gateway: apicmdgw_fin.
DestroyGw(c) ==
    /\ call[c] = B!At("destroy", B!Gw)
    /\ \/ FinAbort /\ UNCHANGED libVars
       \/ FinJoin /\ B!DestroyPart(c, B!Gw)

\* The HAL forgets the abort; the dispatcher and the buffer pool have no task.
DestroyHal(c) ==
    /\ B!DestroyPart(c, B!Hal)
    /\ abort' = "NONE"
    /\ UNCHANGED <<pool, hal, sem, task, life, cb, history>>

DestroyIdle(c) ==
    /\ B!DestroyPart(c, B!Disp) \/ B!DestroyPart(c, B!Bufs)
    /\ UNCHANGED vars

\* thrdfctry_fin returns when thrdpool_delete does.
DestroyThrd(c) ==
    /\ call[c] = B!At("destroy", B!Thrd)
    /\ FinPool
    /\ IF del' = "done" THEN B!DestroyPart(c, B!Thrd) ELSE UNCHANGED libVars

Destroy(c) == DestroyGw(c) \/ DestroyHal(c) \/ DestroyIdle(c) \/ DestroyThrd(c)

AllOver == fin = "pool" /\ (\A c \in Callers : call[c] = B!Out) /\ UNCHANGED lifeVars

Running ==
    \/ B!Hal \in exists /\ (\E e \in Events : ArriveEvent(e) \/ ArriveAnswer(e))
    \/ Up /\ (RecvStep \/ AppReady)
    \/ AppAgain
    \/ \E e \in Events : TimeOut(e)
    \/ B!Thrd \in exists /\ (\E w \in Workers : CallbackStep(w))

LifeNext ==
    \/ Running /\ UNCHANGED libVars
    \/ \E c \in Callers : Construct(c) \/ Destruct(c) \/ Destroy(c)
    \/ AllOver

LifeSpec == LifeInit /\ [][LifeNext]_lifeVars

(* The tasks run whenever they can, a timeout passes, and who has called   *)
(* altcom_app_ready or altcom_finalize goes on with it.                    *)
Fairness ==
    /\ WF_lifeVars(Up /\ RecvStep /\ UNCHANGED libVars)
    /\ \A w \in Workers :
         WF_lifeVars((Begin(w) \/ Return(w) \/ End(w)) /\ UNCHANGED libVars)
    /\ \A e \in Events : WF_lifeVars(TimeOut(e) /\ UNCHANGED libVars)
    /\ WF_lifeVars(AppAgain /\ UNCHANGED libVars)
    /\ \A c \in Callers : WF_lifeVars(Destroy(c)) /\ WF_lifeVars(B!DestroyLog(c) /\ UNCHANGED vars)

FairSpec == LifeSpec /\ Fairness
-----------------------------------------------------------------------------
(* No task uses a part that lte_destroy has taken away (altcombuilder.c:   *)
(* 707-762): while the receive task runs the HAL, the dispatcher, the      *)
(* threads and the buffers exist, while a callback runs or an event waits  *)
(* for it the buffers do, and the pool of threads is freed last of all     *)
(* that use it (thrdpool.c:359-378).                                       *)
UsedPartsExist ==
    /\ EndedLast /\ B!BuilderTypeOK
    /\ Up /\ rcv # "ended" => {B!Hal, B!Disp, B!Thrd, B!Bufs} \subseteq exists
    /\ \A w \in Workers : thrd[w] = "RUNNABLE" => {B!Thrd, B!Bufs} \subseteq exists
    /\ B!Bufs \notin exists => que = <<>> /\ replay = <<>>
    /\ fin = "pool" => rcv = "ended"

\* WholeOrNothing of Builder.
WholeOrNothing == B!WholeOrNothing

(* altcom_finalize returns, whatever the receive task and the callback     *)
(* thread were doing, with nothing left (apicmdgw.c:1223-1228,             *)
(* thrdpool.c:359-371).                                                    *)
FinReturns == B!Finalizing # {} ~> (B!Finalizing = {} /\ exists = {} /\ ~initialized)
=============================================================================
