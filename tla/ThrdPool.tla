------------------------------- MODULE ThrdPool -------------------------------
(***************************************************************************)
(* A pool of worker threads with one job queue (util/thrdpool.c), and the  *)
(* handshake by which thrdpool_delete ends the threads before it frees     *)
(* what they share.  A job goes from runjob through the queue to a thread; *)
(* the empty job NULL makes the thread that receives it end.               *)
(*                                                                         *)
(* What a job does is left to the module that uses the pool: here Finish   *)
(* just ends it.  delwaitcond is the condition variable CondVar specifies. *)
(***************************************************************************)
EXTENDS Integers, Sequences, FiniteSets

CONSTANTS Workers,   (* the threads, set->maxthrdnum of them               *)
          Jobs,      (* the jobs ever submitted, each once                 *)
          NULL,      (* the empty job                                      *)
          QueNum     (* set->maxquenum                                     *)

ASSUME ThrdPoolAssumption ==
  /\ IsFiniteSet(Workers) /\ Workers # {}
  /\ NULL \notin Jobs \cup Workers
  /\ QueNum \in Nat \ {0}

VARIABLES que,     (* share.quehandle                                      *)
          thrd,    (* thrdinfolist[w].state, and TERMINATING in two steps  *)
          job,     (* recvbuf.job of each thread                           *)
          del,     (* where thrdpool_delete is                             *)
          sent,    (* its num: the NULL jobs it has queued                 *)
          mtx,     (* the thread that holds delwaitcondmtx, or NULL        *)
          woken    (* delwaitcond has been signalled to thrdpool_delete    *)

pool == <<que, thrd, job, del, sent, mtx, woken>>
delVars == <<del, sent, mtx, woken>>

PoolInit ==
  /\ que = <<>>
  /\ thrd = [w \in Workers |-> "WAITING"]
  /\ job = [w \in Workers |-> NULL]
  /\ del = "off" /\ sent = 0
  /\ mtx = NULL /\ woken = FALSE

HasRoom == Len(que) < QueNum
-----------------------------------------------------------------------------
(* thrdpool_runjob: the caller sleeps until the queue has room. *)
RunJob(j) ==
  /\ HasRoom
  /\ que' = Append(que, j)
  /\ UNCHANGED <<thrd, job, delVars>>

(* thrdpool_thrdmain: a thread takes a job and runs it. *)
Take(w) ==
  /\ thrd[w] = "WAITING"
  /\ que # <<>> /\ Head(que) # NULL
  /\ thrd' = [thrd EXCEPT ![w] = "RUNNABLE"]
  /\ job' = [job EXCEPT ![w] = Head(que)]
  /\ que' = Tail(que)
  /\ UNCHANGED delVars

Finish(w) ==
  /\ thrd[w] = "RUNNABLE"
  /\ thrd' = [thrd EXCEPT ![w] = "WAITING"]
  /\ job' = [job EXCEPT ![w] = NULL]
  /\ UNCHANGED <<que, delVars>>

(* It receives the delete packet, and then goes for delwaitcondmtx. *)
TakeNull(w) ==
  /\ thrd[w] = "WAITING"
  /\ que # <<>> /\ Head(que) = NULL
  /\ thrd' = [thrd EXCEPT ![w] = "leaving"]
  /\ que' = Tail(que)
  /\ UNCHANGED <<job, delVars>>

(* Mutant: no signal. *)
TerminateQuiet(w) ==
  /\ thrd[w] = "leaving" /\ mtx = NULL
  /\ thrd' = [thrd EXCEPT ![w] = "TERMINATING"]
  /\ mtx' = w
  /\ UNCHANGED <<que, job, del, sent, woken>>

Terminate(w) ==
  /\ thrd[w] = "leaving"
  /\ mtx = NULL
  /\ mtx' = w
  /\ thrd' = [thrd EXCEPT ![w] = "TERMINATING"]
  /\ woken' = (woken \/ del = "wait")
  /\ UNCHANGED <<que, job, del, sent>>

(* Its last look at what the pool shares. *)
Leave(w) ==
  /\ mtx = w
  /\ mtx' = NULL
  /\ UNCHANGED <<que, thrd, job, del, sent, woken>>
-----------------------------------------------------------------------------
(* thrdpool_delete *)
DeleteBegin ==
  /\ del = "off"
  /\ del' = "send"
  /\ UNCHANGED <<que, thrd, job, sent, mtx, woken>>

(* One NULL job for each thread. *)
SendNull ==
  /\ del = "send"
  /\ HasRoom
  /\ que' = Append(que, NULL)
  /\ sent' = sent + 1
  /\ del' = IF sent' = Cardinality(Workers) THEN "check" ELSE "send"
  /\ UNCHANGED <<thrd, job, mtx, woken>>

(* Under delwaitcondmtx: go on when every thread is TERMINATING, else      *)
(* wait.  Mutant: the loop over the threads stops at the first.            *)
AllEndedFirst == \E w \in Workers : thrd[w] = "TERMINATING"

AllEnded == \A w \in Workers : thrd[w] = "TERMINATING"

DeleteCheck ==
  /\ del = "check"
  /\ mtx = NULL
  /\ del' = IF AllEnded THEN "free" ELSE "wait"
  /\ UNCHANGED <<que, thrd, job, sent, mtx, woken>>

DeleteWake ==
  /\ del = "wait"
  /\ woken
  /\ woken' = FALSE
  /\ del' = "check"
  /\ UNCHANGED <<que, thrd, job, sent, mtx>>

(* The condition variable, its mutex, the queue and the tables are gone. *)
DeleteFree ==
  /\ del = "free"
  /\ del' = "done"
  /\ UNCHANGED <<que, thrd, job, sent, mtx, woken>>

Delete == DeleteBegin \/ SendNull \/ DeleteCheck \/ DeleteWake \/ DeleteFree
DeleteGoesOn == SendNull \/ DeleteCheck \/ DeleteWake \/ DeleteFree
WorkerEnds(w) == TakeNull(w) \/ Terminate(w) \/ Leave(w)

(* The pool with jobs that just end.  Its user submits none once it has    *)
(* called thrdpool_delete: the receive task, the only one who does, has    *)
(* ended by then.  Mutant: lte_destroy ends the threads first.             *)
SubmitLate(j) == RunJob(j)

Submit(j) == del = "off" /\ RunJob(j)

WorkerStep(w) == Take(w) \/ Finish(w) \/ WorkerEnds(w)

PoolNext ==
  \/ \E j \in Jobs : Submit(j)
  \/ \E w \in Workers : WorkerStep(w)
  \/ Delete

PoolSpec == PoolInit /\ [][PoolNext]_pool

(* The threads run, and delwaitcondmtx is held for a few statements only. *)
PoolFairSpec ==
  /\ PoolSpec
  /\ \A w \in Workers : WF_pool(WorkerStep(w))
  /\ WF_pool(DeleteGoesOn)
-----------------------------------------------------------------------------
(* The places a thread and thrdpool_delete can be in. *)
PoolTypeOK ==
  /\ que \in Seq(Jobs \cup {NULL}) /\ Len(que) <= QueNum
  /\ thrd \in [Workers -> {"WAITING", "RUNNABLE", "leaving", "TERMINATING"}]
  /\ job \in [Workers -> Jobs \cup {NULL}]
  /\ del \in {"off", "send", "check", "wait", "free", "done"}
  /\ sent \in 0..Cardinality(Workers)
  /\ mtx \in Workers \cup {NULL}
  /\ woken \in BOOLEAN

(* thrdpool_delete frees the queue, the mutex and the tables (375-378) when *)
(* no thread will look at them again and no job is left in the queue.       *)
FreedLast ==
  del = "done" => /\ \A w \in Workers : thrd[w] = "TERMINATING" /\ mtx # w
                  /\ que = <<>>

(* No thread ends unasked and none is asked twice: the NULL jobs that      *)
(* thrdpool_delete has sent (352-357) and no thread has taken are the last *)
(* ones in the queue, behind every job.                                    *)
Ended == {w \in Workers : thrd[w] \in {"leaving", "TERMINATING"}}
Untaken == sent - Cardinality(Ended)
NullForEach ==
  /\ Untaken \in 0..Len(que)
  /\ \A i \in DOMAIN que : que[i] = NULL <=> i > Len(que) - Untaken

(* thrdpool_delete comes back, and with it every thread has ended (348-379). *)
DeleteReturns == del = "send" ~> del = "done"
=============================================================================
