-------------------------------- MODULE Emux --------------------------------
(***************************************************************************)
(* One virtual port of the UART multiplexer (middleware/emux, emux.c): the *)
(* transfers that user tasks ask for with MUX_Receive_NonBlock and         *)
(* MUX_ReceiveTimeout against the receive task, which brings one byte at a *)
(* time to MUX_PortReceiveCallback.                                        *)
(*                                                                         *)
(* What the code does under rxMutex is one step: nothing in there waits.   *)
(* The accesses outside it (the event bit, rxDoneCB, rxState) are steps of *)
(* their own.  A byte is its number in the order of arrival; a task's      *)
(* buffer is the sequence of the bytes stored in it.                       *)
(***************************************************************************)
EXTENDS Integers, Sequences, FiniteSets

CONSTANTS
    Users,      \* the tasks that use the port
    BufSize,    \* ringBufferSize; 0: there is no background ring
    MaxLen,     \* bound: bytes a transfer asks for
    MaxBytes,   \* bound: bytes that arrive
    MaxCalls    \* bound: transfers begun

CONSTANT NoUser

ASSUME EmuxAssumption ==
    /\ BufSize \in Nat /\ MaxLen \in Nat /\ MaxBytes \in Nat /\ MaxCalls \in Nat
    /\ NoUser \notin Users

\* ring_buffer.c masks a position with buf_size - 1, which is its remainder only when
\* buf_size is a power of two.  MUX_Init takes any size.
ASSUME PowerAssumption == BufSize > 0 => \E k \in 0..BufSize : BufSize = 2 ^ k

VARIABLES
    target,     \* whose buffer rxTransfer.data points into
    need,       \* rxTransfer.dataSize
    doneCb,     \* whose callback rxTransfer.rxDoneCB is
    busy,       \* rxState = emux_RxBusy
    event,      \* the bit EMUX_RX_COMPLETE of rxEvent
    slots, head, tail, cnt, \* rxRingBuffer: head is the byte put last, tail the next to take
    rx,         \* the receive task: "next" byte or the next access of the callback
    pc,         \* pc[u]: where u is
    want,       \* want[u]: the length u asked for
    buffer,     \* buffer[u]: what u's buffer holds
    ret,        \* ret[u]: what u was last told: by a return or by its callback
    arrived,    \* bytes so far
    last,       \* history: the last byte that went into a buffer
    calls,      \* history: transfers begun
    clean       \* history, clean[u]: nothing of another transfer was left when u's began,
                \* and no other has begun since

transfer == <<target, need, doneCb, busy>>
users    == <<pc, want, buffer, ret>>
history  == <<last, calls, clean>>
store    == <<slots, head, tail, cnt>>
vars     == <<transfer, event, store, rx, users, arrived, history>>

RxPc == {"next", "set", "call", "clear", "idle"}
InCall == {"await", "wait", "woken", "expired", "ongoing"}  \* the buffer is the port's
Pc == {"out", "nonblock", "timed", "complete", "notify"} \union InCall

Slots == 0..(BufSize - 1)

TypeOK ==
    /\ target \in Users \union {NoUser} /\ need \in 0..MaxLen
    /\ doneCb \in Users \union {NoUser}
    /\ busy \in BOOLEAN /\ event \in BOOLEAN
    /\ slots \in [Slots -> 0..MaxBytes] /\ head \in Slots \union {-1}
    /\ tail \in Slots \union {0} /\ cnt \in 0..BufSize
    /\ rx \in RxPc
    /\ pc \in [Users -> Pc] /\ want \in [Users -> 0..MaxLen]
    /\ buffer \in [Users -> Seq(1..MaxBytes)]
    /\ ret \in [Users -> {"none", "Success", "Timeout"}]
    /\ arrived \in 0..MaxBytes /\ last \in 0..MaxBytes /\ calls \in 0..MaxCalls
    /\ clean \in [Users -> BOOLEAN]

\* After MUX_Init.
Init ==
    /\ target = NoUser /\ need = 0 /\ doneCb = NoUser /\ busy = FALSE
    /\ event = FALSE /\ rx = "next"
    /\ slots = [i \in Slots |-> 0] /\ head = -1 /\ tail = 0 /\ cnt = 0
    /\ pc = [u \in Users |-> "out"] /\ want = [u \in Users |-> 0]
    /\ buffer = [u \in Users |-> <<>>] /\ ret = [u \in Users |-> "none"]
    /\ arrived = 0 /\ last = 0 /\ calls = 0 /\ clean = [u \in Users |-> TRUE]

Smaller(m, n) == IF m < n THEN m ELSE n

-----------------------------------------------------------------------------
(* The background ring                                                     *)

Masked(i) == i % BufSize

\* circBufGetSize, and circBufFree: the last place is never used.
RingMayTake == BufSize > 1 /\ cnt # BufSize - 1

\* circBufInsert
Insert(b) ==
    /\ head' = Masked(head + 1) /\ slots' = [slots EXCEPT ![head'] = b]
    /\ cnt' = cnt + 1 /\ UNCHANGED tail

\* circBufGetChar n times: what is taken, and the ring after it.
Taken(n) == [i \in 1..n |-> slots[Masked(tail + i - 1)]]
Remove(n) ==
    /\ tail' = (IF n > 0 THEN Masked(tail + n) ELSE tail)
    /\ cnt' = cnt - n /\ UNCHANGED <<slots, head>>

-----------------------------------------------------------------------------
(* The receive task: MUX_PortReceiveCallback                               *)

\* Under rxMutex: the byte goes to the transfer, to the ring or nowhere.
RxByte ==
    /\ rx = "next" /\ arrived < MaxBytes
    /\ arrived' = arrived + 1
    /\ \/ /\ need > 0
          /\ buffer' = [buffer EXCEPT ![target] = Append(@, arrived + 1)]
          /\ need' = need - 1 /\ last' = arrived + 1
          /\ rx' = IF need = 1 THEN "set" ELSE "next"
          /\ UNCHANGED store
       \/ /\ need = 0 /\ RingMayTake
          /\ Insert(arrived + 1)
          /\ UNCHANGED <<buffer, need, last, rx>>
       \/ /\ need = 0 /\ ~RingMayTake
          /\ UNCHANGED <<buffer, need, last, rx, store>>
    /\ UNCHANGED <<target, doneCb, busy, event, pc, want, ret, calls, clean>>

\* Mutant: the callback is forgotten before it is called.
SetAndForget ==
    /\ rx = "set" /\ rx' = "call" /\ doneCb' = NoUser
    /\ event' = (\A u \in Users : pc[u] # "wait")
    /\ pc' = [u \in Users |-> IF pc[u] = "wait" THEN "woken" ELSE pc[u]]
    /\ UNCHANGED <<target, need, busy, store, want, buffer, ret, arrived, history>>

\* losMuxEventGroupSetBits: every waiting task takes the bit with it.
RxSet ==
    /\ rx = "set" /\ rx' = "call"
    /\ event' = (\A u \in Users : pc[u] # "wait")
    /\ pc' = [u \in Users |-> IF pc[u] = "wait" THEN "woken" ELSE pc[u]]
    /\ UNCHANGED <<transfer, store, want, buffer, ret, arrived, history>>

\* The callback of u: its user task is told.
Notified(u) ==
    /\ ret' = [ret EXCEPT ![u] = "Success"]
    /\ pc' = [pc EXCEPT ![u] = IF @ = "ongoing" THEN "out" ELSE @]

RxCall ==
    /\ rx = "call"
    /\ \/ doneCb # NoUser /\ rx' = "clear" /\ Notified(doneCb)
       \/ doneCb = NoUser /\ rx' = "idle" /\ UNCHANGED <<ret, pc>>
    /\ UNCHANGED <<transfer, event, store, want, buffer, arrived, history>>

RxClear ==
    /\ rx = "clear" /\ rx' = "idle"
    /\ doneCb' = NoUser
    /\ UNCHANGED <<target, need, busy, event, store, users, arrived, history>>

RxIdle ==
    /\ rx = "idle" /\ rx' = "next"
    /\ busy' = FALSE
    /\ UNCHANGED <<target, need, doneCb, event, store, users, arrived, history>>

RxTail == RxSet \/ RxCall \/ RxClear \/ RxIdle

-----------------------------------------------------------------------------
(* The user tasks                                                          *)

\* The test of rxState, before rxMutex is taken; a busy port refuses the call.
Begin(u) ==
    /\ pc[u] = "out" /\ ~busy /\ calls < MaxCalls
    /\ calls' = calls + 1
    /\ \E n \in 1..MaxLen, k \in {"nonblock", "timed"} :
         want' = [want EXCEPT ![u] = n] /\ pc' = [pc EXCEPT ![u] = k]
    /\ buffer' = [buffer EXCEPT ![u] = <<>>] /\ ret' = [ret EXCEPT ![u] = "none"]
    /\ UNCHANGED <<transfer, event, store, rx, arrived, last, clean>>

\* What the ring holds goes to the buffer first.
\* Mutant: the ring is not looked at.
NoneDrained(u) == 0
Drained(u) == Smaller(want[u], cnt)
Drain(u) ==
    /\ buffer' = [buffer EXCEPT ![u] = Taken(Drained(u))]
    /\ Remove(Drained(u))
    /\ last' = IF Drained(u) > 0 THEN Taken(Drained(u))[Drained(u)] ELSE last

\* The bookkeeping of clean when the transfer of u takes the port.
Others(u) == {v \in Users \ {u} : pc[v] # "out"}
TakesPort(u) ==
    clean' = [v \in Users |->
                IF v = u THEN Others(u) = {} /\ ~event /\ rx = "next" /\ ret[u] = "none"
                              /\ (pc[u] = "timed" => doneCb = NoUser)
                ELSE clean[v] /\ v \notin Others(u)]

\* MUX_Receive_NonBlock, under rxMutex.
NonBlock(u) ==
    /\ pc[u] = "nonblock"
    /\ target' = u /\ doneCb' = u /\ busy' = TRUE
    /\ Drain(u) /\ TakesPort(u)
    /\ need' = want[u] - Drained(u)
    /\ pc' = [pc EXCEPT ![u] = IF need' = 0 THEN "complete" ELSE "ongoing"]
    /\ UNCHANGED <<event, rx, want, ret, arrived, calls>>

\* A transfer filled from the ring: idle again, then the callback, which stays set.
NonBlockIdle(u) ==
    /\ pc[u] = "complete"
    /\ busy' = FALSE /\ pc' = [pc EXCEPT ![u] = "notify"]
    /\ UNCHANGED <<target, need, doneCb, event, store, rx, want, buffer, ret, arrived, history>>

NonBlockNotify(u) ==
    /\ pc[u] = "notify"
    /\ pc' = [pc EXCEPT ![u] = "out",
                        ![doneCb] = IF doneCb # u /\ pc[doneCb] = "ongoing" THEN "out" ELSE @]
    /\ ret' = [ret EXCEPT ![u] = "Success", ![doneCb] = "Success"]
    /\ UNCHANGED <<transfer, event, store, rx, want, buffer, arrived, history>>

\* MUX_ReceiveTimeout, under rxMutex; rxDoneCB is left as it is.
Timed(u) ==
    /\ pc[u] = "timed"
    /\ Drain(u) /\ TakesPort(u)
    /\ \/ /\ Drained(u) < want[u]
          /\ target' = u /\ need' = want[u] - Drained(u) /\ busy' = TRUE
          /\ pc' = [pc EXCEPT ![u] = "await"] /\ UNCHANGED ret
       \/ /\ Drained(u) = want[u]
          /\ target' = NoUser /\ need' = 0 /\ busy' = FALSE
          /\ pc' = [pc EXCEPT ![u] = "out"] /\ ret' = [ret EXCEPT ![u] = "Success"]
    /\ UNCHANGED <<doneCb, event, rx, want, arrived, calls>>

\* losMuxEventGroupWait: a bit that is set already is taken at once.
Await(u) ==
    /\ pc[u] = "await"
    /\ pc' = [pc EXCEPT ![u] = IF event THEN "woken" ELSE "wait"]
    /\ event' = FALSE
    /\ UNCHANGED <<transfer, store, rx, want, buffer, ret, arrived, history>>

Expire(u) ==
    /\ pc[u] = "wait"
    /\ pc' = [pc EXCEPT ![u] = "expired"]
    /\ UNCHANGED <<transfer, event, store, rx, want, buffer, ret, arrived, history>>

\* The result: the event came, or the data did after all.
\* Mutant: only the event counts.
EventCame(u) == pc[u] = "woken"
Completed(u) == pc[u] = "woken" \/ need = 0

\* The end of a transfer.
\* Mutant: the length still owed is kept.
MarkIdle == busy' = FALSE /\ UNCHANGED <<target, need>>
ReleasePort == target' = NoUser /\ need' = 0 /\ busy' = FALSE

\* MUX_ReceiveTimeout after the wait, under rxMutex.
TimedEnd(u) ==
    /\ pc[u] \in {"woken", "expired"}
    /\ ret' = [ret EXCEPT ![u] = IF Completed(u) THEN "Success" ELSE "Timeout"]
    /\ event' = FALSE
    /\ ReleasePort
    /\ pc' = [pc EXCEPT ![u] = "out"]
    /\ UNCHANGED <<doneCb, store, rx, want, buffer, arrived, history>>

User(u) ==
    \/ NonBlock(u) \/ NonBlockIdle(u) \/ NonBlockNotify(u)
    \/ Timed(u) \/ Await(u) \/ TimedEnd(u)

Next == RxByte \/ RxTail \/ \E u \in Users : Begin(u) \/ Expire(u) \/ User(u)

Spec == Init /\ [][Next]_vars

\* The receive task and the user tasks run; bytes need not come, a wait need not expire.
Fairness == WF_vars(RxTail) /\ \A u \in Users : WF_vars(User(u))
FairSpec == Spec /\ Fairness

-----------------------------------------------------------------------------
(* Properties                                                              *)

(* Bytes reach the users in the order of their arrival, each once: what is *)
(* in the ring came after everything handed out, and no byte goes past the *)
(* ring into a buffer while an older one is still in it (emux.c:80, 97-98, *)
(* 225-236, 269-279).                                                      *)
\* The bytes in the ring, oldest first.
ring == Taken(cnt)
Increasing(s) == \A i, j \in DOMAIN s : i < j => s[i] < s[j]
InOrder ==
    /\ Increasing(ring) /\ \A i \in DOMAIN ring : ring[i] > last
    /\ \A u \in Users : Increasing(buffer[u])
    /\ need > 0 => cnt = 0

(* The receive task writes only into the buffer of a call that is still in *)
(* progress, never past its end, and refuses other calls meanwhile         *)
(* (emux.c:79-80, 215-217, 262-264, 297-299): the buffer may be on the     *)
(* caller's stack.  A transfer that began while another was in progress,   *)
(* or before the receive task had come to the end of one, is excepted: its *)
(* callback may come too early.                                            *)
OwnBuffer ==
    /\ TypeOK
    /\ need > 0 /\ clean[target] =>
         /\ pc[target] \in InCall /\ busy
         /\ Len(buffer[target]) + need = want[target]

(* emux_Transfer_Success, from a return or from the callback, means that   *)
(* all the bytes asked for are in the buffer, and emux_Transfer_Timeout    *)
(* that they are not (emux.c:84-91, 281-292), also when the time-out races *)
(* with the last byte; for a transfer that found nothing left of another   *)
(* one: a set event bit, a callback, a receive task not yet at its end.    *)
TruthfulWhenClean ==
    \A u \in Users :
      clean[u] /\ pc[u] = "out" /\ ret[u] # "none"
        => (ret[u] = "Success" <=> Len(buffer[u]) = want[u])

(* The callback of a transfer whose last byte has come is called           *)
(* (emux.c:89-92), if the transfer began clean.                            *)
DoneIsTold ==
    \A u \in Users :
      (pc[u] = "ongoing" /\ Len(buffer[u]) = want[u]) ~> (pc[u] = "out" \/ ~clean[u])

(* The interface's promise without the exception: "Receive data on the     *)
(* dedicated virtual port into buffer for the specified length"            *)
(* (emux.h:172), and emux_Transfer_Success is the "Result code on success" *)
(* (emux.h:55).                                                            *)
SuccessIsFull ==
    \A u \in Users : pc[u] = "out" /\ ret[u] = "Success" => Len(buffer[u]) = want[u]
=============================================================================
