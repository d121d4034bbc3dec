------------------------------- MODULE Serial -------------------------------
(***************************************************************************)
(* One UART of the serial driver (devices/ALT125X/serial/serial.c) with    *)
(* its two ring buffers (circ_buf.c).                                      *)
(*                                                                         *)
(* Receiving: the interrupt empties the UART's FIFO into the ring and      *)
(* stops the sender (throttle) when little room is left; the task          *)
(* serial_rx_thread takes the bytes out and lets the sender go on.  They   *)
(* share head, tail and cnt without a lock, so every access of the task is *)
(* a step.  The receive part and the transmit part of the handler share    *)
(* nothing and are actions of their own.                                   *)
(*                                                                         *)
(* Sending, in the non-blocking mode: a writer fills the FIFO and then the *)
(* ring in a critical section, the transmit interrupt goes on from the     *)
(* ring while the hardware takes bytes out of the FIFO.                    *)
(*                                                                         *)
(* A byte is its number in the order of arrival or of writing.             *)
(***************************************************************************)
EXTENDS Integers, Sequences

CONSTANTS
    RxSize,     \* buf_size of recvBuffer, a power of two
    Headroom,   \* 16: the room at which the sender is stopped
    Watermark,  \* bytes in the FIFO at which the UART itself stops the sender
    Slack,      \* bytes that the sender still sends when it is stopped
    TxSize,     \* buf_size of xmitBuffer, a power of two
    TxDepth,    \* size of the transmit FIFO
    TxLevel,    \* falling to this level raises the transmit interrupt
    MaxWrite,   \* MAX_WRITE_CHAR_TO_TX_FIFO
    MaxSlip,    \* bytes the hardware takes out while the interrupt writes
    Loads       \* bound: pairs of how many bytes arrive and how many are written

ASSUME SerialAssumption ==
    /\ RxSize \in Nat /\ Headroom \in Nat \ {0} /\ Watermark \in Nat \ {0} /\ Slack \in Nat
    /\ TxSize \in Nat \ {0} /\ TxDepth \in Nat /\ TxLevel \in Nat
    /\ MaxWrite \in Nat /\ MaxSlip \in Nat
    /\ Loads \subseteq Nat \X Nat

\* What the source relies on: the room left when the sender is stopped takes what
\* is still on its way, the ring is larger than that, and an interrupt writes more
\* than the hardware takes out meanwhile, by more than the level.
ASSUME MarginAssumption ==
    /\ Watermark + Slack <= Headroom /\ Headroom < RxSize
    /\ TxLevel < TxDepth /\ TxLevel + MaxSlip < MaxWrite

\* circ_buf.c masks a position with buf_size - 1, which is its remainder because
\* buf_size is a power of two: 2048, or a size of which the ioctl makes sure (serial.c:168,
\* 749, 764).
ASSUME PowerAssumption ==
    /\ \E k \in 0..RxSize : RxSize = 2 ^ k
    /\ \E k \in 0..TxSize : TxSize = 2 ^ k

VARIABLES
    rxLeft,     \* bytes still to arrive
    came,       \* number of the last byte that arrived
    rxFifo,     \* the receive FIFO of the UART
    sneaked,    \* bytes sent since the sender was stopped
    open,       \* RTS is enabled: not throttled
    buf, head, tail, cnt,   \* recvBuffer
    ind,        \* an indication waits in xQueue_input
    task,       \* serial_rx_thread: its next access
    char,       \* the byte it holds
    got,        \* the last byte handed to serialRxProcess
    lost,       \* history: a byte found no place
    stale,      \* history: the sender was let go on although room was short again
    txLeft,     \* bytes still to be written
    xmit,       \* xmitBuffer
    txFifo,     \* the transmit FIFO
    wrote,      \* number of the last byte accepted for sending
    sent,       \* number of the last byte on the line
    txi,        \* the transmit interrupt is raised
    isr,        \* writes of the transmit interrupt so far; -1: it is not running
    slip        \* bytes the hardware took out during it

rxRing == <<buf, head, tail, cnt>>
rx == <<rxLeft, came, rxFifo, sneaked, open, rxRing, ind, task, char, got, lost, stale>>
tx == <<txLeft, xmit, txFifo, wrote, sent, txi, isr, slip>>
vars == <<rx, tx>>

RxSlots == 0..(RxSize - 1)
TaskPc == {"wait", "test", "count", "room", "open", "deliver"}

TypeOK ==
    /\ rxLeft \in Nat /\ came \in Nat /\ rxFifo \in Seq(Nat) /\ sneaked \in 0..Slack
    /\ open \in BOOLEAN
    /\ buf \in [RxSlots -> Nat] /\ head \in RxSlots /\ tail \in RxSlots /\ cnt \in RxSlots
    /\ ind \in BOOLEAN /\ task \in TaskPc /\ char \in Nat /\ got \in Nat
    /\ lost \in BOOLEAN /\ stale \in BOOLEAN
    /\ txLeft \in Nat /\ xmit \in Seq(Nat) /\ txFifo \in Seq(Nat)
    /\ wrote \in Nat /\ sent \in Nat
    /\ txi \in BOOLEAN /\ isr \in -1..MaxWrite /\ slip \in 0..MaxSlip

Init ==
    /\ \E l \in Loads : rxLeft = l[1] /\ txLeft = l[2]
    /\ came = 0 /\ rxFifo = <<>> /\ sneaked = 0 /\ open = TRUE
    /\ buf = [i \in RxSlots |-> 0] /\ head = 0 /\ tail = 0 /\ cnt = 0
    /\ ind = FALSE /\ task = "wait" /\ char = 0 /\ got = 0 /\ lost = FALSE /\ stale = FALSE
    /\ xmit = <<>> /\ txFifo = <<>> /\ wrote = 0 /\ sent = 0
    /\ txi = FALSE /\ isr = -1 /\ slip = 0

\* No interrupt is running: a task may run, another interrupt may begin.
NoIsr == isr = -1

-----------------------------------------------------------------------------
(* Receiving                                                               *)

\* A byte arrives (external): the sender is let to, or has not noticed yet.
MaySend == open /\ Len(rxFifo) < Watermark
RxArrive ==
    /\ rxLeft > 0 /\ (MaySend \/ sneaked < Slack)
    /\ rxLeft' = rxLeft - 1 /\ came' = came + 1
    /\ rxFifo' = Append(rxFifo, came + 1)
    /\ sneaked' = IF MaySend THEN 0 ELSE sneaked + 1
    /\ UNCHANGED <<open, rxRing, ind, task, char, got, lost, stale, tx>>

\* putCharOnSwRecvBuff throttles when the room is down to the headroom.
\* Mutant: it waits for one place less.
ShortLate(n) == RxSize - n < Headroom
Short(n) == RxSize - n <= Headroom

\* The receive part of the interrupt: the FIFO is emptied, byte by byte with
\* putCharOnSwRecvBuff; the last place of the ring stays free, what does not fit is
\* lost.  Room only shrinks meanwhile, so the last byte inserted decides on throttle.
\* The port has RTS flow control (UART_HWCONTROL_RTS): without it throttle does nothing.
\* Mutant: the last place is used too, so that a full ring looks empty.
FitsAll == IF Len(rxFifo) < RxSize - cnt THEN Len(rxFifo) ELSE RxSize - cnt
Fits == LET free == RxSize - 1 - cnt IN IF Len(rxFifo) < free THEN Len(rxFifo) ELSE free
RxIsr ==
    /\ NoIsr /\ rxFifo # <<>>
    /\ buf' = [i \in RxSlots |->
                 LET k == ((i - head) % RxSize) + 1 IN IF k <= Fits THEN rxFifo[k] ELSE buf[i]]
    /\ head' = (head + Fits) % RxSize /\ cnt' = cnt + Fits
    /\ open' = (open /\ ~(Fits > 0 /\ Short(cnt + Fits)))
    /\ lost' = (lost \/ Fits < Len(rxFifo))
    /\ rxFifo' = <<>> /\ ind' = TRUE
    /\ UNCHANGED <<rxLeft, came, sneaked, tail, task, char, got, stale, tx>>

\* waitForIsrInd takes an indication.
TaskWake ==
    /\ NoIsr /\ task = "wait" /\ ind
    /\ ind' = FALSE /\ task' = "test"
    /\ UNCHANGED <<rxLeft, came, rxFifo, sneaked, open, rxRing, char, got, lost, stale, tx>>

\* processSerialRxGetChar: serialCircBufIsdata, which is true of an empty ring, then
\* serialCircBufGetChar up to its count.
TaskTest ==
    /\ NoIsr /\ task = "test"
    /\ \/ tail = head /\ task' = "wait" /\ UNCHANGED <<char, tail>>
       \/ tail # head /\ task' = "count" /\ char' = buf[tail] /\ tail' = (tail + 1) % RxSize
    /\ UNCHANGED <<rxLeft, came, rxFifo, sneaked, open, buf, head, cnt, ind, got, lost, stale,
                   tx>>

TaskCount ==
    /\ NoIsr /\ task = "count"
    /\ cnt' = cnt - 1 /\ task' = "room"
    /\ UNCHANGED <<rxLeft, came, rxFifo, sneaked, open, buf, head, tail, ind, char, got, lost,
                   stale, tx>>

TaskRoom ==
    /\ NoIsr /\ task = "room"
    /\ task' = IF RxSize - cnt > Headroom THEN "open" ELSE "deliver"
    /\ UNCHANGED <<rxLeft, came, rxFifo, sneaked, open, rxRing, ind, char, got, lost, stale, tx>>

\* unthrottle: an interrupt may have throttled since the room was looked at.
\* Mutant: RTS is not given back.
TaskOpenForgotten ==
    /\ NoIsr /\ task = "open"
    /\ task' = "deliver"
    /\ UNCHANGED <<rxLeft, came, rxFifo, sneaked, open, rxRing, ind, char, got, lost, stale, tx>>

TaskOpen ==
    /\ NoIsr /\ task = "open"
    /\ open' = TRUE /\ stale' = (stale \/ Short(cnt)) /\ task' = "deliver"
    /\ UNCHANGED <<rxLeft, came, rxFifo, sneaked, rxRing, ind, char, got, lost, tx>>

\* serialRxProcess is called with the byte.
TaskDeliver ==
    /\ NoIsr /\ task = "deliver"
    /\ got' = char /\ task' = "test"
    /\ UNCHANGED <<rxLeft, came, rxFifo, sneaked, open, rxRing, ind, char, lost, stale, tx>>

RxTask == TaskWake \/ TaskTest \/ TaskCount \/ TaskRoom \/ TaskOpen \/ TaskDeliver

-----------------------------------------------------------------------------
(* Sending                                                                 *)

\* hw_serial_putc_with_XmitBuf goes past the ring only when the ring is empty.
\* Mutant: never, the interrupt is left to begin.
PastRingNever == FALSE
PastRing == xmit = <<>> /\ Len(txFifo) < TxDepth

\* hw_serial_putc_with_XmitBuf, a critical section; a byte for which there is no place
\* is refused, and serialUartDriverWrite returns how far it came.
TxWrite ==
    /\ NoIsr /\ txLeft > 0
    /\ txLeft' = txLeft - 1
    /\ \/ /\ PastRing
          /\ txFifo' = Append(txFifo, wrote + 1) /\ wrote' = wrote + 1 /\ UNCHANGED xmit
       \/ /\ ~PastRing /\ Len(xmit) # TxSize - 1
          /\ xmit' = Append(xmit, wrote + 1) /\ wrote' = wrote + 1 /\ UNCHANGED txFifo
       \/ /\ ~PastRing /\ Len(xmit) = TxSize - 1
          /\ UNCHANGED <<xmit, txFifo, wrote>>
    /\ UNCHANGED <<rx, sent, txi, isr, slip>>

\* The hardware takes a byte out (external); falling to the level is what raises the
\* interrupt, being below it does not.
TxShift ==
    /\ txFifo # <<>> /\ (NoIsr \/ slip < MaxSlip)
    /\ sent' = Head(txFifo) /\ txFifo' = Tail(txFifo)
    /\ txi' = (txi \/ Len(txFifo) = TxLevel + 1)
    /\ slip' = IF NoIsr THEN slip ELSE slip + 1
    /\ UNCHANGED <<rx, txLeft, xmit, wrote, isr>>

\* The transmit part of the interrupt: it is cleared first.
TxIsrBegin ==
    /\ NoIsr /\ txi
    /\ txi' = FALSE /\ isr' = 0 /\ slip' = 0
    /\ UNCHANGED <<rx, txLeft, xmit, txFifo, wrote, sent>>

\* processSerialTxIsrInd moves at most MaxWrite bytes.
MayMove == isr < MaxWrite /\ Len(txFifo) < TxDepth /\ xmit # <<>>
TxIsrMove ==
    /\ ~NoIsr /\ MayMove
    /\ txFifo' = Append(txFifo, Head(xmit)) /\ xmit' = Tail(xmit) /\ isr' = isr + 1
    /\ UNCHANGED <<rx, txLeft, wrote, sent, txi, slip>>

TxIsrEnd ==
    /\ ~NoIsr /\ ~MayMove
    /\ isr' = -1
    /\ UNCHANGED <<rx, txLeft, xmit, txFifo, wrote, sent, txi, slip>>

TxIsr == TxIsrBegin \/ TxIsrMove \/ TxIsrEnd

-----------------------------------------------------------------------------
Next == RxArrive \/ RxIsr \/ RxTask \/ TxWrite \/ TxShift \/ TxIsr

Spec == Init /\ [][Next]_vars

\* Interrupts are taken, the task runs, the line moves; nobody has to write.
Fairness ==
    /\ WF_vars(RxArrive) /\ WF_vars(RxIsr) /\ WF_vars(RxTask)
    /\ WF_vars(TxShift) /\ WF_vars(TxIsr)
FairSpec == Spec /\ Fairness

-----------------------------------------------------------------------------
(* Properties                                                              *)

\* The bytes in the receive ring, oldest first.
InRing == [i \in 1..((head - tail) % RxSize) |-> buf[(tail + i - 1) % RxSize]]
Rising(s) == \A i, j \in DOMAIN s : i < j => s[i] < s[j]

(* Bytes pass in order and each at most once.  Received: though interrupt  *)
(* and task share the ring without a lock (circ_buf.c:72-85), what is in   *)
(* the FIFO, in the ring and in the task's hand is younger than what was   *)
(* delivered, and the counter never says less than the ring holds.  Sent:  *)
(* the FIFO and the ring behind it are filled by tasks and by the          *)
(* interrupt (serial.c:370-391, 553-581).                                  *)
InOrder ==
    /\ TypeOK
    /\ Rising(<<sent>> \o txFifo \o xmit)
    /\ Rising(<<got>> \o (IF task \in {"count", "room", "open", "deliver"} THEN <<char>> ELSE <<>>)
                     \o InRing \o rxFifo)
    /\ cnt = ((head - tail) % RxSize) + (IF task = "count" THEN 1 ELSE 0)

(* "there are 16 bytes in the hardware FIFO. Throttle in advance in case   *)
(* hardware FIFO is full" (serial.c:526-527): no byte finds the ring full, *)
(* as long as the task has not undone a throttle that the interrupt made   *)
(* between the task's look at the room and its write (serial.c:513-516).   *)
NoneLost == lost => stale

(* A byte waiting in the transmit ring is never forgotten: the FIFO will   *)
(* still fall to the level that raises the interrupt, or the interrupt is  *)
(* raised or running (serial.c:370-391, 564-581, 671-680).                 *)
TxGoesOn == xmit # <<>> => Len(txFifo) > TxLevel \/ txi \/ ~NoIsr

(* When the traffic ends everything has been delivered and sent, and the   *)
(* sender is not left stopped (serial.c:509-520).                          *)
Settles ==
    <>[](/\ rxLeft = 0 /\ rxFifo = <<>> /\ head = tail /\ task = "wait" /\ open
         /\ xmit = <<>> /\ txFifo = <<>>)
=============================================================================
