# A TLA+ verification project for the Adrastea MCU software

The repository is the MCU side of an ALT125x (Adrastea) LTE modem module: an SDK
with drivers, middleware and a sensor demonstration.  Most of its 963 files are
vendored (CMSIS, FreeRTOS, lwIP, ntshell, printf, sensor drivers) or generated
(register headers).  This project is about the SDK's own core logic, the places
where tasks, interrupts, the modem and the flash meet: `middleware/altcomlib`
first (how an application talks to the modem), then the key-value store, the host
interface protocol, the UART multiplexer, the flash log and the power manager.
Paths below are relative to `src/`.

## The system

```
 application tasks                callbacks (one worker thread)
   | lte_*, altcom_*  API           ^
   v                                | job queue      util/thrdpool.c
 apicmdgw_send                   evthdlbs_runjob
   |  gateway state (echo test)     ^  evtdisp_dispatch
   |  wait table                    |
   |          <--- writetable --- apicmdgw_recvtask (one task)
   v                                ^
 hal_if->send                    hal_if->recv / abortrecv
   +------------> modem ------------+   (UART, EMUX or SPI)

 below all of it: osal.c (tasks, mutexes, condition variables), buffpool.c
```

### Inventory

| component | state it keeps | operations | meets | what is hard | what makes it correct |
|---|---|---|---|---|---|
| **condition variables** `altcomlib/osal/openrtos/osal.c` | `cond_mutex`, `num_waiting`, a bounded queue of tokens | wait, timedwait, signal, broadcast | everything that sleeps in altcomlib | a condition variable made of a queue: tokens outlive the waiter they were sent for, timeouts race signals, a sender can block | the mutex stays exclusive through a wait; the count is exact; a signal or broadcast covers the waiters |
| **buffer pool** `util/buffpool.c` | free and used lists and counters per size class, one mutex, one condition variable | `buffpool_alloc`, `buffpool_free` | every command and frame | one signal for all classes; a woken task finds its buffer taken | one owner per buffer, counters agree with the lists, nobody sleeps on a free buffer |
| **wait table** `gw/apicmdgw.c` | `g_blkinfotbl`, an entry on each caller's stack, the transaction id | send and wait, write an answer, release all | callers, receive task, `apicmdgw_fin` | answer against timeout, answer before `send` returns, late answers, `fin` and a new `init` under a running call | an entry is in the table exactly while its owner is in the call; no answer is lost; an answer is that command's |
| **gateway state** `gw/apicmdgw.c` | `g_apicmdgwState`, the echo task | start the echo test, wait for it, finish, finalize | callers, echo task, receive task | the receive task may wait for what only it can receive; echo tasks survive `fin` | nobody sleeps for nothing; in the first initialization commands pass only after an echo; the wait ends unless the echo task is missing |
| **receive task** `gw/apicmdgw.c`, `evtdisp/*.c`, HAL | receive buffer, abort flag, list of postponed events | receive, dispatch, postpone, replay, end | modem, callbacks, `altcom_app_ready`, `altcom_finalize` | one flag for two requests, the cycle receive task - job queue - callback - receive task | order of callbacks, nothing before the application is ready, everything ends |
| **thread pool** `util/thrdpool.c` | job queue, threads' states | `runjob`, `delete` | receive task, callbacks | freeing what the last thread has just used | threads end first, one NULL job each |
| **key-value store** `middleware/kvpfs` | mirror in RAM, list of new values, two flash banks | set, get, save, compaction, boot, stateful wake-up | application, flash | loss of power at any point, a flash that only clears bits, a list with a stale tail pointer | one place per key, what was saved is found, a boot finds the old or the new contents |
| **life cycle** `altcom/builder`, `util/director.c`, `util/apiutil.h` | the flag `g_altcom_initialized`, what has been built so far, whose mutex the log uses | `altcom_initialize`, `altcom_app_ready`, `altcom_finalize` | all of altcomlib | a step that fails in the middle, calls from two tasks, parts taken away under tasks that use them | what was built is undone, once, in the opposite order; between calls the library is there as a whole or not at all |
| **API calls** `altcom/api` | callback tables | some hundred commands | gateway, dispatcher | callbacks replaced while events are under way | an event goes to the callback registered |
| **multiplexer** `middleware/emux` | one receive transfer per virtual port, a ring, framing state | receive with callback or timeout, send, parse | application tasks, mux receive task | completion outside of the mutex, a stale event bit, a timeout racing the last byte | a transfer completes once, with its own bytes; nothing is written into a buffer whose call is over |
| **host interface** `middleware/hifc` | state of the interface, state of the protocol, two timers, two mailbox counters | suspend, resume, resume by the modem, permission to send | timer task, interrupt of the modem, writers of the serial driver | timeouts in the middle of a handshake, both sides at once, an interrupt inside a timer callback | the link can always come up again, a granted writer finds it up, an idle one is taken down |
| **power and sleep manager** `devices/ALT125X/pm` | busy bits, callbacks, notifications | busy, idle, sleep, wake up | drivers, the idle task, the host interface | deciding to sleep while an interrupt makes a task ready | no sleep with work to do, and none that the modem cannot end |
| **serial driver** `devices/ALT125X/serial` | two ring buffers, flow control | send, receive | interrupt, tasks | one producer and one consumer without a lock, a transmit interrupt raised by an edge | no byte lost, twice or out of order; sending goes on |
| **flash log** `middleware/sfplogger` | a ring of entries of several sizes | append, find the first | any task | fillers between entries of different sizes, the end of the ring | the ring is always a sequence of whole entries |
| other drivers, start-up, console, demonstration, vendored code | | | | hardware registers, input and output | not planned |

`PROJECT.json` lists the hazards of this code, each at the line where it bites,
with the properties that would catch it or the reason why none does yet.

## The modules

| module | models | composed of | checked by | proved in |
|---|---|---|---|---|
| `Monitor` | what a mutex with a condition variable promises (abstract) | | as a property of `condvar` | |
| `CondVar` | `osal.c` 184-532 | refines `Monitor` | `condvar` | `CondVarProofs` |
| `BuffPool` | `buffpool.c` | extends `Monitor` | `buffpool`, `buffpool_lost_wakeup` | `BuffPoolProofs` |
| `BlockTbl` | wait table of `apicmdgw.c` | | `blocktbl` | `GatewayProofs` |
| `GwState` | state machine and echo task of `apicmdgw.c` | | `gwstate` | `GatewayProofs` |
| `ThrdPool` | `thrdpool.c` | | `thrdpool` | `LifeProofs` |
| `RecvTask` | receive task, HAL buffer, callbacks, `altcom_app_ready`, `apicmdgw_fin` | extends `ThrdPool` | `life` | `LifeProofs` |
| `Builder` | `altcombuilder.c`, `altcom_initialize.c`, `altcom_finalize.c`, `apiutil.h` | | `life` | `LifeProofs` |
| `Life` | `director.c`, `lte_destroy` with the parts it ends | extends `RecvTask`, instance of `Builder` | `life` | `LifeProofs` |
| `Kvpfs` | `kvpfs.c`, `flash_mirror.c`, `list_data.c` | | `kvpfs`, `kvpfs_freed_tail` | `KvpfsProofs` |
| `Hifc` | `hifc_api.c` in mode b, `hifc_mi.c` | | `link` | |
| `Link` | the idle task's decision in `pwr_mngr.c` and `alt125x_tickless_sleep.c` | extends `Hifc` | `link` | `LinkProofs` |
| `Serial` | interrupt, receive task and sending of `serial.c`, `circ_buf.c` | | `serial` | `SerialProofs` |
| `Emux` | the receive side of `emux.c` | | `emux` | `EmuxProofs` |

`MC<module>.tla` instantiates a module for TLC and `MC<module>*.cfg` are its runs.
A definition whose name is that of another with a suffix (`WriteEntryMute`,
`SignalTokensAlways`) and whose comment says "Mutant" is a plausible mistake in
the code; it is used by no specification, only to show that a property notices it.

### CondVar and Monitor

FreeRTOS has no condition variables.  `__altcom_sys_thread_cond_wait` counts the
caller in `num_waiting`, unlocks, receives a token from a queue of length 10, locks
again and counts down; `signal` and `broadcast` send one token or `num_waiting`
tokens while they hold `cond_mutex`.  `CondVar` has one action per statement that
touches something shared, `pc[t]` being the line a task has reached; the caller's
discipline is the one altcomlib keeps (wait, signal and broadcast under the mutex,
a signal as the last thing before the unlock).

`Monitor` is the specification the other modules rely on: signals are permits that
stay until some waiter takes them.  It is honest about what the layer does not give:
a wake-up may be spurious, because `num_waiting` stays up between the wake-up and
the decrement and a signal in that window leaves a permit for nobody.  The refinement
maps `waiting` to the tasks blocked on the queue, `woken` to those that have not
locked again, `permits` to the tokens.

### BuffPool

`buffpool_alloc` takes from the smallest class that fits and has a free buffer, else
waits; `buffpool_free` puts the buffer back and signals once.  Both are split at the
mutex, since the owner of the mutex may be preempted; the mutex and condition
variable are `Monitor`'s operations.  `holder` is a history variable: which task uses
a buffer.  A task holds at most `MaxHeld` buffers, a bound.

### BlockTbl

A call of `apicmdgw_send`, from the transaction id to the return value, with a step
for each lock it takes and for each place where it reads `g_isinit` or the result
without one.  The modem answers any command it has got, in any order, or never; it
sends events with numbers of its own; an answer may not fit the buffer.
`apicmdgw_fin` is five steps and may be followed by a new `apicmdgw_init` while old
calls are still inside.  What such a call meets, a deleted mutex and a null
`g_hal_if`, is `Perish`: the caller may stop for ever or be lucky.
Assumed: the 2^16-1 transaction ids do not come round during one call, and the
modem answers a command before its id is used again, or never (`InUse` and the
clean-up in `AllocCmd`).

### GwState

The state machine INIT, ECHO_TESTING, COMPLETED, FIN of `apicmdgw_send` with the
echo task of every initialization (an old one may still run in the next), the error
report of the receive task, and `apicmdgw_fin`.  Every step is one critical section
of `g_stateCondMtx` or touches one shared variable.  The creation of the echo task may
fail (`failed`); the state is ECHO_TESTING then and nobody tests.

### ThrdPool and RecvTask

`ThrdPool` has the job queue, the threads (`thrd[w]`) and `thrdpool_delete`
(`del`), which sends as many NULL jobs as there are threads, waits until all of them
say TERMINATING and frees what they share.  TERMINATING is two steps, since a thread
still owns `delwaitcondmtx` when it has written its state.

`RecvTask` extends it with the rest of the receive side.  A frame is one element
instead of bytes: an event, or the answer to the command that an event's callback has
sent.  The HAL's buffer holds `HalMax` frames, what finds it full is lost.  `abort` is
`g_abort_type`, one variable for `altcom_app_ready` (AGAIN) and for `apicmdgw_fin`
(TERMINATE).  `replay` is the list of postponed events.  `arrived` and `begun` are
history.  A callback's command is taken to have a timeout; see "What is not shown".
The receive task is taken to run as soon as the gateway exists (`g_isTaskRun`): its
priority is higher than that of the tasks that initialize.

### Builder and Life

`Builder` has one step per part that `lte_buildmain` builds (the log's mutex, buffer
pool, thread factory, dispatcher, HAL, gateway).  Each may fail, as a whole; `Back` is
the label the failure jumps to, and from there the labels fall through.  `Finalize`
and `DestroyPart` are `altcom_finalize` and `lte_destroy`, which stops at a part that
is not there.  `call[c]` is where a task is in either call, and `logMtx` is the value
of `DbgIf_GetLogMtx` together with `local_logmtx`: none, one's own, or the
application's, which stays after `altcom_finalize` and serves the next
`altcom_initialize` too.  `Crossing` says whether `altcom_initialize` and
`altcom_finalize` may run into each other.

`Life` joins the two: the HAL receives while it exists, the receive task runs once the
gateway has been built, `apicmdgw_fin` and `thrdpool_delete` are the steps of
`lte_destroy` for the gateway and the threads, and the other parts go in between.
Attempts to initialize may fail any number of times; the lifetime that succeeds is
followed to its end and no further one begins, since the histories of `RecvTask` are
of one lifetime (`GwState` and `BlockTbl` have the second one).

### Kvpfs

The mirror, the list and the two banks are sequences of slots, a slot being one
`key=value` string, a zeroed string, erased flash or a CRC, which stands for the very
contents it is computed from.  Flash writes can only clear bits
(`g_sf_do_AND_for_write`): `And` says what two strings on top of each other give.  A
loss of power leaves any part of an erasure (sector by sector) and of a write (slot by
slot, the last one torn) done.  `adrift` and `lost` model `cur` of `list_data.c`,
which is not reset when the node it points to is freed: the next new key is linked
behind freed memory and is not found again.  History variables: `env`, what the calls
made should have the store contain; `outcomes`, what the next boot may find; `paired`,
whether the two banks were equal when the save began; `slipped`, whether a key was
linked behind a freed node.  Memory for the list does not run out.  `CrcKeys` are the
keys that begin with "CRC", other than that key itself, which `set_env` refuses: a
compaction drops them (`Survives`).  A loss of power while a broken bank is restored from
the other one leaves any part of it too, the last string torn (`HalfCopied`).

### Hifc and Link

The MCU raises `h2m` to bring the link up and lowers it to take it down; the modem
answers with `m2h` and may raise it on its own.  The handler of `m2h` (`M2hIsr`) is
one step, and so is `request_to_send`, a critical section.  The callbacks of the two
timers run in the timer task and can be interrupted between any two accesses; `tpc` is
the next one.  The inactivity time is `Sections` periods of 50 ms (100 in the default
configuration).  Timer commands posted from an interrupt take effect at once; a timer
that expires in spite of a stop is one whose expiry was decided before.

`Link` adds the idle task: `cpu` is "checked" between `pwr_check_allow2sleep`, done
with interrupts enabled, and `eTaskConfirmSleepModeStatus`, done without.  An
interrupt or the time ends the sleep.

History: `torn` says that an interrupt or a writer moved the machine in the middle of
a timer callback that moves it too; `misread`, that a suspend took a resume completed
meanwhile for its own end; `quiet` counts periods since the last grant;
`overtakes` bounds how often the protocol timer fires before an answer that was on its
way, and how often the modem raises `m2h` again before its decrement was taken.

### Serial

Receiving: the interrupt (`RxIsr`) moves the FIFO into the ring and stops the sender
when at most `Headroom` (16) bytes of room are left.  `serial_rx_thread` takes a byte
out in five accesses, since head, tail and count are shared without a lock.  The
sender, once stopped, still sends `Slack` bytes at most.  Sending is the non-blocking
mode: a writer fills the FIFO and then the ring, and the transmit interrupt moves up
to `MaxWrite` bytes when the FIFO *falls to* `TxLevel`.  `MarginAssumption` is what
the source's numbers rely on; that the sizes of the rings are powers of two, as the masks
of `circ_buf.c` need, is tested by the ioctl that sets them (`PowerAssumption`).  RTS flow control is taken to be on, without which the
driver never throttles (`serial.c:491`, 502).  History: `lost`; `stale`, the task opened the flow
although an interrupt had filled the ring after the task's look at the room.

### Emux

A virtual port has one receive transfer: a buffer, the length still missing, a
callback or an event bit.  Steps under `rxMutex` are atomic; the event bit, `rxDoneCB`
and `rxState` are also read and written outside of it, in steps of their own (`rx`,
`pc`).  A byte is its number.  The ring is that of `ring_buffer.c`: slots, the byte put
last, the next to take and a count, with positions that wrap (`Masked`).  The masks are
remainders only when `BufSize` is a power of two, which `PowerAssumption` says and the
code does not check.  `clean[u]` says that nothing of another transfer was
left when u's began: no event bit, no callback, no receive task that had still to
clear them, no second transfer since.

## The runs

| run | instance | shows |
|---|---|---|
| `condvar` | 3 tasks, queue of 2 tokens (10 in the code) | exact count, what signal and broadcast owe, refinement of `Monitor`; 2 < 3 makes a full queue, stale tokens and racing timeouts occur |
| `buffpool` | 4 tasks, 3 classes of one buffer, a request that two of them satisfy and one that none does | counters, ownership, nobody sleeps on a free buffer when all sleepers want the same |
| `buffpool_lost_wakeup` | 4 tasks, two classes | **violated**: the one signal of a freed small buffer wakes the task that waits for a large one |
| `blocktbl` | 2 callers, 3 calls, 2 ids, one `fin`, one new `init` | entries live as long as their calls, no answer lost or misrouted; late, stray and oversize answers, timeouts; ids wrap within the run |
| `gwstate` | one application task, the receive task, 3 tries, two initializations | nobody stranded, the echo decides; under fairness sleepers leave and `apicmdgw_fin` returns |
| `thrdpool` | 3 threads, 2 jobs, queue of 2 | freed last, one NULL each, `thrdpool_delete` returns; more NULL jobs than places in the queue |
| `life` | 2 tasks that initialize and finalize, one of them with a mutex for the log; 3 events, 2 of them postponable, HAL and job queue of 1, one thread (as in the code) | the library is whole or absent between calls, callbacks begin in the order of arrival and none before the application is ready, no part goes before the tasks that use it, callbacks go on, events run, `altcom_finalize` returns |
| `kvpfs` | 2 keys, one of them beginning with CRC, 2 values, 5 slots, 2 losses of power | one home per key, get is set, saves are durable, boots find old or new |
| `kvpfs_freed_tail` | the same without losses of power and CRC keys | **violated**: a key set after the tail of the list was deleted is not found |
| `link` | one writer, inactivity of 2 periods, 2 overtakings | sleep can be ended and hides no work, lines agree with the state, an interface that is up is watched, a grant holds; writers and the modem are served |
| `serial` | receive ring of 4 with 2 kept free, transmit ring of 4, FIFO of 3, both directions loaded | order, no loss while the flow control is not undone, sending goes on, everything settles |
| `emux` | 2 tasks, ring of 4 slots, of which 3 are used, 3 transfers of up to 2 bytes, 5 bytes | order, no write into a finished call's buffer, true results for clean transfers, callbacks are called |

The runs marked violated are findings, each with the line of the documentation or
comment it contradicts in `PROJECT.json`.  The type invariants are parts of
`TableIsLive`, `NobodyStranded`, `UsedPartsExist`, `OneHome`, `OwnBuffer`, `InOrder` of
`Serial` and `LinesAgree`; those of `CondVar`, `BuffPool` and `ThrdPool` are proved.

### Bounds, and why they are enough

* `Threads`, `Clients`, `Senders`, `Workers`: each task of a component runs the same
  code, and the hazards need at most two that race and one that interferes.
* `QueCap`, `PermitCap`, `QueNum`, `HalMax`, `Slots`: capacities; each run has one
  small enough to be full and to be empty.  Slots is 5: two sectors, and room for
  two keys, a zeroed string, an old and a new CRC, so that compaction is needed.
* `MaxCalls` = 3, `MaxId` = 2: one call late, one in time, and the ids wrap.
* `MaxFins`, `MaxInits`, `MaxEpochs`, `MaxCrashes`, `MaxLost`, `MaxHeld`: repetitions; a second
  initialization and a second loss of power are the ones that meet the leftovers of
  the first.
* `RetryCnt` = 3: a first, a middle and a last try (5 in the code).
* `Callers` = 2: one call under way and one that is refused or comes next.  The HAL
  buffer, the receive task, the postponed list, the job queue and the thread can each
  hold an event, so three events are enough for every overtaking of one by another.
* `Sections` = 2: a period that does not end the inactivity time and one that does.
  `MaxOvertakes` = 2: one timeout leaves the state in which the second one meets it.
* `RxSize`, `Headroom`, `Watermark`, `Slack`, `TxDepth`, `TxLevel`, `MaxWrite`: the
  smallest numbers that satisfy `MarginAssumption` and let rings and FIFOs be full and
  wrap around.  The two directions share nothing but the interrupt handler, so the
  `Loads` are heavy in one of them at a time.
* `MaxLen` = 2, `BufSize` = 4, `MaxBytes` = 5: a ring that is full, that wraps around and
  that a transfer empties only in part; a transfer served by the ring, past it, and by
  both; `MaxCalls` = 3 for a transfer that meets what is left of another one.

### Deadlock

Deadlock is not checked where the system may stop: `BuffPool` and `CondVar` (tasks
that hold what the others wait for, and a full token queue), `BlockTbl` and `GwState`
(bounded calls; a call without a timeout whose answer never comes), `ThrdPool` (all
jobs done), `Serial` and `Emux` (the traffic ends).  It is checked in `link`, which
never ends, in `kvpfs` and in `life`, where `AllOver` stutters when everything has
ended.

### Fairness

Weak fairness of every task's own steps: FreeRTOS runs each task that can run, since
altcomlib's tasks block in each cycle.  A timeout that is set does pass.  Nothing is
assumed of the modem (answers, events and damaged frames come or do not come), of the
application before it has begun a call, or of losses of power.  In `Life` an
application task that has begun `altcom_app_ready` or `altcom_finalize` goes on with it.
In `Emux` bytes need not come and waits need not expire; in `Serial` interrupts are
taken and the line moves, nobody has to write.

`Link` needs more.  An interrupt that is enabled is taken, the timer task and the
protocol timer go on, a sleep ends at the latest by its time.  Strong fairness is
assumed of three things.  A writer asks every 5 ms, so it finds the interface up at
some of the times it is up, and its delay ends although the MCU may sleep in
between.  The modem follows the protocol: it answers a raised `h2m`, and if the host
gives up too early it answers a later one; how often it is overtaken is bounded.

## What is proved

For every value of the constants that satisfies the module's named assumptions
(finite sets of tasks, a positive capacity, distinct special values).

**CondVarProofs.** `Types`, `Exclusion`, `CountIsExact`, `NotifyCovers` and
`Implements`.  The inductive invariant is `TypeOK /\ Locks /\ CountExact`: `Locks`
is `MutualExclusion` together with "a task is notifying exactly while it holds
`cond_mutex`", without which the count could change under a notification.
`cond_mutex` alone does not serialise a wait with a notification: the proof uses that
wait registers while it holds the caller's mutex, which a notifier holds too.
`NotifyCovers` rests on a second invariant, `Covers`: the tokens queued and the
tokens the notification has still to send cover the tasks that are blocked.
`Implements` is a step simulation: each action is a `Monitor` action or a stutter
(`NextMonitor`), once it is known that a task which is notifying somebody really has
somebody to notify (`TokensHaveTakers`).

**BuffPoolProofs.** `Types`, `Counts`, `Ownership` and `NobodySleeps`.  The inductive
invariant adds `Places` to the three invariants of the run: a task's stage says
whether it owns the mutex or waits, and the task that is about to put a buffer back
is its holder, which is what keeps the counters above zero.  `NobodySleeps`
holds for any size classes and requests as long as the tasks that sleep at the same
time could do with the same classes (`SameDemand`, a condition on the behaviour, not on
the pool).  Its invariant `Covered` counts for each sleeper: either all sleepers have a
permit of their own, or each free buffer that suits it is spoken for by a permit, by a
task that has woken, or by the owner of the mutex, who has still to signal or looks for
the same (`Credit`).  A task goes to sleep only when nothing that suits it is free
(`NothingSuits`), and so nothing that suits the others; with two demands that is the
step that fails, and `buffpool_lost_wakeup` the case.  That the smallest class with a
free buffer exists (`FirstFits`) follows from the order of
the numbers being well-founded.

**LifeProofs**, in four layers, each for any number of threads, events, callers and
places in the buffers.

*The thread pool*: `PoolTypes`, `OneNullEach`, `FreedAfterAll`, of `ThrdPool` alone.  The
argument counts: the NULL jobs sent, minus the threads that have taken one, stand at the
end of the queue; no job is submitted after the first (`Sending`); when all threads are
TERMINATING, all NULL jobs have been taken, and since the last element of the queue would
be a NULL job (`NullLast`), the queue is empty.  A thread that has written TERMINATING but
still holds `delwaitcondmtx` (`HolderLeaves`) is not overtaken, because `DeleteCheck`
needs the mutex.  `ThreadsArePool` says that the threads of `Life` are such a pool, by a
step simulation: a job submitted late would need a receive task that has ended
(`Ending`).

*The receive side*: `EventsInTurn`.  The events on their way are one line (`Lined`):
callbacks begun, job queue, the event in the receive task's hand and the postponed ones,
HAL buffer.  For each kind, the postponable events and the others, the line is in the
order of arrival.  The hand comes after the postponed events while events are postponed
and before them while they are replayed; that no frame is read during the replay
(`ReplayFirst`) is what lets the one turn into the other.  Nothing falls out of the line
until the receive task ends (`Kept`), so whatever overtakes leaves a gap that
`NoneSkipped` denies.  Several threads, which the code does not have, begin callbacks in
this order too.

*The builder*: `BuilderInvariant`, `BuiltWhole`.  What exists is always a first part of
the list of parts, and the place of the one caller who is under way says how long it is
(`AtWork`).  The hypothesis is `~Crossing`; with crossing calls the statement is false.

*The life cycle*: `PartsOutliveUsers`, of the three together, with the same hypothesis.
`Phase` relates the place of `lte_destroy` to the state of the receive side: before the
gateway is there the receive side has done nothing, when it is gone the receive task has
ended, and when the threads are gone the queue is empty.

**GatewayProofs**, in two parts.

*The wait table*: `EntriesAreLive`, `NoAnswerIsLost`, `AnswersAreOwn`, for any number
of callers, calls, finishes and initializations.  `Entries`: where a caller is in the
call says whether its entry is in the table.  On this rests that the receive task finds
an entry or none, never one whose caller has returned, and that a filled entry has been
signalled (`Signalled`).  Who answers whom is a matter of numbers: a call's `seq`
is its own for ever (`Stamps`), its id only among the calls under way (`Distinct`), and
the modem never holds two commands of which one could be taken for the other, because
an id in use is not given out again (`InUse`, the assumption about the 2^16 ids).

*The state machine*: `NobodyIsStranded`, `TheEchoDecides`.  Whoever sleeps without a
wake-up under way has seen ECHO_TESTING (`Testing`), and then the echo task of this
initialization is at work, with tries left (`TriesLeft`), or could not be created, or
`apicmdgw_fin` has still to broadcast (`FinOrder`).  Echo tasks of older initializations
write the same variable, but can only end the test sooner.  That a command passes only
after an answered echo is shown for the first initialization; an old echo task can let
commands pass in a later one.

**LinkProofs.** `ControlInvariant`, `Wakeable`, `LinesTell`, `TimerWatches`,
`GrantIsHeld`.  Two layers.  Control does not depend on the inactivity time: as long as
nothing moved the machine inside a timer callback, `ifState`, `fsm`, the interrupt,
`h2m` and the place of the timer task are in one of the combinations of `Phases`, one
for each of down, resuming, suspending and up; `Wakeable` follows for every number of
periods.  A suspend that took a resume for its own end (`misread`) is one of the
combinations of up and then of down, where the interrupt may be on or off.  Counting (`Periods`, `Grants`) relates the count, the timer and the periods
since the last grant, and needs two periods or more: see "What is not shown".

**SerialProofs.** `BytesInOrder`, `NoByteIsLost`, `SendingGoesOn`, for every size and
depth that `MarginAssumption` allows.  The ring is taken as a function of its indices;
the count is the number of bytes in it, but for the byte the task has taken and not yet
counted (`CountExact`).  What the FIFO holds is bounded by the watermark and what
the stopped sender has sent since (`Quota`), and the room in the ring covers it
(`Roomy`), which is where the 16 bytes come from.  Sending goes on because an
interrupt that stops before the ring is empty has written more than the hardware took
out meanwhile (`Written`) and so leaves the FIFO above the level.

**EmuxProofs.** `BytesInOrder`, `BuffersAreOwn`, `ResultsAreTrue`, for any tasks and
lengths and no ring or one that satisfies `PowerAssumption`.  The head is always `cnt - 1`
places after the tail (`RingOK`), so what is inserted comes last (`Inserted`) and what is
taken came first (`Removed`).  While a clean transfer owes bytes, every other task is outside or has not
yet taken the port (`Alone`), and the receive task's place, the event bit and the
callback are the transfer's own (`Clean`); what an unclean one does is only bounded by
its types and by the order of the bytes.

**KvpfsProofs.** `KeyHasOneHome`, `GetIsWhatWasSet`, `SavedIsDurable`, `BootRecovers`,
for any keys and values, any size of a bank of more than three slots, and any number of
calls, saves and losses of power.  The inductive invariant is a conjunction of parts, each
of which one of the others needs.  `Homes`: a key stands once in the mirror, or once in the
list, or nowhere, which is what `del` before `append` in `set_env` is for.  `BanksLegible`: a
bank has no hole and a CRC is its last string (`Shaped`), and a bank that is found valid
was written as a whole (`Legible`); the CRC is written last, so a write that is cut off
cannot leave a valid mixture of two contents (`MixShaped`, `HalfValid`, `HalfCopied`).
`Writable`: unless an erasure is due, the mirror on top of the primary bank gives the mirror
(`Fits`), although a write can only clear bits (`AndIs`): strings have been added behind or
zeroed, never changed.  `Durable` and `Findable` say what the banks hold at each point of
a save and of a boot; `Findable` has the hypothesis `paired`, without which `Recovers`
is false (see "What is not shown").  `Told` compares the mirror and the list with the calls
made and has the hypothesis `~slipped`, without which it is false (`kvpfs_freed_tail`); a
key of `CrcKeys` may be gone (`AsSet`), any other key is carried through a compaction
(`Carried`).
A bank that was being erased is never valid, since its first sector is gone
(`HalfErasedIs`), so there the other bank has to serve.

Only model-checked: all liveness, and the fairness it needs (out of the prover's reach),
and the two properties that are violated.

## What is not shown

Properties of the code that do not hold, or hold only with the exceptions stated.

*Gateway and life cycle*

* A callback that calls a socket function waits without a timeout
  (`ALTCOM_SYS_TIMEO_FEVR`).  When the job queue is full the receive task waits for
  the callback and the callback for the receive task.  `CallbackGoesOn` holds because
  `TimeOut` resolves this for commands that have one.
* A signal blocks, holding the mutex, when ten tokens are queued and none taken:
  listed, not excluded by a property.
* When the echo task cannot be created (`apicmdgw.c:1285`) the state stays ECHO_TESTING,
  and a command without a timeout, the error report of the receive task included, waits
  until `apicmdgw_fin`.  `NobodyStranded` and `SleeperLeaves` except this case
  (`NoEchoTask`) and no other.  That the echo task gets a buffer for its command, when
  the pool is empty, is part of the fairness of `EchoStep`.
* `AnsweredEchoHolds` and `EchoCanBeAnswered` of `GwState` state what one would expect
  and are false: an echo answered at the last try counts as given up
  (`apicmdgw.c:1060`), and the receive task waits, with a timeout of 0, which means
  none, for an answer only it can receive (`apicmdgw.c:316`).
* With `Concurrent = TRUE`, `altcom_finalize` overtaking `altcom_app_ready`,
  `FinReturns` is false: the abort AGAIN overwrites TERMINATE and the receive task
  sleeps on.
* With `Crossing = TRUE` `WholeOrNothing` is false: an `altcom_finalize` that comes
  while `altcom_initialize` is building finds no gateway, gives up and clears the flag;
  the library is then complete and marked as absent.  The error path of
  `altcom_finalize` deletes the callbacks' lock that it has deleted on entry.
* `apicmdgw_init` failing after it has created `g_stateCond` leaves the condition
  variable behind for the next attempt (`apicmdgw.c:1126`, 1181).  In `Builder` a part
  fails as a whole.
* `apicmdgw_fin` does not wait for a receive task that has not yet set `g_isTaskRun`
  (`apicmdgw.c:1225`).  Deleting a buffer pool under tasks that wait for it.

*Key-value store*

* A key that begins with CRC, such as CRC2, is accepted by `set_env`, which refuses only
  the key CRC (`kvpfs.c:258`), and lost at the first compaction, which drops every string
  that begins so (`kvpfs.c:107`).  `GetIsSetUnlessSlipped` lets such a key be gone; that
  it never has another value, and that all other keys are kept, is checked and proved.
* `Recovers` holds for a save that began with equal banks.  Two losses of power in two
  saves can leave both banks valid and different, a case `load_flash_content` does
  not repair.
* `get_env` of all keys returns without giving `kvpfs_mtx` back when there is no memory
  (`kvpfs.c:214`), and `set_env` deletes the old value before it finds that there is no
  memory for the new one (`kvpfs.c:265`): memory is taken not to run out.

*Host interface*

* After a failed resume `fsm` stays `hifc_fsm_timeout`; the modem's next call makes it
  `hifc_fsm_error` with the interrupt off, and only a writer brings the link back.  This
  is against the comment of `hifc_api.c:381`, so `SleepIsWakeable` and `ModemServed`
  except the error state.
* The end of `hifc_host_suspend_sm` takes a resume completed meanwhile for the end of
  its own suspend (`hifc_api.c:304-312`, `SuspendTrail`).  It enables the interrupt with
  `m2h` up and sets IfDown after that (`SuspendFalls`); the interrupt that comes in
  between is disabled and does nothing.  The interface is then down with both lines up,
  possibly with the interrupt off: the modem takes the link for up, and only a writer or
  another interrupt of the mailbox brings it up.  `SleepIsWakeable` and `LinesAgree`
  except this state (`misread`), and `LinesAgree` says what the lines are in it.
* A writer may be granted the link between the decision to suspend and the change of
  state (`torn`).
* With an inactivity time of at most one period (50 ms) `UpIsWatched` is false: an
  interrupt that brings the interface up under the timer callback restarts the count at
  1, the callback takes it to 0, and the next expiry wraps the unsigned count, so that
  the link is not suspended any more.  The default is 5 s.
* A modem that raises `m2h` again before the interrupt of its decrement is taken costs
  one protocol timeout.

*Serial driver*

* The task can undo a throttle the interrupt has just made (`serial.c:514-516`); the
  ring may then overflow.  `NoneLost` excepts it (`stale`).
* A receive ring of 16 bytes or less never lets the sender go on (`Headroom < RxSize`).
* `hw_serial_putc_none_blocking` (401-408) can write a character again when the FIFO
  and the ring are full in turn; `IOCTAL_SERIAL_SW_RX_FIFO` clears `recvBuffer` before
  the test that frees it.  The ioctls are not modelled, and nothing in the repository
  selects the non-blocking mode that `Serial` models for sending; the blocking mode is a
  loop until the FIFO has room.

*Multiplexer*

* `SuccessIsFull`, what `emux.h:172` says of a success, is false: the event bit of an
  earlier transfer is still set, and `MUX_ReceiveTimeout` succeeds at once.  Likewise a
  callback left by another transfer, the receive task clearing the callback and the busy
  mark of the transfer begun in its callback, and two callers that both pass the test of
  the busy mark: `clean` excepts them.
* The masks of the background ring (`ring_buffer.c:81`, 89) keep the bytes in order only
  when its size is a power of two; `MUX_Init` takes any size.  The callers in the
  repository pass no ring.
* `muxTxFunc` ignores short writes and `MUX_Send` cuts the length to 16 bits
  (`emux.c:201`); sending is not modelled.

### Not modelled

Bytes, checksums and resynchronization of frames, what the commands mean, the tables of
API callbacks and `select`; hosts of modes a and c, forced suspend and resume, the limit
of the timer queue; the framing of the multiplexer, `MUX_DeInit`, its callback for every
byte; the busy bits of other devices and the sleep notifications; the HALs over the
multiplexer and SPI, which repeat the one modelled; the flash log; and what the inventory
calls not planned, which is most of the repository by size: register headers, FreeRTOS,
CMSIS, lwIP, sensor drivers, and drivers whose correctness is about the hardware.

## Plan

Done: `Monitor`, `CondVar`, `BuffPool`, `BlockTbl`, `GwState`, `ThrdPool`, `RecvTask`,
`Kvpfs`, `Hifc` and `Link`, `Serial`, `Emux`, `Builder` and `Life`, with proofs for all
of them.  Next, in this order:

1. `Kvpfs`: an abstract atomic store it implements as long as nothing slipped.
2. `LogRing` (`sfpdb.c`): a pure algorithm, the ring as a tiling.
3. The framing of the multiplexer, and `Emux` under the HAL of `hal_emux_alt125x.c`.
4. The callback tables of `altcom/api`, with registration during events.
