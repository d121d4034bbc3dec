\* Three tasks, a token queue shorter than the number of tasks: full and
\* empty queues, stale tokens and racing time-outs all occur.  The layer can
\* stop for ever with the queue full, so a deadlock is no error here.
SPECIFICATION Spec
CONSTANTS
  Threads = {t1, t2, t3}
  NoThread = NoThread
  QueCap = 2
CHECK_DEADLOCK FALSE
INVARIANTS CountExact Covers
PROPERTIES ImplementsMonitor
