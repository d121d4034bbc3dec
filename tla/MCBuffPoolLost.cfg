\* Two size classes: the signal of a freed small buffer may wake the task
\* that waits for a large one.
SPECIFICATION Spec
CONSTANTS
  Threads = {t1, t2, t3, t4}
  NoThread = NoThread
  PermitCap = 3
  b1 = b1
  b2 = b2
  b3 = b3
  Buffers = {b2, b3}
  SizeOf <- TwoClasses
  Requests = {1, 2}
  NoBuffer = NoBuffer
  MaxHeld = 1
CHECK_DEADLOCK FALSE
INVARIANTS NobodySleepsOnFree
