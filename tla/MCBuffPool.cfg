\* Three size classes of one buffer, of which two satisfy the one request that can be
\* met, and as many tasks as can wait and steal from one another.  Tasks that each hold
\* what the others wait for stop, and so does a full token queue: a deadlock is no error.
SPECIFICATION Spec
CONSTANTS
  Threads = {t1, t2, t3, t4}
  NoThread = NoThread
  PermitCap = 3
  b1 = b1
  b2 = b2
  b3 = b3
  Buffers = {b1, b2, b3}
  SizeOf <- ThreeClasses
  Requests = {2, 4}
  NoBuffer = NoBuffer
  MaxHeld = 2
SYMMETRY Symmetry
CHECK_DEADLOCK FALSE
INVARIANTS CountsConsistent OneOwner NobodySleepsOnFree
