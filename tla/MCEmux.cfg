CONSTANTS
  Users = {u1, u2}
  NoUser = NoUser
  BufSize = 4
  MaxLen = 2
  MaxBytes = 5
  MaxCalls = 3
SPECIFICATION FairSpec
CHECK_DEADLOCK FALSE
INVARIANTS InOrder OwnBuffer TruthfulWhenClean
PROPERTY DoneIsTold
