SPECIFICATION GwFairSpec
CONSTANTS
  Senders = {s1}
  RecvTask = recvtask
  RetryCnt = 3
  Bypass = FALSE
  MaxEpochs = 2
INVARIANTS NobodyStranded EchoDecides
PROPERTIES SleeperLeaves FinReturns
CHECK_DEADLOCK FALSE
