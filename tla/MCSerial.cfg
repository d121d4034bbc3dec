CONSTANTS
  RxSize = 4
  Headroom = 2
  Watermark = 1
  Slack = 1
  TxSize = 4
  TxDepth = 3
  TxLevel = 1
  MaxWrite = 3
  MaxSlip = 1
  Loads <- MCLoads
SPECIFICATION FairSpec
CHECK_DEADLOCK FALSE
INVARIANTS InOrder NoneLost TxGoesOn
PROPERTY Settles
