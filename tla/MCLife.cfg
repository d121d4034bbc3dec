CONSTANTS
  Workers = {w1}
  NULL = NULL
  QueNum = 1
  e1 = e1
  e2 = e2
  e3 = e3
  Jobs = {e1, e2, e3}
  Postponable <- MCPostponable
  Postpone = TRUE
  HalMax = 1
  Concurrent = FALSE
  Callers = {c1, c2}
  Suppliers = {c2}
  Crossing = FALSE
SPECIFICATION FairSpec
INVARIANTS InTurn UsedPartsExist WholeOrNothing
PROPERTIES CallbackGoesOn EventsRun FinReturns
