SPECIFICATION Spec
CONSTANTS
  Clients = {c1, c2}
  Commands = {cmd}
  EventId = event
  MaxId = 2
  MaxCalls = 3
  MaxFins = 1
  MaxInits = 2
SYMMETRY Symmetry
INVARIANTS TableIsLive NoLostAnswer AnswerIsOwn
CHECK_DEADLOCK FALSE
