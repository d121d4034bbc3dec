CONSTANTS
  Keys = {k1, k2}
  CrcKeys = {k2}
  Values = {v1, v2}
  NoValue = NoValue
  Slots = 5
  MaxLost = 1
  MaxCrashes = 2
SPECIFICATION Spec
INVARIANTS OneHome GetIsSetUnlessSlipped SaveIsDurable Recovers
SYMMETRY Symmetric
