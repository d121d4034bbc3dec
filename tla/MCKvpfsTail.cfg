CONSTANTS
  Keys = {k1, k2}
  CrcKeys = {}
  Values = {v1, v2}
  NoValue = NoValue
  Slots = 5
  MaxLost = 1
  MaxCrashes = 0
SPECIFICATION Spec
INVARIANT GetIsSet
