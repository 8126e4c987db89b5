SPECIFICATION Spec
CONSTANTS
  Limit = 48
  MinRegion = 16
  Page = 16
  Slots <- MCSlots
  Mix <- MCMix
  Name = {v, w}
  Value <- MCValue
  Literals <- MCLiterals
  MaxStatements = 6
  MaxLen = 4
  MaxWalks = 1
  MinCap = 2
  InlineMin = 1
  SliceMin = 0
  SelfJoin = TRUE
  WritesWalked = TRUE
SYMMETRY MCAlike
INVARIANTS
  ArraysKeepAPromise
CHECK_DEADLOCK FALSE
