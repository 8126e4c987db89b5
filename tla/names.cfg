SPECIFICATION FairSpec
CONSTANTS
  a = a
  b = b
  c = c
  d = d
  Name <- MCName
  Hash <- MCHash
  Answer = {9}
  Slots = 2
INVARIANTS
  FreeSlot
  TableInv
PROPERTIES
  AnswersFirst
  WalksEnd
