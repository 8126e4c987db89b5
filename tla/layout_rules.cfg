SPECIFICATION Spec
CHECK_DEADLOCK FALSE
CONSTANTS
  Programs <- RulePrograms
  MaxDepth = 3
  Byte = 4
  BufferSize = 10
INVARIANTS
  ReadersKeepARule
