SPECIFICATION Spec
CHECK_DEADLOCK FALSE
CONSTANTS
  Programs <- MCPrograms
  MaxDepth = 3
  Byte = 4
  BufferSize = 10
INVARIANTS
  CompilerReads
  InterpreterReads
  EditorReads
  BlocksInStep
  StringsAgree
  LinesEndOnce
PROPERTIES
  ReadingEnds
