SPECIFICATION Spec
CONSTANTS
  Ino = {1, 2, 3, 4, 5}
  SearchPath <- MCSearchPath
  LibDir <- MCLibDir
  Trees <- StemTrees
  Saved <- StemSaved
  Texts <- StemTexts
  MaxSaves = 1
CHECK_DEADLOCK FALSE
INVARIANTS
  ModulesKeepAPromise
