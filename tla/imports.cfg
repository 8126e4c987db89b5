SPECIFICATION ReadersSpec
CONSTANTS
  Ino = {1, 2, 3, 4}
  SearchPath <- MCSearchPath
  LibDir <- MCLibDir
  Trees <- MCTrees
  Saved <- MCSaved
  Texts <- MCTexts
  MaxSaves = 1
CHECK_DEADLOCK FALSE
INVARIANTS
  OneNameOfAFile
  ModulesAreThere
  LinesKnowTheirFile
PROPERTIES
  ReadsTheProgram
  LoadsTheProgram
  RingsEnd
