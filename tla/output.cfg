SPECIFICATION OutputSpec
CONSTANTS
  Programs <- MCPrograms
  Routines <- MCRoutines
  RtBody <- MCRtBody
  RtEdges <- MCRtEdges
  RxTable = 2
  Page = 8
  IMAGE_BASE = 100
  Near = 1
CHECK_DEADLOCK FALSE
INVARIANTS
  SaysWhatTheProgramSays
  TrapsStand
  RuntimeIsWhatIsCalled
  BacktraceNames
  NothingLost
PROPERTIES
  WritingEnds
