SPECIFICATION FairSpec
CONSTANTS
  main = main
  a = a
  b = b
  small = small
  large = large
  huge = huge
  lambda = lambda
  asks = asks
  alone = alone
  Fn <- MCFn
  Version <- MCVersion
  Size <- MCSize
  Calls <- MCCalls
  Lam <- MCLam
  Needs <- MCNeeds
  Roots = {main}
  Method = {}
  InModule = {}
  Routine <- MCRoutine
  RtEdges <- MCRtEdges
  RtOff <- MCRtOff
  RtLen <- MCRtLen
  StartNeeds <- MCStartNeeds
  StartSize = 48
  SynthSize = 2350
  Page = 4096
  Programs <- EditPrograms
INVARIANTS
  InRoom
  KeepsPlaces
  RebuildReproduces
  IInv
  Faithful
  EditThatFitsIsLaidOver
  StopsOnlyWhenAstray
PROPERTIES
  KeepsThePromise
  BuildEnds
