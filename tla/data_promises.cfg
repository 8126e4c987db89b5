SPECIFICATION Spec
CONSTANTS
  main = main
  pick = pick
  shown = shown
  v1 = v1
  v2 = v2
  v3 = v3
  hello = hello
  there = there
  longer = longer
  Order <- MCOrder
  Version <- MCVersion
  Literal <- MCLiteral
  LitLen <- MCLitLen
  Lits <- MCLits
  Names <- MCNames
  Uses <- MCUses
  Table <- MCTable
  Handles <- MCHandles
  Takes <- MCTakes
  Types <- MCTypes
  Struct = {"Pair", "Span", "List", "Tree", "Own"}
  Enum = {"Side"}
  NoFile = NoFile
  Word = 4
  Significant = 2
  BtSize = 4
  Spare = 40
  RelroWords = 3
  Programs <- PromisePrograms
INVARIANT
  DataKeepsAPromise
