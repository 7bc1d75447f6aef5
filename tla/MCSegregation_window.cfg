\* Every fork height and flag, a chain that changes, and wrong answers of any shape.
CONSTANTS
  RctStart = 1
  FirstChains <- MCFirstChains
  BlockOutputs <- MCBlockOutputs
  MaxHeight = 9
  MaxReorgs = 1
  CommandLines <- MCCommandLines
  RecentBlocks = 2
  Vicinity = 3
  SpendableAge = 3
  Word = 64
  Honesties <- MCBoth
  Sentinel = 50
  WrongValues <- MCWrongValues
SPECIFICATION Spec
INVARIANTS
  TypeOK
  TillForkIsCount
  PostForkHasRange
  RefusedOnlyNearTheEnds
  ReadsStayInside
  ArgumentsCount
