\* A daemon that truncates large answers or fails, on a chain that changes.
CONSTANTS
  Start = 2
  Chunk = 4
  MinTry = 1
  MaxAttempts = 3
  RctStart = 2
  FirstChains <- MCFirstChains
  BlockOutputs <- MCBlockOutputs
  MaxHeight = 8
  MaxReorgs = 2
  ResponseCap = 3
  Word = 16
SPECIFICATION FairSpec
INVARIANTS
  TypeOK
  OneValuePerHeight
  RightWhereStable
  ShortAnswersOnlyShift
  HalvingIsEnough
PROPERTIES
  FetchEnds
