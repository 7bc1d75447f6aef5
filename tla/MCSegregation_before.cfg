\* The fork block counts as pre-fork in the draw: refuted.
CONSTANTS
  RctStart = 1
  FirstChains <- MCFirstChains
  BlockOutputs <- MCBlockOutputs
  MaxHeight = 9
  MaxReorgs = 0
  CommandLines <- MCOneFork
  RecentBlocks = 2
  Vicinity = 3
  SpendableAge = 3
  Word = 64
  Honesties <- MCHonest
  Sentinel = 50
  WrongValues <- MCWrongValues
SPECIFICATION Spec
INVARIANT PreForkRangeIsBeforeFork
