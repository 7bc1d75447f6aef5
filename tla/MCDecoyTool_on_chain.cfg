\* Two sources while the chain grows and its top is replaced.
CONSTANTS
  Sources <- MCSources
  NumOuts = 4
  Pickable <- MCPickable
  PastFork <- MCNever
  TillForks <- MCNoTill
  PoolSize = 3
  NumDecoys = 2
  MaxLocalTries = 3
  UnluckyPicks = FALSE
  RctStart = 0
  FirstChains <- MCChains
  BlockOutputs <- MCBlockOutputs
  MaxHeight = 6
  MaxReorgs = 1
  SpendableAge = 2
  MinedWindow = 4
SPECIFICATION ToolSpec
INVARIANTS
  OnlyMinedAreLocked
  KeysAreCurrent
  DecoysStayUnlocked
