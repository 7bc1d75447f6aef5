\* Whether the split of a ring can be verified from the file alone: refuted.
CONSTANTS
  Sources <- MCOneSource
  NumOuts = 5
  Pickable <- MCAllPickable
  PastFork <- MCPast
  TillForks <- MCTillTwo
  PoolSize = 6
  NumDecoys = 3
  MaxLocalTries = 6
  UnluckyPicks = FALSE
SPECIFICATION Spec
INVARIANT SplitIsVerifiable
