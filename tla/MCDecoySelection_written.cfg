\* What a run that ends with 0 says of ring.json: refuted.
CONSTANTS
  Sources <- MCOneSource
  NumOuts = 4
  Pickable <- MCAllPickable
  PastFork <- MCNeverPast
  TillForks <- MCTillOne
  PoolSize = 3
  NumDecoys = 2
  MaxLocalTries = 3
  UnluckyPicks = FALSE
SPECIFICATION Spec
INVARIANT ExitZeroMeansRingWritten
