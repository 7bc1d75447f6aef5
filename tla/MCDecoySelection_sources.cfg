\* Two sources in turn: the rings, the file and the end of the process.
CONSTANTS
  Sources <- MCTwoSources
  NumOuts = 5
  Pickable <- MCAllButOne
  PastFork <- MCNeverPast
  TillForks <- MCTillOne
  PoolSize = 4
  NumDecoys = 2
  MaxLocalTries = 5
  UnluckyPicks = FALSE
SPECIFICATION FairSpec
INVARIANTS
  RingDecodes
  WholeJobOrNothing
PROPERTIES
  KeepsPromise
  FeeIsOptional
  Terminates
