\* One source; the segregation split in every combination of flags.
CONSTANTS
  Sources <- MCOneSource
  NumOuts = 5
  Pickable <- MCAllPickable
  PastFork <- MCBoth
  TillForks <- MCTillForks
  PoolSize = 6
  NumDecoys = 3
  MaxLocalTries = 6
  UnluckyPicks = TRUE
SPECIFICATION Spec
INVARIANTS
  TypeOK
  PoolSound
  FillInOrder
  FailsOnlyWhenShort
  CountsAreTrue
