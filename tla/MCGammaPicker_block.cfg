\* What the comment on pick() says of its block: refuted.
CONSTANTS
  Offsets <- MCOffsets
  Ranges <- MCRanges
  Ages <- MCAges
  Second = 1
  SpendableAge = 2
  Target = 2
  RecentBlocks = 1
  BlocksInYear = 3
  MaxAttempts = 2
  Word = 8
SPECIFICATION Spec
INVARIANT PicksBlockOfTarget
