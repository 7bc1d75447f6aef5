\* The assertion of the finalizer: refuted.
CONSTANTS
  t1 = t1
  t2 = t2
  Area = 3
  KeySize = 2
  Threads <- MCThreads
  MaxRequest = 7
  Half = 4
  Lengths = {0, 1, 135, 136, 137, 271, 272, 273}
  MaxPieces = 1
  MaxBlocks = 5
SPECIFICATION MCSpec
SYMMETRY MCSymmetry
INVARIANT WipedOnlyWhenReady
