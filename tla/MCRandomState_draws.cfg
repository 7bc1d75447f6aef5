\* Two callers, draws of up to three blocks, every way the entropy can arrive.
CONSTANTS
  t1 = t1
  t2 = t2
  Area = 3
  KeySize = 2
  Threads <- MCThreads
  MaxRequest = 7
  Half = 4
  Lengths = {0, 1, 135, 136, 137, 271, 272, 273}
  MaxPieces = 3
  MaxBlocks = 8
SPECIFICATION MCSpec
SYMMETRY MCSymmetry
INVARIANTS
  TypeOK
  BufferIsFull
  PastIsHidden
  NoBlockTwice
  DrawsNeverAssert
  PermutationIsKeccak
  StreamIsOneShot
  BlocksFitBuffer
  HelpersAreExact
