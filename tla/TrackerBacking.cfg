SPECIFICATION Spec
CONSTANTS
  p1 = p1
  p2 = p2
  t1 = t1
  b1 = b1
  b2 = b2
  NoTracker = NoTracker
  NoBlock = NoBlock
  Infinite = Infinite
  Threads <- BothThreads
  Blocks <- BothBlocks
  Trackers <- OneTracker
  Sizes <- SmallSizes
  Ceiling = 3
  Precision <- ShortPrecision
  Scales <- ShortScales
  Factors <- NoFactor
  Thresholds <- Immediate
  Inputs <- OnePiece
  MaxDirect = 0
  MaxDepth = 1
SYMMETRY Symmetry
INVARIANTS BackingCovered
