SPECIFICATION Spec
CONSTANTS
  p1 = p1
  p2 = p2
  t1 = t1
  b1 = b1
  b2 = b2
  NoTracker = NoTracker
  NoBlock = NoBlock
  Infinite = Infinite
  Threads <- BothThreads
  Blocks <- BothBlocks
  Trackers <- OneTracker
  Sizes <- LargerSizes
  Ceiling = 5
  Precision <- ShortPrecision
  Scales <- ShortScales
  Factors <- EitherFactor
  Thresholds <- EitherThreshold
  Inputs <- OnePiece
  MaxDirect = 4
  MaxDepth = 1
SYMMETRY Symmetry
INVARIANTS Accounted CeilingKept AmplificationKept BlocksIntact
