SPECIFICATION Spec
CONSTANTS
  h1 = h1
  h2 = h2
  h3 = h3
  NoHandle = NoHandle
  Handles <- ThreeHandles
  MaxDepth = 2
  MaxChildren = 2
  MaxCores = 3
  MaxNesting = 3
SYMMETRY Symmetry
INVARIANTS TokensCurrent PinnedWhileBusy OwnDocument
CHECK_DEADLOCK FALSE
