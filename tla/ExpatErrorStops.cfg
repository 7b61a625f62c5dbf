SPECIFICATION Spec
CONSTANTS
  Chunks <- MarkupChunks
  HandlerSets <- MarkupHandlers
  Changeable <- NoHandlers
  Subsets <- NoSubset
  StorageMayFail = FALSE
  MaxFeeds = 1
  MaxCalls = 2
  MaxGenerations = 1
  MaxEncodings = 1
PROPERTIES ErrorsStopNow
CHECK_DEADLOCK FALSE
