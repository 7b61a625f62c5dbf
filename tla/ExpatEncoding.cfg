SPECIFICATION CooperativeSpec
CONSTANTS
  Chunks <- EncodingChunks
  HandlerSets <- EncodingHandlers
  Changeable <- NoHandlers
  Subsets <- NoSubset
  StorageMayFail = TRUE
  MaxFeeds = 2
  MaxCalls = 2
  MaxGenerations = 2
  MaxEncodings = 2
INVARIANTS ConverterOwned
PROPERTIES Progress
CHECK_DEADLOCK FALSE
