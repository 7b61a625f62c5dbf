SPECIFICATION Spec
CONSTANTS
  Chunks <- MarkupChunks
  HandlerSets <- MarkupHandlers
  Changeable <- ToggleDefault
  Subsets <- BothSubsets
  StorageMayFail = TRUE
  MaxFeeds = 2
  MaxCalls = 2
  MaxGenerations = 1
  MaxEncodings = 1
INVARIANTS GuardDiscipline EventsInOrder WholeTags FragmentsInOrder FinishedComplete
PROPERTIES StopHonoured TerminalError
CHECK_DEADLOCK FALSE
