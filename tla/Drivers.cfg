CONSTANTS
  NULL = NULL
  Beyond = {}
  Chosen = {"pipe", "files", "term", "desk"}
  Calls = {"find", "change", "list"}
SPECIFICATION FairSpec
CHECK_DEADLOCK FALSE
INVARIANTS FilesFindRight FilesListRight TermShows TermWhole DeskLaidOut
PROPERTIES PipeIsQueue PipeReadsEnd FilesFindsEnd
