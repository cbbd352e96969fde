SPECIFICATION Spec
CONSTANTS
  None = None
  TimeLimit = 4
  Tolerance = 1
  Requests <- SampleRequests
  Libraries <- SampleLibraries
  Imports <- SampleImports
INVARIANT EveryMatchKeepsOrientation
CHECK_DEADLOCK FALSE
