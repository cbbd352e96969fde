SPECIFICATION Spec
CONSTANTS
  None = None
  TimeLimit = 4
  Tolerance = 1
  Requests <- SampleRequests
  Libraries <- SampleLibraries
  Imports <- SampleImports
INVARIANTS
  OrientationIsKept
  TPoseIsReached
  FirstFrameRestIsTheFirstFrame
  EveryTranslationIsCarriedOrReported
  BasisIsAHandedIsometry
CHECK_DEADLOCK FALSE
