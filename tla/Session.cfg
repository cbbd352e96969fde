SPECIFICATION SessionSpec
CONSTANTS
  TimeLimit = 400
  Tolerance = 3
  Joints = {hips}
  Sources = {stream}
  None = None
  Timestamps <- NoTimes
  Readings <- NoReadings
  Roots <- NoRoots
  Configs <- CaptureConfigs
  EvaluationTimes <- NoTimes
  Offsets <- NoTimes
  OptionalCalls = {}
  DefaultCapacity = 3
  MaxPushes = 0
  MaxSamples = 0
  MaxEpoch = 0
  MaxGeneration = 0
  Traces <- AllTraces
  Periods <- AllPeriods
  DeliveryLags <- AllLags
CHECK_DEADLOCK FALSE
INVARIANTS
  ClipIsGapless
  NoFrameBeforeItArrives
  CleanSessionIsSampled
PROPERTY
  SessionEnds
