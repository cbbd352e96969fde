SPECIFICATION Spec
CONSTANTS
  TimeLimit = 10
  Tolerance = 1
  Joints = {hips}
  Sources = {stream}
  None = None
  Timestamps <- RootTimes
  Readings <- SeenReadings
  Roots <- MovingRoots
  Configs <- RootConfigs
  EvaluationTimes <- AskedTimes
  Offsets <- AskedOffsets
  OptionalCalls = {"SetInputState"}
  DefaultCapacity = 2
  MaxPushes = 3
  MaxSamples = 1
  MaxEpoch = 0
  MaxGeneration = 0
INVARIANTS
  AnswerMatchesHistory
