SPECIFICATION Spec
CONSTANTS
  TimeLimit = 10
  Tolerance = 1
  Joints = {hips}
  Sources = {stream}
  None = None
  Timestamps <- JointTimes
  Readings <- AllReadings
  Roots <- JointRoots
  Configs <- JointConfigs
  EvaluationTimes <- NoTimes
  Offsets <- NoTimes
  OptionalCalls = {"ResetStats"}
  DefaultCapacity = 2
  MaxPushes = 3
  MaxSamples = 0
  MaxEpoch = 1
  MaxGeneration = 1
INVARIANTS
  TypeOK
  JointLedger
  HeadTracked
  FilterTracksHead
  EpochIsolation
  CoverageCoversHistory
PROPERTIES
  HeldLimbIsFrozen
