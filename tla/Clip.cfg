SPECIFICATION PlaybackSpec
CONSTANTS
  TimeLimit = 12
  Tolerance = 1
  Joints = {hips}
  Sources = {tracker}
  None = None
  Results <- LiveResults
  MaxTicks = 2
  Clips <- SampleClips
  Offsets <- SampleOffsets
  Periods = {0, 2, 3}
  AskedTimes <- SampleTimesAsked
  Slack = 1
INVARIANTS
  RecordedIsAccountedFor
  ResampleSpansItsSource
  StatusMatchesTimeRange
