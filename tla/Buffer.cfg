SPECIFICATION Spec
CONSTANTS
  TimeLimit = 8
  Tolerance = 1
  Joints = {hips}
  Sources = {stream}
  None = None
  Candidates <- MCCandidates
  Capacities <- MCCapacities
  DefaultCapacity = 4
INVARIANTS
  AnswersComeFromNeighbours
PROPERTIES
  HistorySpec
  RetainedAnswersStable
