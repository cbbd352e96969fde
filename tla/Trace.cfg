SPECIFICATION Spec
CONSTANTS
  TimeLimit = 12
  Tolerance = 1
  Quantum = 4
  Second = 12
  DefaultRate = 4
  Joints = {"hips", "head"}
  RootFields = {"pos"}
  Channels = {"smile", "two words"}
  Spaced = {"two words"}
  HeaderKeys = {"sourceId"}
  HandLines <- EveryLine
  Clips <- EveryClip
  MaxLines = 6
  None = None
CHECK_DEADLOCK FALSE
INVARIANTS
  ReadClipIsATrace
  VersionClaimsContent
  ReadsBackButForItsInterval
PROPERTY
  SpellableIsReadBack
