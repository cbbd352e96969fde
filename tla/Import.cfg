SPECIFICATION Spec
CONSTANTS
  TimeLimit = 4
  Tolerance = 0
  None = None
  Names = {"a"}
  ChannelLists <- Lists
  OffsetKinds <- OffsetOrNot
  HandDocuments <- Assembled
  MaxHierarchyDepth = 2
  MaxJoints = 3
  MaxFrames = 2
  FramesBound = 3
  FrameTimes <- Times
CHECK_DEADLOCK FALSE
INVARIANTS
  DocumentIsWithinLimits
  NumbersReachTheirJoint
  DepthCountsAncestors
  ParsedDocumentIsExtracted
