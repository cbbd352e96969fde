SPECIFICATION RetargetSpec
CONSTANTS
  Absent = Absent
  Vocabulary <- SampleVocabulary
  Configurations <- SampleConfigurations
  Poses <- SamplePoses
INVARIANTS
  WorldMotionIsTransferred
  RootMotionArrivesOrIsReported
  TransformsFailWhereValidationSaysSo
PROPERTY
  LostBonesAreNamed
