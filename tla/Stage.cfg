SPECIFICATION ExecSpec
CONSTANTS
  None = None
  Vocabulary <- SampleVocabulary
  PrimName <- SamplePrimName
  Clips <- SampleClips
  Rests <- SampleRests
  Foreign <- SampleForeign
  Bakes <- SampleBakes
  TimeCodes = {0, 4}
  Driven = "Body"
  Blends <- SampleBlends
  MaxHistory = 2
INVARIANTS
  StageCarriesTheClip
  ExecAgreesWithReader
  RefusalReachesEveryNode
  BlendPairsEachWeightWithItsClip
PROPERTY
  BakeIsAllOrNothing
