SPECIFICATION Spec
CONSTANTS
  Content <- MCContent
  Normal <- MCNormal
  IllFormed <- MCIllFormed
  HigherIsBetter <- MCHigher
  Unit = 4
  MaxFinite = 40
  MaxSafe = 7
  Inputs <- MCInputs
  Tokenizers <- MCTokenizers
  RenderAnswers <- MCRenderAnswers
INVARIANTS
  DuplicatesMeet
  RequiredSurvives
  OrderIndependent
  RepetitionDoesNotScore
  EarlyEvidenceCheckIsComplete
  PipelineTraceAccepted
  PassiveWalkExact
CHECK_DEADLOCK FALSE
