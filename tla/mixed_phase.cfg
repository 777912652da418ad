CONSTANTS
  DPSize = 2
  TPSize = 2
  PPSize = 1
  NumLayers = 2
  FirstKDense = 1
  MoeLayerFreq = 1
  EnableGraphMode = TRUE
  EnableMC2 = FALSE
  FP16 = FALSE
  HasSharedExperts = TRUE
  Passes = 1
  MaxTokens = 2
  InputChoices <- MixedPhaseInputs
  Pad = Pad
  Mixed = Mixed
  Null = Null
SPECIFICATION Spec
INVARIANTS
  CollectivesMatch
CHECK_DEADLOCK FALSE
