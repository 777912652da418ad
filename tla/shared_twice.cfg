CONSTANTS
  DPSize = 2
  TPSize = 2
  PPSize = 1
  NumLayers = 2
  FirstKDense = 1
  MoeLayerFreq = 1
  EnableGraphMode = FALSE
  EnableMC2 = FALSE
  FP16 = FALSE
  HasSharedExperts = TRUE
  Passes = 1
  MaxTokens = 2
  InputChoices <- EagerInputs
  Pad = Pad
  Mixed = Mixed
  Null = Null
SPECIFICATION Spec
INVARIANTS
  ContributionsOnce
