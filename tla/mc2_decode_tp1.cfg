CONSTANTS
  DPSize = 1
  TPSize = 1
  PPSize = 1
  NumLayers = 2
  FirstKDense = 1
  MoeLayerFreq = 1
  EnableGraphMode = TRUE
  EnableMC2 = TRUE
  FP16 = FALSE
  HasSharedExperts = TRUE
  Passes = 1
  MaxTokens = 2
  InputChoices <- DecodeGraphInputs
  Pad = Pad
  Mixed = Mixed
  Null = Null
SPECIFICATION Spec
INVARIANTS
  NoShapeError
