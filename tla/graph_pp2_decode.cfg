CONSTANTS
  DPSize = 1
  TPSize = 2
  PPSize = 2
  NumLayers = 3
  FirstKDense = 1
  MoeLayerFreq = 1
  EnableGraphMode = TRUE
  EnableMC2 = FALSE
  FP16 = FALSE
  HasSharedExperts = TRUE
  Passes = 2
  MaxTokens = 2
  InputChoices <- DecodeGraphInputs
  Pad = Pad
  Mixed = Mixed
  Null = Null
SPECIFICATION Spec
INVARIANTS
  NoShapeError
  StreamComplete
PROPERTIES
  RefinesLayerStream
  AllPassesComplete
