CONSTANTS
  DPSize = 2
  TPSize = 1
  PPSize = 2
  NumLayers = 2
  FirstKDense = 0
  MoeLayerFreq = 1
  EnableGraphMode = FALSE
  EnableMC2 = FALSE
  FP16 = FALSE
  HasSharedExperts = TRUE
  Passes = 2
  MaxTokens = 1
  InputChoices <- PrefillInputs
  Pad = Pad
  Mixed = Mixed
  Null = Null
SPECIFICATION Spec
INVARIANTS
  NoShapeError
  StreamComplete
  TokensStayHome
PROPERTIES
  RefinesLayerStream
  AllPassesComplete
