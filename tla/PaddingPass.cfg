CONSTANTS
  DPSize = 3
  TPSize = 2
  MaxTokens = 4
  Pad = Pad
SPECIFICATION Spec
INVARIANTS
  TypeOK
  MaskCountsTokens
  PostAttentionLayoutLaw
  PostMoeLayoutLaw
