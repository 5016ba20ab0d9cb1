SPECIFICATION Spec
CONSTANTS
  GroupSize = 3
  ResidualTokens = 2
  FastShape = FALSE
  OneTokenChunks = TRUE
  NullBlock = 0
  MaxTokens = 13
  MaxChunk = 9
  MaxEpochs = 2
  BlockIds <- MCBlockIds
INVARIANTS TypeOK StateLaw AttentionView
PROPERTIES ClosedPagesImmutable
CHECK_DEADLOCK FALSE
