SPECIFICATION Spec
CONSTANTS
  GroupSize = 3
  ResidualTokens = 2
  FastShape = TRUE
  OneTokenChunks = FALSE
  NullBlock = 0
  MaxTokens = 13
  MaxChunk = 9
  MaxEpochs = 2
  BlockIds <- MCBlockIds
INVARIANTS IndInv
CHECK_DEADLOCK FALSE
