SPECIFICATION FairSpec
CONSTANTS
  Requests = {a, b}
  NumLayers = 2
  Runner = "V2"
  DataParallel = FALSE
  NumBlocks = 3
  BlockSize = 2
  ResidualTokens = 1
  Prompts = {3}
  max_model_len = 6
  max_num_scheduled_tokens = 3
  batch_queue_size = 2
  MaxResets = 1

PROPERTIES EveryRequestEnds FinishedAreReleased
CHECK_DEADLOCK FALSE
