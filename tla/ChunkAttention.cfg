SPECIFICATION Spec
CONSTANTS
  GroupSize = 3
  ResidualTokens = 3
  FastShape = FALSE
  QPerProgram = 2
  TileMaxQueries = 3
  QueryBlock = 2
  MaxContext = 7
  MaxChunk = 7
  HeadShapes <- MCHeadShapes
INVARIANTS TypeOK ScheduleAgrees OutputsMatchReference
PROPERTIES ForwardCompletes
CHECK_DEADLOCK FALSE
