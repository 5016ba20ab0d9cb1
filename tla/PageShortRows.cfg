CONSTANTS
  GroupSize = 8
  MetadataGroupSize = 16
  Shapes <- MCShapes
  Seeds <- MCSeeds
  Element <- MCElement
SPECIFICATION Spec
INVARIANT VectorizedWritesLikeReference
CHECK_DEADLOCK FALSE
