CONSTANTS
  GroupSize = 8
  MetadataGroupSize = 16
  Shapes <- MCShapes
  Seeds <- MCSeeds
  Element <- MCElement
SPECIFICATION Spec
INVARIANTS TypeOK  ReadersAgree DecodedWithinStep AcceptedLayoutsWork
CHECK_DEADLOCK FALSE
