CONSTANTS
  HUGE = 4
  Images <- MCImages
SPECIFICATION ShimSpec
INVARIANTS
  ShimTypeOK
  EntersComplete
  DiesOnlyOnHostError
PROPERTIES
  ShimLeaves
  ImplementsPrivateMemory
