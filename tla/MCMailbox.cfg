CONSTANTS
  APs <- ThreeAPs
  Vector <- VectorOfThree
SPECIFICATION BoxSpec
INVARIANTS
  BoxTypeOK
  OneResponder
  AckMeansRunning
PROPERTY
  EveryoneStarts
