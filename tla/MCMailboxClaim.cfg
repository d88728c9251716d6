CONSTANTS
  APs <- ThreeAPs
  Vector <- VectorOfThree
SPECIFICATION BoxSpec
INVARIANT WaitsForClaim
