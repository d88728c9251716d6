CONSTANTS
  PAGE = 2
  WORD = 1073741824
  Maps <- MCMaps
  Addrs <- MCAddrs
  E820_MAX = 4
  SHIM_DATA_SIZE = 56
SPECIFICATION Spec
INVARIANTS
  TypeOK
  ValidatedDisjoint
  E820Exact
  E820Ordered
  AcceptExact
  AcceptOrdered
