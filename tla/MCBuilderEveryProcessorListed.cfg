CONSTANTS
  PAGE = 2
  WORD = 1073741824
  Maps <- NoMaps
  Requests <- MCRequests
  Addrs <- MCAddrs
  E820_MAX = 128
  SHIM_DATA_SIZE = 1008
SPECIFICATION BuildSpec
INVARIANT EveryProcessorListed
