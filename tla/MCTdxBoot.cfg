CONSTANTS
  PAGE = 1
  WORD = 1073741824
  Maps <- MCMaps
  Addrs <- MCAddrs
  E820_MAX = 128
  SHIM_DATA_SIZE = 1008
  Platform = "tdx"
  VCPUS = 3
  CHUNKS = 2
  REQUIRED_MEMORY_MAX = 4
  Options <- MCOptions
  HUGE = 2
  APs = {1, 2}
  Vector <- MCVector
SPECIFICATION BootSpec
INVARIANTS
  LinuxOwnsItsRam
  BuiltListsNeverKill
  OthersWaitForMemory
  DigestIffImage
PROPERTY
  BootsOrReports
