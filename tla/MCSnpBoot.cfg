CONSTANTS
  PAGE = 1
  WORD = 1073741824
  Maps <- MCMaps
  Addrs <- MCAddrs
  E820_MAX = 128
  SHIM_DATA_SIZE = 1008
  Platform = "snp"
  VCPUS = 3
  CHUNKS = 1
  REQUIRED_MEMORY_MAX = 2
  Options <- MCOptions
  HUGE = 2
  APs = {1, 2}
SPECIFICATION BootSpec
INVARIANTS
  LinuxOwnsItsRam
  BuiltListsNeverKill
  DigestIffImage
  RequiredMatchesE820
