CONSTANTS
  HUGE = 4
  GHCB = 2
  APs = {1, 2}
  Images <- MCImages
SPECIFICATION SnpSpec
INVARIANTS
  SnpTypeOK
  EntersComplete
  ClearsWhatItValidates
  NeverKillsItself
  WakesLast
  ReportTellsWhere
PROPERTIES
  EveryProcessorCreated
  ImplementsPrivateMemory
