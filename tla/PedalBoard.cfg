SPECIFICATION PedalFairSpec
CONSTANTS
  PhaseTimes <- MCPhaseTimes
  Torn = {3}
  Default <- MCDefault
  Configs <- MCConfigs
INVARIANTS
  PedalTypeOK
  CodecFirst
  PhaseInTable
PROPERTIES
  ConfigurationArrives
  PhaseSweepsSmoothly
  PhaserSweeps
