SPECIFICATION PedalFairSpec
CONSTANTS
  PhaseTimes <- MCPhaseTimes
  Torn = {3}
  Default <- MCDefault
  Configs <- MCConfigs
PROPERTIES
  HighThresholdArrives
