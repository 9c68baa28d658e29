SPECIFICATION EffectsFairSpec
CONSTANTS
  Width = 4
  MEMORY_NUM = 2
  FIR_COEFF <- MCFir
  Coefficients = {1, 2}
  Inputs <- MCInputs
  Settings <- MCSettings
PROPERTIES
  FiltersSettle
  NoLimitCycles
