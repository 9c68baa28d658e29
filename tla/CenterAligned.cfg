SPECIFICATION PwmFairSpec
CONSTANTS
  WordSize = 256
  PWM_PERIOD = 50
  FirstDuty <- MCFirst
  SecondDuty <- MCSecond
INVARIANTS
  PwmTypeOK
  HandlerMapped
PROPERTIES
  WholeTriples
  Alternates
  IrqAnswered
  OffAfterExit
