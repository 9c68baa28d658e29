SPECIFICATION MotorFairSpec
CONSTANTS
  PWM_PERIOD = 50000
  PWM_STEP = 500
  PWM_MAX = 49500
  PWM_MIN = 500
  WordSize <- MCWordSize
INVARIANTS
  DutyInRange
PROPERTIES
  SweepsForever
CHECK_DEADLOCK FALSE
