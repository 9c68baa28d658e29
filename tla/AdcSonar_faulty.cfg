SPECIFICATION FairSpec
CONSTANTS
  Readers = {r1, r2}
  Faults = {"class", "device", "mapping", "irqId", "irq", "thread"}
  MaxConv = 3
INVARIANTS
  AdcTypeOK
  ReadIsOneConversion
  OneTrigger
  ExitUndoesInit
PROPERTIES
  ImplementsDevice
  KeepsPublishing
  UnloadCompletes
CHECK_DEADLOCK FALSE
