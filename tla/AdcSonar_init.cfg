SPECIFICATION Spec
CONSTANTS
  Readers = {r1}
  Faults = {"irqId", "irq"}
  MaxConv = 2
INVARIANTS
  ThreadOnlyIfInitialised
