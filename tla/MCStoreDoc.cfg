SPECIFICATION Spec
CONSTANTS
  Writers = {w1}
  Delays = {1, 2}
  MaxDelay = 2
  MaxVersion = 4
  AtomicWrites = FALSE
  None = None
  Func = Func
  Fired = Fired
PROPERTY DelayIsKept
