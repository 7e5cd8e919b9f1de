SPECIFICATION Spec
CONSTANTS
  Fd = {3, 4, 5}
  MaxStreams = 2
  QueueLen = 2
  Networks = {{"interrupts"}}
INVARIANTS
  Agreement
CHECK_DEADLOCK FALSE
