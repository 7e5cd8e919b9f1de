SPECIFICATION FairSpec
CONSTANTS
  Fd = {3, 4, 5}
  MaxStreams = 2
  QueueLen = 2
  Networks = {{"lateEffect"}}
PROPERTIES
  CallbackEnds
CHECK_DEADLOCK FALSE
