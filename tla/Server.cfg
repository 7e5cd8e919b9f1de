SPECIFICATION FairSpec
CONSTANTS
  Video <- MCVideo
  Frames <- MCFrames
  FrameStart <- MCFrameStart
  GarbageLen = {3}
  Handlers = {h1}
  SeqMod = 8
  Ssrc = {11}
  Overlap = TRUE
  NULL = NULL
  Client = {c1, c2}
  Thread = {t1, t2}
  SessionId = {1, 2}
  Requests = {"SETUP", "PLAY", "TEARDOWN", "OPTIONS", "malformed", "none"}
  Transports <- MCTransports
  Environments <- MCEnvironments
  MaxRequests <- MCMaxRequests
INVARIANTS TypeOK ReadyToPlay OnlyPlayingStreams SessionCanBeEnded
PROPERTIES Answered StreamEnds ServerIsSession
CHECK_DEADLOCK FALSE
