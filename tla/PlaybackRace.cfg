SPECIFICATION FairSpec
CONSTANTS
  Video = {"tmp.Mjpeg"}
  Frames <- MCFrames
  FrameStart <- MCFrameStart
  GarbageLen = {0, 3}
  Handlers = {h1, h2}
  SeqMod = 16
  Ssrc = {11}
  Overlap = TRUE
  NULL = NULL
  Kept = {TRUE}
INVARIANT FreshStart
CHECK_DEADLOCK FALSE
