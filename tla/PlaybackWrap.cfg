SPECIFICATION FairSpec
CONSTANTS
  Video = {"tmp.Mjpeg"}
  Frames <- MCFrames
  FrameStart <- MCFrameStart
  GarbageLen = {0, 3}
  Handlers = {h1, h2}
  SeqMod = 2
  Ssrc = {11}
  Overlap = FALSE
  NULL = NULL
  Kept = {TRUE}
INVARIANT OnlyFrames
