SPECIFICATION FairSpec
CONSTANTS
  Video <- MCVideo
  Frames <- MCFrames
  FrameStart <- MCFrameStart
  GarbageLen = {0, 3}
  Handlers = {h1, h2}
  SeqMod = 4
  Ssrc = {11, 12}
  Overlap = FALSE
  NULL = NULL
  Kept = {TRUE, FALSE}
INVARIANTS TypeOK CountsAllFrames InSync FreshStart OnlyPlayingStreams NeverFaults PlaybackInv
PROPERTIES StreamSpec StreamEnds
CHECK_DEADLOCK FALSE
