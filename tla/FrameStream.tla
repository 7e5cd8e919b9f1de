----------------------------- MODULE FrameStream -----------------------------
(***************************************************************************)
(* What a receiver may rely on: the frames of one file, all of them, in    *)
(* order, each sent under its own number and under the source number of    *)
(* the stream.  After the last frame the stream stops and is rewound.      *)
(***************************************************************************)
EXTENDS Integers

CONSTANTS Video, Frames, Ssrc, NULL

VARIABLES
  source,   \* the open file, or NULL
  tag,      \* the source number of the open stream, 0 when it is closed
  playing,  \* are frames being sent?
  next,     \* the next frame
  sent      \* the last packet sent

vars == <<source, tag, playing, next, sent>>

Init ==
  /\ source = NULL
  /\ tag = 0
  /\ playing = FALSE
  /\ next = 0
  /\ sent = NULL

Open ==
  /\ source = NULL
  /\ source' \in Video
  /\ tag' \in Ssrc
  /\ UNCHANGED <<playing, next, sent>>

Play ==
  /\ source # NULL
  /\ playing' = TRUE
  /\ UNCHANGED <<source, tag, next, sent>>

SendFrame ==
  /\ playing
  /\ next < Frames[source]
  /\ sent' = [seq |-> next, ssrc |-> tag, video |-> source, frame |-> next]
  /\ next' = next + 1
  /\ UNCHANGED <<source, tag, playing>>

Stop ==
  /\ playing
  /\ next = Frames[source]
  /\ playing' = FALSE
  /\ next' = 0
  /\ UNCHANGED <<source, tag, sent>>

Close ==
  /\ source # NULL
  /\ source' = NULL
  /\ tag' = 0
  /\ playing' = FALSE
  /\ next' = 0
  /\ UNCHANGED sent

Next == Open \/ Play \/ SendFrame \/ Stop \/ Close

Spec == Init /\ [][Next]_vars
==============================================================================
