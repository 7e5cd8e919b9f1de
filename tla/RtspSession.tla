----------------------------- MODULE RtspSession -----------------------------
(***************************************************************************)
(* The RTSP session a client may rely on: SETUP opens it under an id that  *)
(* stays the same, PLAY streams, the stream comes to its end and can be    *)
(* played again, TEARDOWN ends stream and session together.                *)
(***************************************************************************)
CONSTANTS SessionId, NoSession

VARIABLES
  status,    \* INIT, READY or PLAYING
  session,   \* id of the open session, NoSession in INIT
  streaming  \* are packets being sent, or about to be?

vars == <<status, session, streaming>>

Init ==
  /\ status = "INIT"
  /\ session = NoSession
  /\ streaming = FALSE

Setup ==
  /\ status = "INIT"
  /\ status' = "READY"
  /\ session' \in SessionId
  /\ UNCHANGED streaming

Play ==
  /\ status # "INIT"
  /\ status' = "PLAYING"
  /\ streaming' = TRUE
  /\ UNCHANGED session

EndOfStream ==
  /\ streaming
  /\ streaming' = FALSE
  /\ UNCHANGED <<status, session>>

Teardown ==
  /\ status # "INIT"
  /\ status' = "INIT"
  /\ session' = NoSession
  /\ streaming' = FALSE

Next == Setup \/ Play \/ EndOfStream \/ Teardown

Spec == Init /\ [][Next]_vars
==============================================================================
