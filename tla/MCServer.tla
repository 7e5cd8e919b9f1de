------------------------------- MODULE MCServer ------------------------------
(* Values for model checking RtspServer: one file of one frame.            *)
EXTENDS RtspServer

MCVideo == {"tmp.Mjpeg"}
MCFrameStart == [v \in MCVideo |-> [k \in 0 .. 1 |-> <<0, 6>>[k + 1]]]
MCFrames == [v \in MCVideo |-> 1]

MCTransports == {[protocol |-> "rtp/udp", port |-> 25000], [protocol |-> "rtp/tcp", port |-> 0]}

(* Apart, from the client program: enough for two sessions and a request   *)
(* of the other client in one of them.  Apart, with other lines and other  *)
(* families: enough for a session and a request refused in it.  Else:      *)
(* enough for requests to overlap.                                         *)
MCEnvironments == {{"apart", "inet", "plain"}, {"apart"}, {"inet", "plain"}, {}}
MCMaxRequests ==
  [e \in MCEnvironments |->
     IF e = {"apart", "inet", "plain"} THEN 5 ELSE IF e = {} THEN 2 ELSE 3]
MCOverlapping == {{"inet", "plain"}}
MCMaxOverlapping == [e \in MCOverlapping |-> 3]
==============================================================================
