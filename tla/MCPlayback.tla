------------------------------ MODULE MCPlayback -----------------------------
(* Values for model checking RtpPlayback: a file of two frames and a file  *)
(* of three, one of them empty.                                            *)
EXTENDS RtpPlayback

MCVideo == {"tmp.Mjpeg", "long.Mjpeg"}

MCFrameStart == [v \in Video |->
  IF v = "tmp.Mjpeg" THEN [k \in 0 .. 2 |-> <<0, 6, 13>>[k + 1]]
                     ELSE [k \in 0 .. 3 |-> <<0, 7, 12, 18>>[k + 1]]]

MCFrames == [v \in Video |-> IF v = "tmp.Mjpeg" THEN 2 ELSE 3]
==============================================================================
