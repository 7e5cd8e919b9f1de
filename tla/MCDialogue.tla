------------------------------ MODULE MCDialogue -----------------------------
(* Values for model checking RtspDialogue.                                 *)
EXTENDS RtspDialogue

MCFile == <<"videos", "/", "tmp.Mjpeg">>
MCOtherName == <<"..", "/", "videos", "/", "/", "tmp.Mjpeg">>
MCExisting == {MCFile, <<"videos">>, <<".">>}
MCCases == {<<9, MCFile, "Wednesday">>, <<25000, MCOtherName, "Monday">>, <<65535, MCFile, "Tuesday">>, <<65535, MCOtherName, "Saturday">>}

(* The client's only port, and the longest name of a day.                  *)
MCLongest == {<<25000, MCFile, "Wednesday">>}
==============================================================================
