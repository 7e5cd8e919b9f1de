------------------------------ MODULE VideoFile ------------------------------
(***************************************************************************)
(* The video files the server streams.  A file is a sequence of frames,    *)
(* each a decimal length field of NUMBER_SIZE bytes followed by as many    *)
(* bytes of image.  What the server does with a file depends only on where *)
(* its frames start, so a file is its table of frame offsets.              *)
(***************************************************************************)
EXTENDS Integers

CONSTANTS
  Video,      \* names of the files below the server's directory
  Frames,     \* Frames[v]: number of frames of v
  FrameStart, \* FrameStart[v][k]: offset of the length field of frame k;
              \* FrameStart[v][Frames[v]] is the size of the file
  GarbageLen  \* what atoi may return for bytes that are no length field

NUMBER_SIZE == 5

ASSUME FramesAssumption == Frames \in [Video -> Nat]

ASSUME FrameStartAssumption ==
  \A v \in Video :
    /\ FrameStart[v] \in [0 .. Frames[v] -> Nat]
    /\ FrameStart[v][0] = 0
    /\ \A j, k \in 0 .. Frames[v] :
         j < k => FrameStart[v][j] + NUMBER_SIZE <= FrameStart[v][k]

ASSUME GarbageAssumption == GarbageLen \subseteq Nat /\ GarbageLen # {}

FileSize(v) == FrameStart[v][Frames[v]]

(* fread of a length field: it fails when fewer than NUMBER_SIZE bytes are *)
(* left.                                                                   *)
CanReadLength(v, pos) == pos + NUMBER_SIZE <= FileSize(v)

(* The frames whose length field is at pos: one frame, or none.            *)
FramesAt(v, pos) == {k \in 0 .. Frames[v] - 1 : FrameStart[v][k] = pos}

FrameLen(v, k) == FrameStart[v][k + 1] - FrameStart[v][k] - NUMBER_SIZE

(* The value of the length field read at pos.  Between two length fields   *)
(* the bytes are image data, and beyond the end the buffer is              *)
(* uninitialised: both give an arbitrary number.                           *)
LengthsAt(v, pos) ==
  IF FramesAt(v, pos) # {}
    THEN {FrameLen(v, k) : k \in FramesAt(v, pos)}
    ELSE GarbageLen
==============================================================================
