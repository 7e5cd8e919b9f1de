----------------------------- MODULE RtpPlayback -----------------------------
(***************************************************************************)
(* The RTP sender driven by one caller that performs the stream operations *)
(* of sendOK one after the other: SETUP scans the file, PLAY arms the      *)
(* timer, TEARDOWN closes the stream.                                      *)
(***************************************************************************)
EXTENDS RtpSender

CONSTANT Kept  \* the values of kept to be checked

ASSUME KeptAssumption == Kept \subseteq BOOLEAN

VARIABLES
  kept,    \* never changes: is the memory video_file_name points to, in the
           \* stack of the ended SETUP thread, left as it was?
  status,  \* the server's status
  scan     \* locals of the getVideoInfo in progress: file, position, count

vars == <<senderVars, kept, status, scan>>

Idle == [video |-> NULL, pos |-> 0, count |-> 0]

(* Each value is of its kind.                                              *)
TypeOK ==
  /\ SenderTypeOK
  /\ kept \in Kept
  /\ status \in {"INIT", "READY", "PLAYING"}
  /\ scan \in [video : Video \cup {NULL}, pos : Nat, count : Nat]

Init ==
  /\ SenderInit
  /\ kept \in Kept
  /\ status = "INIT"
  /\ scan = Idle

------------------------------------------------------------------------------
(* SETUP, only valid in INIT: getVideoInfo opens the file ...              *)
Setup(v) ==
  /\ MayRun
  /\ status = "INIT"
  /\ scan.video = NULL
  /\ scan' = [video |-> v, pos |-> 0, count |-> 0]
  /\ UNCHANGED <<senderVars, kept, status>>

(* ... reads one length field after the other ...                          *)
Scan ==
  /\ MayRun
  /\ scan.video # NULL
  /\ ScanFrame(scan.video, scan.pos)
  /\ scan' = [scan EXCEPT !.pos = next_frame_start', !.count = @ + 1]
  /\ UNCHANGED <<rtp_timer, handlerVars, wire, up, kept, status>>

(* ... and publishes the file; sendOK sets the status.                     *)
SetupDone ==
  /\ MayRun
  /\ scan.video # NULL
  /\ ScanDone(scan.video, scan.pos, scan.count)
  /\ status' = "READY"
  /\ scan' = Idle
  /\ UNCHANGED <<rtp_timer, handlerVars, wire, up, kept>>

(* PLAY is valid in READY and in PLAYING.                                  *)
Play ==
  /\ MayRun
  /\ status # "INIT"
  /\ status' = "PLAYING"
  /\ StartRTPProgress
  /\ UNCHANGED <<streamVars, handlerVars, wire, up, kept, scan>>

(* TEARDOWN closes the stream; its session check fails in INIT.            *)
Teardown ==
  /\ MayRun
  /\ status # "INIT"
  /\ StopIfPlaying(status)
  /\ ResetStream
  /\ status' = "INIT"
  /\ UNCHANGED <<handlerVars, wire, up, kept, scan>>

Caller ==
  \/ \E v \in Video : Setup(v)
  \/ Scan
  \/ SetupDone
  \/ Play
  \/ Teardown

(* What the handler may find where video_file_name points: sendOK has      *)
(* returned, and with it the thread whose url getVideoInfo kept.           *)
NamesHeld ==
  IF kept \/ video_file_name = NULL THEN {video_file_name} ELSE Video \cup {NULL}

HandlerStep(h) == CatchAlarm(h, NamesHeld) /\ UNCHANGED <<kept, status, scan>>

Handler == \E h \in Handlers : HandlerStep(h)

Next == Caller \/ Handler

Spec == Init /\ [][Next]_vars

(* The kernel delivers the signal of an expired timer and runs the handler.*)
FairSpec == Spec /\ \A h \in Handlers : WF_vars(HandlerStep(h))

------------------------------------------------------------------------------
(* The number of frames getVideoInfo counts is the number the file has, so *)
(* the handler stops neither early nor late.                               *)
CountsAllFrames == video_file_name # NULL => frame_total = Frames[video_file_name]

(* The file offset and the sequence number advance together although they  *)
(* are written at different places of the handler, by closeVideoStream and *)
(* at the end of the stream, as long as the file is the one that was       *)
(* scanned.                                                                *)
Advanced == \E h \in Handlers : hpc[h] \in {"socket", "send", "count"}

InSync ==
  kept /\ video_file_name # NULL =>
    next_frame_start =
      FrameStart[video_file_name][IF Advanced THEN frame_number + 1 ELSE frame_number]

(* A stream that is not open is at its beginning: the next SETUP scans     *)
(* from offset 0 and the next session starts with frame 0.                 *)
FreshStart ==
  status = "INIT" =>
    /\ frame_number = 0
    /\ scan.video = NULL => next_frame_start = 0

(* Packets are only sent in PLAYING, the one status in which               *)
(* closeVideoStream disarms the timer.                                     *)
OnlyPlayingStreams == rtp_timer => status = "PLAYING"

(* Every packet sent carries a frame of the file.                          *)
OnlyFrames == wire # NULL => wire.frame # NoFrame

(* The handler finds a file to open and a name for its type: it never runs *)
(* after closeVideoStream.  Where the dead stack has been written over it  *)
(* may fault all the same.                                                 *)
NeverFaults == kept => up

(* The frame the stream goes on with, between the steps of a handler.      *)
NextFrame ==
  CASE \E h \in Handlers : hpc[h] = "rewind" -> 0
    [] \E h \in Handlers : hpc[h] = "count" -> frame_number + 1
    [] OTHER -> frame_number

(* Playback implements the stream of frames a receiver relies on, as long  *)
(* as the handler finds the name of the file that was scanned.             *)
Stream == INSTANCE FrameStream WITH
  source <- video_file_name,
  tag <- ssrc,
  playing <- rtp_timer,
  next <- NextFrame,
  sent <- wire

StreamSpec == Stream!Init /\ [][kept => Stream!Next \/ UNCHANGED Stream!vars]_vars

(* A stream that plays comes to its end: the handler disarms the timer.    *)
StreamEnds == rtp_timer ~> (~ rtp_timer \/ ~ up)

------------------------------------------------------------------------------
(* What the safety properties rest on when a handler runs to its end before*)
(* other code does and no file has more frames than frame_number can hold. *)
VideosFit == \A v \in Video : Frames[v] < SeqMod

(* Only one handler runs, only while the timer is armed or just disarmed.  *)
OneHandler ==
  /\ \A h \in Handlers :
       hpc[h] # "idle" => status = "PLAYING" /\ (rtp_timer \/ hpc[h] = "rewind")
  /\ \A g, h \in Handlers : hpc[g] # "idle" /\ hpc[h] # "idle" => g = h

(* The file is open exactly out of INIT; the other variables of the stream *)
(* are clear when it is not.                                               *)
OpenOutOfInit ==
  /\ status = "INIT" <=> video_file_name = NULL
  /\ video_file_name = NULL <=> ssrc = 0
  /\ scan.video # NULL => status = "INIT"

(* A scan stands at the start of a frame, or at the end of the file, and   *)
(* has counted the frames before it.                                       *)
ScanAtFrame ==
  scan.video # NULL =>
    /\ scan.count <= Frames[scan.video]
    /\ scan.pos = FrameStart[scan.video][scan.count]
    /\ next_frame_start = scan.pos

(* A handler past its test has a frame to send, reads it where it is, and  *)
(* past the construction it has built the packet of that frame.            *)
ReadsDueFrame(h) ==
  /\ hpc[h] \in {"length", "header"} => reading[h].video = video_file_name
  /\ hpc[h] = "header" =>
       reading[h].pos = next_frame_start /\ reading[h].len = FrameLen(video_file_name, frame_number)
  /\ hpc[h] \in {"socket", "send"} =>
       packet[h] = [seq |-> frame_number, ssrc |-> ssrc,
                    video |-> video_file_name, frame |-> frame_number]

HandlerHasFrame ==
  /\ video_file_name # NULL => frame_number <= Frames[video_file_name]
  /\ \A h \in Handlers :
       /\ hpc[h] \in {"open", "length", "header", "socket", "send", "count"} =>
            frame_number < frame_total
       /\ kept => ReadsDueFrame(h)

(* The inductive invariant of playback.                                    *)
PlaybackInv ==
  /\ TypeOK
  /\ NeverFaults
  /\ OnlyPlayingStreams
  /\ OneHandler
  /\ OpenOutOfInit
  /\ ScanAtFrame
  /\ HandlerHasFrame
  /\ CountsAllFrames
  /\ InSync
  /\ FreshStart
==============================================================================
