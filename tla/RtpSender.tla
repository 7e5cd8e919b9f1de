------------------------------ MODULE RtpSender ------------------------------
(***************************************************************************)
(* The RTP half of the server: the static variables of                     *)
(* server/RTPPacketUtility.c and the functions that work on them.  The     *)
(* module has no next-state relation of its own.  RtpPlayback calls its    *)
(* operations from one caller, RtspServer from the request threads.        *)
(*                                                                         *)
(* catchAlarm is a signal handler: the kernel may run it in any thread of  *)
(* the process, at any point of the other threads, and a second one while  *)
(* the first is slow.  Each element of Handlers is one such execution, in  *)
(* steps that end where the code makes its system calls.                   *)
(***************************************************************************)
EXTENDS VideoFile

CONSTANTS
  Handlers,   \* executions of catchAlarm that can be in progress
  SeqMod,     \* 2^16: frame_number is a u_int16
  Ssrc,       \* the numbers getRandomNumber may return
  Overlap,    \* may a handler be interleaved with other code?
  NULL

ASSUME SenderAssumption ==
  /\ NULL \notin Video
  /\ SeqMod \in Nat \ {0}
  /\ 0 \notin Ssrc
  /\ Overlap \in BOOLEAN

VARIABLES
  rtp_timer,         \* is the interval timer armed?
  video_file_name,   \* file being streamed, or NULL
  next_frame_start,  \* file offset of the next frame to send
  frame_number,      \* RTP sequence number, modulo SeqMod
  frame_total,       \* frames counted by getVideoInfo
  ssrc,              \* RTP source number, 0 when there is none
  hpc,               \* control state of each handler
  reading,           \* file, position and length each handler has read
  packet,            \* packet built by each handler
  wire,              \* the last packet given to sendto
  up                 \* FALSE once the process has faulted

streamVars == <<video_file_name, next_frame_start, frame_number, frame_total, ssrc>>
handlerVars == <<hpc, reading, packet>>
senderVars == <<rtp_timer, streamVars, handlerVars, wire, up>>

NoFrame == -1   \* the payload is not a frame of the file

Packet == [seq : 0 .. SeqMod - 1, ssrc : Ssrc, video : Video, frame : Nat \cup {NoFrame}]

NoFile == [video |-> NULL, pos |-> 0, len |-> 0]

SenderTypeOK ==
  /\ rtp_timer \in BOOLEAN
  /\ video_file_name \in Video \cup {NULL}
  /\ next_frame_start \in Nat
  /\ frame_number \in 0 .. SeqMod - 1
  /\ frame_total \in Nat
  /\ ssrc \in Ssrc \cup {0}
  /\ hpc \in [Handlers -> {"idle", "test", "rewind", "open", "length", "header",
                           "socket", "send", "count"}]
  /\ reading \in [Handlers -> [video : Video \cup {NULL}, pos : Nat, len : Nat]]
  /\ packet \in [Handlers -> Packet \cup {NULL}]
  /\ \A h \in Handlers :
       /\ hpc[h] \in {"length", "header"} => reading[h].video \in Video
       /\ hpc[h] \in {"socket", "send"} => packet[h] \in Packet
  /\ wire \in Packet \cup {NULL}
  /\ up \in BOOLEAN

SenderInit ==
  /\ rtp_timer = FALSE
  /\ video_file_name = NULL
  /\ next_frame_start = 0
  /\ frame_number = 0
  /\ frame_total = 0
  /\ ssrc = 0
  /\ hpc = [h \in Handlers |-> "idle"]
  /\ reading = [h \in Handlers |-> NoFile]
  /\ packet = [h \in Handlers |-> NULL]
  /\ wire = NULL
  /\ up = TRUE

NoHandlerRuns == \A h \in Handlers : hpc[h] = "idle"

(* Without Overlap a handler runs to its end before any other code does.   *)
MayRun == up /\ (Overlap \/ NoHandlerRuns)

------------------------------------------------------------------------------
(* getVideoInfo counts the frames of a file: pos is the position in the    *)
(* file and count the number of frames so far, both local to the caller.   *)
(* After a frame it seeks to next_frame_start, which is global: that is    *)
(* the caller's next pos.                                                  *)

(* Seeded fault: the length field itself is not skipped.                   *)
ScanFrame_noField(video, pos) ==
  /\ CanReadLength(video, pos)
  /\ \E len \in LengthsAt(video, pos) : next_frame_start' = next_frame_start + len
  /\ UNCHANGED <<video_file_name, frame_number, frame_total, ssrc>>

ScanFrame(video, pos) ==
  /\ CanReadLength(video, pos)
  /\ \E len \in LengthsAt(video, pos) :
       next_frame_start' = next_frame_start + NUMBER_SIZE + len
  /\ UNCHANGED <<video_file_name, frame_number, frame_total, ssrc>>

(* Seeded fault: the file is not published.                                *)
ScanDone_noName(video, pos, count) ==
  /\ ~ CanReadLength(video, pos)
  /\ ssrc' \in Ssrc
  /\ frame_total' = count
  /\ next_frame_start' = 0
  /\ UNCHANGED <<video_file_name, frame_number>>

ScanDone(video, pos, count) ==
  /\ ~ CanReadLength(video, pos)
  /\ video_file_name' = video
  /\ ssrc' \in Ssrc
  /\ frame_total' = count
  /\ next_frame_start' = 0
  /\ UNCHANGED frame_number

StartRTPProgress == rtp_timer' = TRUE

(* Seeded fault: the timer is left armed.                                  *)
StopRTPProgress_noop == UNCHANGED rtp_timer

StopRTPProgress == rtp_timer' = FALSE

(* Seeded fault: the wrong status is tested.                               *)
StopIfPlaying_ready(st) == IF st = "READY" THEN StopRTPProgress ELSE UNCHANGED rtp_timer

(* closeVideoStream first disarms the timer, if the status is PLAYING ...   *)
StopIfPlaying(st) == IF st = "PLAYING" THEN StopRTPProgress ELSE UNCHANGED rtp_timer

(* Seeded fault: the sequence number is kept.                              *)
ResetStream_keepNumber ==
  /\ video_file_name' = NULL
  /\ next_frame_start' = 0
  /\ frame_total' = 0
  /\ ssrc' = 0
  /\ UNCHANGED frame_number

(* ... then initialises the variables of the stream.                       *)
ResetStream ==
  /\ video_file_name' = NULL
  /\ next_frame_start' = 0
  /\ frame_number' = 0
  /\ frame_total' = 0
  /\ ssrc' = 0

------------------------------------------------------------------------------
(* catchAlarm                                                              *)

(* Seeded fault: one frame too few.                                        *)
AtEnd_early == frame_total <= frame_number + 1

(* Seeded fault: one frame too many.                                       *)
AtEnd_late == frame_total < frame_number

AtEnd == frame_total <= frame_number

Goto(h, pc) == hpc' = [hpc EXCEPT ![h] = pc]

(* The timer expires: SIGALRM is pending for, or delivered to, a thread.   *)
Alarm(h) ==
  /\ MayRun
  /\ rtp_timer
  /\ hpc[h] = "idle"
  /\ Goto(h, "test")
  /\ UNCHANGED <<rtp_timer, streamVars, reading, packet, wire, up>>

(* All frames sent: stop the timer ...                                     *)
Finish(h) ==
  /\ up
  /\ hpc[h] = "test"
  /\ AtEnd
  /\ StopRTPProgress
  /\ Goto(h, "rewind")
  /\ UNCHANGED <<streamVars, reading, packet, wire, up>>

(* Seeded fault: the file offset is kept.                                  *)
Rewind_keepStart(h) ==
  /\ up
  /\ hpc[h] = "rewind"
  /\ frame_number' = 0
  /\ Goto(h, "idle")
  /\ UNCHANGED <<rtp_timer, video_file_name, next_frame_start, frame_total, ssrc, reading, packet, wire, up>>

(* ... and rewind.                                                         *)
Rewind(h) ==
  /\ up
  /\ hpc[h] = "rewind"
  /\ frame_number' = 0
  /\ next_frame_start' = 0
  /\ Goto(h, "idle")
  /\ UNCHANGED <<rtp_timer, video_file_name, frame_total, ssrc, reading, packet, wire, up>>

(* Seeded fault: the packet is sent before it is constructed.              *)
HasFrame_noPacket(h) ==
  /\ up
  /\ hpc[h] = "test"
  /\ ~ AtEnd
  /\ Goto(h, "send")
  /\ UNCHANGED <<rtp_timer, streamVars, reading, packet, wire, up>>

HasFrame(h) ==
  /\ up
  /\ hpc[h] = "test"
  /\ ~ AtEnd
  /\ Goto(h, "open")
  /\ UNCHANGED <<rtp_timer, streamVars, reading, packet, wire, up>>

(* constructRTPPacket opens the file video_file_name names.  The pointer   *)
(* is to the url in the stack frame of the SETUP thread, so names is what  *)
(* may be read there now: names of files, NULL standing for what names     *)
(* none.  Then fopen returns NULL and fseek dereferences it.               *)
FaultNoFile(h, names) ==
  /\ up
  /\ hpc[h] = "open"
  /\ NULL \in names
  /\ up' = FALSE
  /\ UNCHANGED <<rtp_timer, streamVars, handlerVars, wire>>

OpenVideo(h, names) ==
  /\ up
  /\ hpc[h] = "open"
  /\ \E v \in names \ {NULL} : reading' = [reading EXCEPT ![h].video = v]
  /\ Goto(h, "length")
  /\ UNCHANGED <<rtp_timer, streamVars, packet, wire, up>>

(* The lengths that may be read of v at next_frame_start: when fread fails *)
(* it only reports the error and converts the uninitialised buffer.        *)
NextLengths(v) ==
  IF CanReadLength(v, next_frame_start) THEN LengthsAt(v, next_frame_start) ELSE GarbageLen

(* fseek to next_frame_start and fread of the length field there.          *)
ReadLength(h) ==
  /\ up
  /\ hpc[h] = "length"
  /\ \E len \in NextLengths(reading[h].video) :
       reading' = [reading EXCEPT ![h].pos = next_frame_start, ![h].len = len]
  /\ Goto(h, "header")
  /\ UNCHANGED <<rtp_timer, streamVars, packet, wire, up>>

(* closeVideoStream has run: getFileType gives NULL to strrchr.            *)
FaultNoName(h) ==
  /\ up
  /\ hpc[h] = "header"
  /\ video_file_name = NULL
  /\ up' = FALSE
  /\ UNCHANGED <<rtp_timer, streamVars, handlerVars, wire>>

(* The packet of what was read.  Of a name that is stale only the type of  *)
(* the payload is taken.                                                   *)
PacketsOf(h) ==
  LET at == FramesAt(reading[h].video, reading[h].pos) IN
  {[seq |-> frame_number, ssrc |-> ssrc', video |-> reading[h].video, frame |-> k] :
     k \in IF at = {} THEN {NoFrame} ELSE at}

(* The offset is advanced from where it is by now, by what was read.       *)
SetRTPPacketHeader(h) ==
  /\ up
  /\ hpc[h] = "header"
  /\ video_file_name # NULL
  /\ next_frame_start' = next_frame_start + NUMBER_SIZE + reading[h].len
  /\ ssrc' \in IF ssrc = 0 THEN Ssrc ELSE {ssrc}
  /\ \E p \in PacketsOf(h) : packet' = [packet EXCEPT ![h] = p]
  /\ reading' = [reading EXCEPT ![h] = NoFile]
  /\ Goto(h, "socket")
  /\ UNCHANGED <<rtp_timer, video_file_name, frame_number, frame_total, wire, up>>

(* A socket for the packet.  What it reads of the server's variables is    *)
(* left to RtspServer.                                                     *)
SetupServerUDPSocket(h) ==
  /\ up
  /\ hpc[h] = "socket"
  /\ Goto(h, "send")
  /\ UNCHANGED <<rtp_timer, streamVars, reading, packet, wire, up>>

(* sendto, an error of which is only reported ...                          *)
SendPacket(h) ==
  /\ up
  /\ hpc[h] = "send"
  /\ wire' = packet[h]
  /\ packet' = [packet EXCEPT ![h] = NULL]
  /\ Goto(h, "count")
  /\ UNCHANGED <<rtp_timer, streamVars, reading, up>>

(* ... and the increment after the socket is closed.                       *)
CountFrame(h) ==
  /\ up
  /\ hpc[h] = "count"
  /\ frame_number' = (frame_number + 1) % SeqMod
  /\ Goto(h, "idle")
  /\ UNCHANGED <<rtp_timer, video_file_name, next_frame_start, frame_total, ssrc, reading, packet, wire, up>>

CatchAlarm(h, names) ==
  \/ Alarm(h)
  \/ Finish(h)
  \/ Rewind(h)
  \/ HasFrame(h)
  \/ FaultNoFile(h, names)
  \/ OpenVideo(h, names)
  \/ ReadLength(h)
  \/ FaultNoName(h)
  \/ SetRTPPacketHeader(h)
  \/ SetupServerUDPSocket(h)
  \/ SendPacket(h)
  \/ CountFrame(h)
==============================================================================
