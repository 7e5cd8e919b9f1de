--------------------------- MODULE RtpPlaybackProofs -------------------------
(***************************************************************************)
(* Theorems about RtpPlayback, for all files, handlers and number widths.  *)
(***************************************************************************)
EXTENDS RtpPlayback, RtpSenderProofs

(* Type correctness, with or without interleaved handlers.                 *)
LEMMA TypeInit == Init => TypeOK
<1>1. Init => scan \in [video : Video \cup {NULL}, pos : Nat, count : Nat]
  BY DEF Init, Idle
<1> QED BY <1>1, SenderTypeInit DEF Init, TypeOK

(* What video_file_name points to names a file or none.                    *)
LEMMA NamesHeldType ==
  ASSUME TypeOK
  PROVE  NamesHeld \in SUBSET (Video \cup {NULL})
BY DEF NamesHeld, TypeOK, SenderTypeOK

LEMMA TypeStep == TypeOK /\ [Next]_vars => TypeOK'
<1>0. 0 \in 0 .. SeqMod - 1
  BY SenderAssumption
<1> SUFFICES ASSUME TypeOK, [Next]_vars
             PROVE  TypeOK'
  OBVIOUS
<1> USE SenderAssumption DEF TypeOK, SenderTypeOK
<1>1. ASSUME NEW v \in Video, Setup(v)
      PROVE  TypeOK'
  BY <1>1 DEF Setup, senderVars, streamVars, handlerVars
<1>2. CASE Scan
  <2>1. scan.video \in Video /\ scan.pos \in Nat
    BY <1>2 DEF Scan
  <2>2. next_frame_start' \in Nat
    BY <1>2, <2>1, ScanType DEF Scan
  <2>3. scan' \in [video : Video \cup {NULL}, pos : Nat, count : Nat]
    <3>1. scan' = [video |-> scan.video, pos |-> next_frame_start', count |-> scan.count + 1]
      BY <1>2 DEF Scan
    <3>2. scan.count + 1 \in Nat /\ scan.video \in Video \cup {NULL}
      OBVIOUS
    <3> QED BY <2>2, <3>1, <3>2
  <2> QED BY <1>2, <2>2, <2>3 DEF Scan, ScanFrame, handlerVars
<1>3. CASE SetupDone
  BY <1>3 DEF SetupDone, ScanDone, Idle, handlerVars
<1>4. CASE Play
  BY <1>4 DEF Play, StartRTPProgress, streamVars, handlerVars
<1>5. CASE Teardown
  BY <1>5, <1>0 DEF Teardown, StopIfPlaying, StopRTPProgress, ResetStream, handlerVars
<1>6. ASSUME NEW h \in Handlers, HandlerStep(h)
      PROVE  TypeOK'
  <2>1. SenderTypeOK'
    BY <1>6, NamesHeldType, HandlerType DEF HandlerStep
  <2> QED BY <1>6, <2>1 DEF HandlerStep
<1>7. CASE UNCHANGED vars
  BY <1>7 DEF vars, senderVars, streamVars, handlerVars
<1> QED BY <1>1, <1>2, <1>3, <1>4, <1>5, <1>6, <1>7 DEF Next, Caller, Handler

(* Every value stays of its kind; frame_number stays a u_int16.            *)
THEOREM TypeCorrect == Spec => []TypeOK
BY TypeInit, TypeStep, PTL DEF Spec

------------------------------------------------------------------------------
(* What holds of files of any length.  With the two conjuncts of           *)
(* PlaybackInv that VideosFit is needed for it is PlaybackInv.             *)
SessionInv ==
  /\ TypeOK
  /\ NeverFaults
  /\ OnlyPlayingStreams
  /\ OneHandler
  /\ OpenOutOfInit
  /\ ScanAtFrame
  /\ CountsAllFrames
  /\ FreshStart

LEMMA PlaybackParts == PlaybackInv <=> SessionInv /\ HandlerHasFrame /\ InSync
BY DEF PlaybackInv, SessionInv

(* A handler that is past its alarm runs alone, over an open file.         *)
LEMMA HandlerAlone ==
  ASSUME SessionInv, NEW h \in Handlers, hpc[h] # "idle"
  PROVE  /\ rtp_timer \/ hpc[h] = "rewind"
         /\ status = "PLAYING"
         /\ video_file_name \in Video
         /\ ssrc \in Ssrc
         /\ scan.video = NULL
         /\ frame_total = Frames[video_file_name]
         /\ \A g \in Handlers \ {h} : hpc[g] = "idle"
<1> USE DEF SessionInv
<1>1. (rtp_timer \/ hpc[h] = "rewind") /\ status = "PLAYING"
  BY DEF OneHandler
<1>2. video_file_name # NULL /\ ssrc # 0 /\ scan.video = NULL
  BY <1>1 DEF OpenOutOfInit
<1>3. video_file_name \in Video /\ ssrc \in Ssrc
  BY <1>2 DEF TypeOK, SenderTypeOK
<1>4. frame_total = Frames[video_file_name]
  BY <1>2 DEF CountsAllFrames
<1>5. \A g \in Handlers \ {h} : hpc[g] = "idle"
  BY DEF OneHandler
<1> QED BY <1>1, <1>2, <1>3, <1>4, <1>5

(* Where the name is kept it is the name of that file.                     *)
LEMMA NoFault ==
  ASSUME SessionInv, NEW h \in Handlers
  PROVE  /\ ~ FaultNoName(h)
         /\ kept => ~ FaultNoFile(h, NamesHeld)
<1>1. hpc[h] # "idle" => video_file_name # NULL
  BY HandlerAlone, SenderAssumption
<1> QED BY <1>1 DEF FaultNoName, FaultNoFile, NamesHeld

(* A call that runs while no handler does keeps the session's part.        *)
LEMMA CallerKeeps ==
  ASSUME Overlap = FALSE, SessionInv, TypeOK', Caller
  PROVE  SessionInv'
<1>1. NoHandlerRuns /\ up
  BY DEF Caller, Setup, Scan, SetupDone, Play, Teardown, MayRun
<1>2. ASSUME hpc' = hpc, up' = up,
             OnlyPlayingStreams', OpenOutOfInit', ScanAtFrame', CountsAllFrames', FreshStart'
      PROVE  SessionInv'
  BY <1>1, <1>2 DEF SessionInv, NeverFaults, OneHandler, NoHandlerRuns
<1>3. ASSUME NEW v \in Video, Setup(v)
      PROVE  SessionInv'
  <2>1. /\ status = "INIT" /\ scan.video = NULL
        /\ scan' = [video |-> v, pos |-> 0, count |-> 0]
        /\ UNCHANGED <<rtp_timer, video_file_name, next_frame_start, frame_number, frame_total,
                       ssrc, hpc, up, status>>
    BY <1>3 DEF Setup, senderVars, streamVars, handlerVars
  <2>2. next_frame_start = 0
    BY <2>1 DEF SessionInv, FreshStart
  <2>3. 0 <= Frames[v] /\ FrameStart[v][0] = 0 /\ v # NULL
    BY FrameStarts, FrameStartAssumption, SenderAssumption
  <2>4. ScanAtFrame'
    BY <2>1, <2>2, <2>3 DEF ScanAtFrame
  <2>5. OpenOutOfInit' /\ CountsAllFrames' /\ FreshStart' /\ OnlyPlayingStreams'
    BY <2>1, <2>3 DEF SessionInv, OpenOutOfInit, CountsAllFrames, FreshStart, OnlyPlayingStreams
  <2> QED BY <1>2, <2>1, <2>4, <2>5
<1>4. CASE Scan
  <2> DEFINE v == scan.video
             c == scan.count
  <2>1. /\ v \in Video /\ c \in Nat
        /\ status = "INIT" /\ video_file_name = NULL
    BY <1>4 DEF Scan, SessionInv, OpenOutOfInit, TypeOK
  <2>2. /\ c <= Frames[v]
        /\ scan.pos = FrameStart[v][c] /\ next_frame_start = FrameStart[v][c]
        /\ CanReadLength(v, scan.pos)
    BY <1>4 DEF Scan, ScanFrame, SessionInv, ScanAtFrame
  <2>3. c \in 0 .. Frames[v] - 1
    BY <2>1, <2>2, FrameStarts DEF CanReadLength, FileSize, NUMBER_SIZE
  <2>4. LengthsAt(v, scan.pos) = {FrameLen(v, c)}
    BY <2>1, <2>2, <2>3, LengthsRead, FrameStarts
  <2>5. next_frame_start' = FrameStart[v][c + 1]
    BY <1>4, <2>1, <2>2, <2>3, <2>4, FrameStarts DEF Scan, ScanFrame
  <2>6. scan' = [video |-> v, pos |-> next_frame_start', count |-> c + 1]
    BY <1>4 DEF Scan, SessionInv, TypeOK
  <2>7. UNCHANGED <<rtp_timer, video_file_name, frame_number, frame_total, ssrc, hpc, up, status>>
    BY <1>4 DEF Scan, ScanFrame, handlerVars
  <2>8. ScanAtFrame'
    <3>1. c + 1 <= Frames[v]
      BY <2>1, <2>3, FrameStarts
    <3> QED BY <2>5, <2>6, <3>1 DEF ScanAtFrame
  <2>9. v # NULL
    BY <1>4 DEF Scan
  <2>10. OpenOutOfInit' /\ CountsAllFrames' /\ FreshStart' /\ OnlyPlayingStreams'
    BY <2>1, <2>6, <2>7, <2>9
    DEF SessionInv, OpenOutOfInit, CountsAllFrames, FreshStart, OnlyPlayingStreams
  <2> QED BY <1>2, <2>7, <2>8, <2>10
<1>5. CASE SetupDone
  <2> DEFINE v == scan.video
             c == scan.count
  <2>1. /\ v \in Video /\ c \in Nat
        /\ status = "INIT" /\ video_file_name = NULL
    BY <1>5 DEF SetupDone, SessionInv, OpenOutOfInit, TypeOK
  <2>2. /\ c <= Frames[v]
        /\ scan.pos = FrameStart[v][c]
        /\ ~ CanReadLength(v, scan.pos)
    BY <1>5 DEF SetupDone, ScanDone, SessionInv, ScanAtFrame
  <2>3. c = Frames[v]
    <3>1. c \notin 0 .. Frames[v] - 1
      BY <2>1, <2>2, FrameStarts
    <3> QED BY <3>1, <2>1, <2>2, FrameStarts
  <2>4. /\ video_file_name' = v /\ ssrc' \in Ssrc /\ frame_total' = c /\ next_frame_start' = 0
        /\ status' = "READY" /\ scan'.video = NULL
        /\ UNCHANGED <<rtp_timer, frame_number, hpc, up>>
    BY <1>5 DEF SetupDone, ScanDone, Idle, handlerVars
  <2>5. ~ rtp_timer
    BY <2>1 DEF SessionInv, OnlyPlayingStreams
  <2>6. v # NULL /\ ssrc' # 0
    BY <2>1, <2>4, SenderAssumption
  <2>7. OpenOutOfInit' /\ ScanAtFrame' /\ FreshStart'
    BY <2>4, <2>6 DEF OpenOutOfInit, ScanAtFrame, FreshStart
  <2>8. CountsAllFrames' /\ OnlyPlayingStreams'
    BY <2>3, <2>4, <2>5 DEF CountsAllFrames, OnlyPlayingStreams
  <2> QED BY <1>2, <2>4, <2>7, <2>8
<1>6. CASE Play
  <2>1. /\ status # "INIT" /\ status' = "PLAYING"
        /\ UNCHANGED <<video_file_name, next_frame_start, frame_number, frame_total,
                       ssrc, hpc, up, scan>>
    BY <1>6 DEF Play, StartRTPProgress, streamVars, handlerVars
  <2>2. OpenOutOfInit' /\ ScanAtFrame' /\ CountsAllFrames' /\ FreshStart' /\ OnlyPlayingStreams'
    BY <2>1 DEF SessionInv, OpenOutOfInit, ScanAtFrame, CountsAllFrames, FreshStart,
                OnlyPlayingStreams
  <2> QED BY <1>2, <2>1, <2>2
<1>7. CASE Teardown
  <2>1. /\ status # "INIT" /\ status' = "INIT"
        /\ video_file_name' = NULL /\ next_frame_start' = 0 /\ frame_number' = 0
        /\ frame_total' = 0 /\ ssrc' = 0
        /\ UNCHANGED <<hpc, up, scan>>
    BY <1>7 DEF Teardown, ResetStream, handlerVars
  <2>2. scan.video = NULL
    BY <2>1 DEF SessionInv, OpenOutOfInit
  <2>3. ~ rtp_timer'
    BY <1>7 DEF Teardown, StopIfPlaying, StopRTPProgress, SessionInv, OnlyPlayingStreams
  <2>4. OpenOutOfInit' /\ ScanAtFrame' /\ CountsAllFrames' /\ FreshStart' /\ OnlyPlayingStreams'
    BY <2>1, <2>2, <2>3 DEF OpenOutOfInit, ScanAtFrame, CountsAllFrames, FreshStart,
                            OnlyPlayingStreams
  <2> QED BY <1>2, <2>1, <2>4
<1> QED BY <1>3, <1>4, <1>5, <1>6, <1>7 DEF Caller

(* So does a step of a handler: it opens and closes no stream.             *)
LEMMA HandlerKeeps ==
  ASSUME Overlap = FALSE, SessionInv, TypeOK', NEW h \in Handlers, HandlerStep(h)
  PROVE  SessionInv'
<1> USE DEF SessionInv
<1>0. hpc \in [Handlers -> HandlerPCs]
  BY DEF TypeOK, SenderTypeOK, HandlerPCs
<1>1. /\ CatchAlarm(h, NamesHeld)
      /\ UNCHANGED <<kept, status, scan, video_file_name, frame_total>>
      /\ rtp_timer' \in {rtp_timer, FALSE}
  BY HandlerTimer, HandlerKeepsFile DEF HandlerStep
<1>2. CASE Alarm(h)
  <2>1. /\ \A g \in Handlers : hpc[g] = "idle"
        /\ rtp_timer
        /\ Goto(h, "test")
        /\ UNCHANGED <<rtp_timer, next_frame_start, frame_number, ssrc, up>>
    BY <1>2 DEF Alarm, MayRun, NoHandlerRuns, streamVars
  <2>2. \A g \in Handlers : hpc'[g] = "idle" \/ g = h
    BY <1>0, <2>1 DEF Goto
  <2>3. status = "PLAYING"
    BY <2>1 DEF OnlyPlayingStreams
  <2>4. OneHandler'
    BY <1>1, <2>1, <2>2, <2>3 DEF OneHandler
  <2> QED BY <1>1, <2>1, <2>4 DEF OpenOutOfInit, ScanAtFrame, CountsAllFrames, FreshStart,
                                  OnlyPlayingStreams, NeverFaults
<1>3. CASE ~ Alarm(h)
  <2>1. hpc[h] # "idle"
    BY <1>1, <1>3 DEF CatchAlarm, Finish, Rewind, HasFrame, FaultNoFile, OpenVideo, ReadLength,
                      FaultNoName, SetRTPPacketHeader, SetupServerUDPSocket, SendPacket, CountFrame
  <2>2. /\ rtp_timer \/ hpc[h] = "rewind"
        /\ status = "PLAYING" /\ video_file_name \in Video /\ ssrc \in Ssrc
        /\ scan.video = NULL /\ \A g \in Handlers \ {h} : hpc[g] = "idle"
    BY <2>1, HandlerAlone
  <2>3. \/ hpc' = hpc
        \/ \E pc \in HandlerPCs : Goto(h, pc)
    BY <1>1, <1>3
    DEF CatchAlarm, Finish, Rewind, HasFrame, FaultNoFile, OpenVideo, ReadLength, FaultNoName,
        SetRTPPacketHeader, SetupServerUDPSocket, SendPacket, CountFrame, handlerVars, HandlerPCs
  <2>4. \A g \in Handlers : hpc'[g] # "idle" => g = h
    BY <1>0, <2>2, <2>3 DEF Goto
  <2>5. rtp_timer' \/ hpc'[h] \in {"idle", "rewind"}
    <3>1. CASE Finish(h)
      BY <1>0, <3>1 DEF Finish, Goto
    <3>2. CASE Rewind(h)
      BY <1>0, <3>2 DEF Rewind, Goto
    <3>3. CASE ~ Finish(h) /\ ~ Rewind(h)
      <4>1. rtp_timer' = rtp_timer /\ (hpc[h] # "rewind" \/ hpc' = hpc)
        BY <1>1, <1>3, <3>3
        DEF CatchAlarm, HasFrame, FaultNoFile, OpenVideo, ReadLength, FaultNoName,
            SetRTPPacketHeader, SetupServerUDPSocket, SendPacket, CountFrame, handlerVars
      <4> QED BY <2>2, <4>1
    <3> QED BY <3>1, <3>2, <3>3
  <2>6. ssrc' = ssrc
    BY <1>1, <1>3, <2>2, SenderAssumption
    DEF CatchAlarm, Finish, Rewind, HasFrame, FaultNoFile, OpenVideo, ReadLength, FaultNoName,
        SetRTPPacketHeader, SetupServerUDPSocket, SendPacket, CountFrame, streamVars
  <2>7. kept => up' = up
    BY <1>1, <1>3, NoFault
    DEF CatchAlarm, Finish, Rewind, HasFrame, OpenVideo, ReadLength, FaultNoName,
        SetRTPPacketHeader, SetupServerUDPSocket, SendPacket, CountFrame
  <2>8. OneHandler'
    BY <1>1, <2>2, <2>4, <2>5 DEF OneHandler
  <2>9. /\ OpenOutOfInit' /\ ScanAtFrame' /\ CountsAllFrames' /\ FreshStart'
        /\ OnlyPlayingStreams' /\ NeverFaults'
    BY <1>1, <2>2, <2>6, <2>7 DEF OpenOutOfInit, ScanAtFrame, CountsAllFrames, FreshStart,
                      OnlyPlayingStreams, NeverFaults
  <2> QED BY <2>8, <2>9
<1> QED BY <1>2, <1>3

LEMMA SessionInit == Init => SessionInv
BY TypeInit, SenderAssumption
DEF Init, SenderInit, Idle, SessionInv, NeverFaults, OnlyPlayingStreams, OneHandler,
    OpenOutOfInit, ScanAtFrame, CountsAllFrames, FreshStart

LEMMA SessionStep ==
  ASSUME Overlap = FALSE
  PROVE  SessionInv /\ [Next]_vars => SessionInv'
<1> SUFFICES ASSUME SessionInv, [Next]_vars
             PROVE  SessionInv'
  OBVIOUS
<1>1. TypeOK'
  BY TypeStep DEF SessionInv
<1>2. CASE Caller
  BY <1>1, <1>2, CallerKeeps
<1>3. ASSUME NEW h \in Handlers, HandlerStep(h)
      PROVE  SessionInv'
  BY <1>1, <1>3, HandlerKeeps
<1>4. CASE UNCHANGED vars
  BY <1>1, <1>4
  DEF vars, senderVars, streamVars, handlerVars, SessionInv, NeverFaults, OnlyPlayingStreams,
      OneHandler, OpenOutOfInit, ScanAtFrame, CountsAllFrames, FreshStart
<1> QED BY <1>2, <1>3, <1>4 DEF Next, Handler

LEMMA SessionSafe ==
  ASSUME Overlap = FALSE
  PROVE  Spec => []SessionInv
BY SessionInit, SessionStep, PTL DEF Spec

(* getVideoInfo counts the frames the file has, however many: also where   *)
(* frame_number wraps and the handler reads beyond the file, the next      *)
(* session's scan starts at its beginning.                                 *)
THEOREM CountIsRight ==
  ASSUME Overlap = FALSE
  PROVE  Spec => []CountsAllFrames
<1>1. SessionInv => CountsAllFrames
  BY DEF SessionInv
<1> QED BY <1>1, SessionSafe, PTL

(* Each session starts with frame 0 at offset 0, whatever the last did.    *)
THEOREM StartsFresh ==
  ASSUME Overlap = FALSE
  PROVE  Spec => []FreshStart
<1>1. SessionInv => FreshStart
  BY DEF SessionInv
<1> QED BY <1>1, SessionSafe, PTL

(* A handler that runs to its end before other code does finds a file to   *)
(* open and a name for its type, wherever the name getVideoInfo kept is    *)
(* still in the stack of the SETUP that has ended.                         *)
THEOREM HandlerHasFile ==
  ASSUME Overlap = FALSE
  PROVE  Spec => []NeverFaults
<1>1. SessionInv => NeverFaults
  BY DEF SessionInv
<1> QED BY <1>1, SessionSafe, PTL

------------------------------------------------------------------------------
(* What the sequence number says, where it can count the frames.           *)

(* A call keeps the handler's frame and the offset.                        *)
LEMMA CallerStep ==
  ASSUME Overlap = FALSE, PlaybackInv, SessionInv', Caller
  PROVE  PlaybackInv'
<1>1. (\A h \in Handlers : hpc[h] = "idle") /\ kept' = kept
  BY DEF Caller, Setup, Scan, SetupDone, Play, Teardown, MayRun, NoHandlerRuns
<1>2. kept /\ video_file_name # NULL =>
        next_frame_start = FrameStart[video_file_name][frame_number]
  BY <1>1 DEF PlaybackInv, InSync, Advanced
<1>3. ASSUME hpc' = hpc,
             video_file_name' # NULL => frame_number' <= Frames[video_file_name'],
             kept /\ video_file_name' # NULL =>
               next_frame_start' = FrameStart[video_file_name'][frame_number']
      PROVE  PlaybackInv'
  BY <1>1, <1>3 DEF HandlerHasFrame, ReadsDueFrame, InSync, Advanced, PlaybackInv, SessionInv
<1>4. CASE (\E v \in Video : Setup(v)) \/ Play
  BY <1>2, <1>3, <1>4
  DEF Setup, Play, senderVars, streamVars, handlerVars, PlaybackInv, HandlerHasFrame
<1>5. CASE Scan
  BY <1>3, <1>5 DEF Scan, ScanFrame, handlerVars, PlaybackInv, OpenOutOfInit
<1>6. CASE SetupDone
  <2>1. /\ status = "INIT" /\ scan.video \in Video /\ video_file_name' = scan.video
        /\ next_frame_start' = 0 /\ UNCHANGED <<frame_number, hpc>>
    BY <1>6 DEF SetupDone, ScanDone, handlerVars, PlaybackInv, OpenOutOfInit, TypeOK
  <2>2. frame_number = 0
    BY <2>1 DEF PlaybackInv, FreshStart
  <2> QED BY <1>3, <2>1, <2>2, FrameStarts, FrameStartAssumption
<1>7. CASE Teardown
  BY <1>3, <1>7 DEF Teardown, ResetStream, handlerVars
<1> QED BY <1>4, <1>5, <1>6, <1>7 DEF Caller

(* A handler past its test has a frame to send; the number of the next one *)
(* fits frame_number.                                                      *)
LEMMA HandlerDue ==
  ASSUME VideosFit, PlaybackInv, NEW h \in Handlers,
         hpc[h] \in {"open", "length", "header", "socket", "send", "count"}
  PROVE  /\ frame_number \in 0 .. Frames[video_file_name] - 1
         /\ (frame_number + 1) % SeqMod = frame_number + 1
         /\ Advanced => hpc[h] \in {"socket", "send", "count"}
<1>1. /\ video_file_name \in Video /\ frame_total = Frames[video_file_name]
      /\ \A g \in Handlers \ {h} : hpc[g] = "idle"
  BY HandlerAlone, PlaybackParts
<1>2. frame_number < frame_total
  BY DEF PlaybackInv, HandlerHasFrame
<1>3. frame_number \in Nat /\ Frames[video_file_name] \in Nat
  BY <1>1, FrameStarts, SenderAssumption DEF PlaybackInv, TypeOK, SenderTypeOK
<1>4. SeqMod \in Nat /\ Frames[video_file_name] < SeqMod
  BY <1>1, SenderAssumption DEF VideosFit
<1>5. (frame_number + 1) % SeqMod = frame_number + 1
  <2>1. frame_number + 1 \in 0 .. SeqMod - 1
    BY <1>1, <1>2, <1>3, <1>4
  <2> QED BY <2>1, <1>4
<1>6. Advanced => hpc[h] \in {"socket", "send", "count"}
  BY <1>1 DEF Advanced
<1> QED BY <1>1, <1>2, <1>3, <1>5, <1>6

(* What a handler reads is the length of the frame that is due.            *)
LEMMA ReadsDueLength ==
  ASSUME VideosFit, PlaybackInv, kept, NEW h \in Handlers, ReadLength(h)
  PROVE  reading'[h] = [video |-> video_file_name, pos |-> next_frame_start,
                        len |-> FrameLen(video_file_name, frame_number)]
<1> DEFINE v == video_file_name
           n == frame_number
<1>1. hpc[h] = "length"
  BY DEF ReadLength
<1>2. v \in Video
  BY <1>1, HandlerAlone, PlaybackParts
<1>3. n \in 0 .. Frames[v] - 1 /\ ~ Advanced
  BY <1>1, HandlerDue
<1>4. next_frame_start = FrameStart[v][n]
  BY <1>2, <1>3, SenderAssumption DEF PlaybackInv, InSync
<1>5. reading[h].video = v
  BY <1>1 DEF PlaybackInv, HandlerHasFrame, ReadsDueFrame
<1>6. NextLengths(v) = {FrameLen(v, n)}
  <2>1. CanReadLength(v, next_frame_start) /\ next_frame_start \in Nat
    BY <1>2, <1>3, <1>4, FrameStarts DEF PlaybackInv, TypeOK, SenderTypeOK
  <2>2. LengthsAt(v, next_frame_start) = {FrameLen(v, n)}
    BY <1>2, <1>3, <1>4, <2>1, LengthsRead
  <2> QED BY <2>1, <2>2 DEF NextLengths
<1>7. reading' = [reading EXCEPT ![h].pos = next_frame_start, ![h].len = FrameLen(v, n)]
  BY <1>5, <1>6 DEF ReadLength
<1>8. reading \in [Handlers -> Reading]
  BY DEF PlaybackInv, TypeOK, SenderTypeOK, Reading
<1> QED BY <1>5, <1>7, <1>8 DEF Reading

(* The packet a handler builds carries that frame.                         *)
LEMMA ConstructsDueFrame ==
  ASSUME VideosFit, PlaybackInv, kept, NEW h \in Handlers, SetRTPPacketHeader(h)
  PROVE  /\ next_frame_start' = FrameStart[video_file_name][frame_number + 1]
         /\ ssrc' = ssrc
         /\ packet'[h] = [seq |-> frame_number, ssrc |-> ssrc,
                          video |-> video_file_name, frame |-> frame_number]
<1> DEFINE v == video_file_name
           n == frame_number
<1>1. hpc[h] = "header"
  BY DEF SetRTPPacketHeader
<1>2. v \in Video /\ ssrc \in Ssrc
  BY <1>1, HandlerAlone, PlaybackParts
<1>3. n \in 0 .. Frames[v] - 1 /\ ~ Advanced
  BY <1>1, HandlerDue
<1>4. next_frame_start = FrameStart[v][n]
  BY <1>2, <1>3, SenderAssumption DEF PlaybackInv, InSync
<1>5. /\ reading[h].video = v /\ reading[h].pos = FrameStart[v][n]
      /\ reading[h].len = FrameLen(v, n)
  BY <1>1, <1>4 DEF PlaybackInv, HandlerHasFrame, ReadsDueFrame
<1>6. FramesAt(reading[h].video, reading[h].pos) = {n}
  BY <1>2, <1>3, <1>5, FrameStarts
<1>7. next_frame_start' = FrameStart[v][n + 1]
  BY <1>2, <1>3, <1>4, <1>5, FrameStarts DEF SetRTPPacketHeader
<1>8. ssrc' = ssrc
  BY <1>2, SenderAssumption DEF SetRTPPacketHeader
<1>9. packet' = [packet EXCEPT ![h] = [seq |-> n, ssrc |-> ssrc, video |-> v, frame |-> n]]
  BY <1>5, <1>6, <1>8 DEF SetRTPPacketHeader, PacketsOf
<1>10. packet'[h] = [seq |-> n, ssrc |-> ssrc, video |-> v, frame |-> n]
  BY <1>9 DEF PlaybackInv, TypeOK, SenderTypeOK
<1> QED BY <1>7, <1>8, <1>10

(* A handler sends the frame it tested for and the offset follows.         *)
LEMMA HandlerSafe ==
  ASSUME Overlap = FALSE, VideosFit, PlaybackInv, SessionInv',
         NEW h \in Handlers, HandlerStep(h)
  PROVE  PlaybackInv'
<1> SUFFICES HandlerHasFrame' /\ InSync'
  BY DEF PlaybackInv, SessionInv
<1>0. SessionInv
  BY PlaybackParts
<1> USE DEF PlaybackInv
<1>1. /\ CatchAlarm(h, NamesHeld)
      /\ UNCHANGED <<kept, status, scan, video_file_name, frame_total>>
  BY HandlerKeepsFile DEF HandlerStep
<1>2. hpc \in [Handlers -> HandlerPCs]
  BY DEF TypeOK, SenderTypeOK, HandlerPCs
<1>3. ASSUME NEW pc \in HandlerPCs, Goto(h, pc)
      PROVE  /\ hpc'[h] = pc
             /\ \A g \in Handlers : hpc'[g] = "idle" \/ (g = h /\ hpc'[g] = pc)
             /\ Advanced' <=> pc \in {"socket", "send", "count"}
  <2>1. hpc'[h] = pc /\ \A g \in Handlers \ {h} : hpc'[g] = hpc[g]
    BY <1>2, <1>3 DEF Goto
  <2>2. \A g \in Handlers \ {h} : hpc[g] = "idle"
    <3>1. CASE hpc[h] = "idle"
      <4>1. Alarm(h)
        BY <1>1, <3>1 DEF CatchAlarm, Finish, Rewind, HasFrame, FaultNoFile, OpenVideo, ReadLength,
                      FaultNoName, SetRTPPacketHeader, SetupServerUDPSocket, SendPacket, CountFrame
      <4> QED BY <4>1 DEF Alarm, MayRun, NoHandlerRuns
    <3> QED BY <1>0, <3>1, HandlerAlone
  <2> QED BY <2>1, <2>2 DEF Advanced
<1>4. CASE Alarm(h) \/ HasFrame(h) \/ OpenVideo(h, NamesHeld)
  <2>1. PICK pc \in {"test", "open", "length"} : Goto(h, pc)
    BY <1>4 DEF Alarm, HasFrame, OpenVideo
  <2>2. /\ UNCHANGED <<streamVars, packet>>
        /\ hpc[h] \in {"idle", "test", "open"}
        /\ pc # "test" => hpc[h] # "idle"
        /\ pc = "length" => /\ hpc[h] = "open"
                            /\ kept => reading'[h].video = video_file_name
        /\ pc = "open" => ~ AtEnd
    <3>1. CASE Alarm(h) \/ HasFrame(h)
      <4>1. hpc'[h] \in {"test", "open"} /\ hpc'[h] = pc
        BY <1>2, <2>1, <3>1, <1>3 DEF Alarm, HasFrame, Goto, HandlerPCs
      <4>2. Alarm(h) => hpc'[h] = "test"
        BY <1>2 DEF Alarm, Goto
      <4>3. HasFrame(h) => hpc'[h] = "open"
        BY <1>2 DEF HasFrame, Goto
      <4> QED BY <3>1, <4>1, <4>2, <4>3 DEF Alarm, HasFrame
    <3>2. CASE OpenVideo(h, NamesHeld)
      <4>1. hpc[h] = "open" /\ hpc'[h] = "length" /\ hpc'[h] = pc
        BY <1>2, <2>1, <3>2 DEF OpenVideo, Goto
      <4>2. PICK v \in NamesHeld \ {NULL} : reading' = [reading EXCEPT ![h].video = v]
        BY <3>2 DEF OpenVideo
      <4>3. kept => v = video_file_name
        BY <4>2 DEF NamesHeld
      <4>4. reading'[h].video = v
        BY <4>2 DEF TypeOK, SenderTypeOK
      <4> QED BY <3>2, <4>1, <4>3, <4>4 DEF OpenVideo
    <3> QED BY <1>4, <3>1, <3>2
  <2>3. pc \in HandlerPCs
    BY DEF HandlerPCs
  <2>4. ~ Advanced /\ ~ Advanced'
    <3>1. \A g \in Handlers : hpc[g] \notin {"socket", "send", "count"}
      <4>1. CASE hpc[h] = "idle"
        BY <1>1, <4>1 DEF CatchAlarm, Alarm, MayRun, NoHandlerRuns, Finish, Rewind, HasFrame,
             FaultNoFile, OpenVideo, ReadLength, FaultNoName, SetRTPPacketHeader,
             SetupServerUDPSocket, SendPacket, CountFrame
      <4> QED BY <1>0, <2>2, <4>1, HandlerAlone
    <3> QED BY <1>3, <2>1, <2>3, <3>1 DEF Advanced
  <2>5. InSync'
    BY <1>1, <2>2, <2>4 DEF InSync, streamVars
  <2>6. pc = "open" => frame_number < frame_total
    BY <2>2 DEF AtEnd, TypeOK, SenderTypeOK
  <2>7. pc = "length" => frame_number < frame_total
    BY <2>2 DEF HandlerHasFrame
  <2>8. HandlerHasFrame'
    BY <1>1, <1>3, <2>1, <2>2, <2>3, <2>6, <2>7 DEF HandlerHasFrame, ReadsDueFrame, streamVars
  <2> QED BY <2>5, <2>8
<1>5. CASE Finish(h)
  <2>1. Goto(h, "rewind") /\ UNCHANGED streamVars /\ hpc[h] = "test"
    BY <1>5 DEF Finish
  <2>2. ~ Advanced /\ ~ Advanced' /\ \A g \in Handlers : hpc'[g] \in {"idle", "rewind"}
    BY <1>0, <1>3, <2>1, HandlerAlone DEF Advanced, HandlerPCs
  <2> QED BY <1>1, <2>1, <2>2 DEF InSync, HandlerHasFrame, ReadsDueFrame, streamVars
<1>6. CASE Rewind(h)
  <2>1. Goto(h, "idle") /\ frame_number' = 0 /\ next_frame_start' = 0 /\ hpc[h] = "rewind"
    BY <1>6 DEF Rewind
  <2>2. ~ Advanced' /\ \A g \in Handlers : hpc'[g] = "idle"
    BY <1>3, <2>1 DEF HandlerPCs
  <2>3. video_file_name \in Video
    BY <1>0, <2>1, HandlerAlone
  <2> QED BY <1>1, <2>1, <2>2, <2>3, FrameStarts, FrameStartAssumption
          DEF InSync, HandlerHasFrame, ReadsDueFrame
<1>7. CASE FaultNoFile(h, NamesHeld) \/ FaultNoName(h)
  <2>1. UNCHANGED <<streamVars, handlerVars>>
    BY <1>7 DEF FaultNoFile, FaultNoName
  <2> QED BY <1>1, <2>1 DEF InSync, Advanced, HandlerHasFrame, ReadsDueFrame, streamVars, handlerVars
<1>8. CASE ReadLength(h)
  <2>1. Goto(h, "header") /\ UNCHANGED streamVars /\ hpc[h] = "length"
    BY <1>8 DEF ReadLength
  <2>2. ~ Advanced /\ ~ Advanced' /\ \A g \in Handlers : hpc'[g] = "idle" \/ (g = h /\ hpc'[g] = "header")
    BY <1>3, <2>1, HandlerDue DEF HandlerPCs
  <2>3. frame_number < frame_total
    BY <2>1 DEF HandlerHasFrame
  <2>4. kept => reading'[h] = [video |-> video_file_name, pos |-> next_frame_start,
                               len |-> FrameLen(video_file_name, frame_number)]
    BY <1>8, ReadsDueLength
  <2> QED BY <1>1, <2>1, <2>2, <2>3, <2>4 DEF InSync, HandlerHasFrame, ReadsDueFrame, streamVars
<1>9. CASE SetRTPPacketHeader(h)
  <2>1. Goto(h, "socket") /\ UNCHANGED frame_number /\ hpc[h] = "header"
    BY <1>9 DEF SetRTPPacketHeader
  <2>2. Advanced' /\ \A g \in Handlers : hpc'[g] = "idle" \/ (g = h /\ hpc'[g] = "socket")
    BY <1>3, <2>1 DEF HandlerPCs
  <2>3. frame_number < frame_total
    BY <2>1 DEF HandlerHasFrame
  <2>4. kept => /\ next_frame_start' = FrameStart[video_file_name][frame_number + 1]
                /\ ssrc' = ssrc
                /\ packet'[h] = [seq |-> frame_number, ssrc |-> ssrc,
                                 video |-> video_file_name, frame |-> frame_number]
    BY <1>9, ConstructsDueFrame
  <2> QED BY <1>1, <2>1, <2>2, <2>3, <2>4 DEF InSync, HandlerHasFrame, ReadsDueFrame
<1>10. CASE SetupServerUDPSocket(h) \/ SendPacket(h)
  <2>1. PICK pc \in {"send", "count"} : Goto(h, pc)
    BY <1>10 DEF SetupServerUDPSocket, SendPacket
  <2>2. /\ UNCHANGED streamVars /\ hpc[h] \in {"socket", "send"}
        /\ pc = "send" => packet' = packet
    <3>1. hpc'[h] = pc
      BY <1>3, <2>1 DEF HandlerPCs
    <3>2. SendPacket(h) => hpc'[h] = "count"
      BY <1>2 DEF SendPacket, Goto
    <3> QED BY <1>10, <3>1, <3>2 DEF SetupServerUDPSocket, SendPacket
  <2>3. Advanced /\ Advanced' /\ \A g \in Handlers : hpc'[g] = "idle" \/ (g = h /\ hpc'[g] = pc)
    BY <1>3, <2>1, <2>2 DEF HandlerPCs, Advanced
  <2>4. frame_number < frame_total
    BY <2>2 DEF HandlerHasFrame
  <2>5. HandlerHasFrame'
    BY <1>1, <2>2, <2>3, <2>4 DEF HandlerHasFrame, ReadsDueFrame, streamVars
  <2>6. InSync'
    BY <1>1, <2>2, <2>3 DEF InSync, streamVars
  <2> QED BY <2>5, <2>6
<1>11. CASE CountFrame(h)
  <2>1. /\ Goto(h, "idle") /\ UNCHANGED next_frame_start /\ hpc[h] = "count"
        /\ frame_number' = (frame_number + 1) % SeqMod
    BY <1>11 DEF CountFrame
  <2>2. Advanced /\ ~ Advanced' /\ \A g \in Handlers : hpc'[g] = "idle"
    BY <1>3, <2>1 DEF HandlerPCs, Advanced
  <2>3. frame_number' = frame_number + 1 /\ frame_number \in 0 .. Frames[video_file_name] - 1
    BY <2>1, HandlerDue
  <2>4. video_file_name \in Video
    BY <1>0, <2>1, HandlerAlone
  <2>5. frame_number' <= Frames[video_file_name]
    BY <2>3, <2>4, FrameStarts
  <2>6. HandlerHasFrame'
    BY <1>1, <2>2, <2>5 DEF HandlerHasFrame, ReadsDueFrame
  <2>7. InSync'
    BY <1>1, <2>1, <2>2, <2>3 DEF InSync
  <2> QED BY <2>6, <2>7
<1> QED BY <1>1, <1>4, <1>5, <1>6, <1>7, <1>8, <1>9, <1>10, <1>11 DEF CatchAlarm

LEMMA SafeInit == Init => PlaybackInv
BY SessionInit, PlaybackParts DEF Init, SenderInit, HandlerHasFrame, ReadsDueFrame, InSync

LEMMA SafeStep ==
  ASSUME Overlap = FALSE, VideosFit
  PROVE  PlaybackInv /\ [Next]_vars => PlaybackInv'
<1> SUFFICES ASSUME PlaybackInv, [Next]_vars
             PROVE  PlaybackInv'
  OBVIOUS
<1>1. SessionInv'
  BY SessionStep, PlaybackParts
<1>2. CASE Caller
  BY <1>1, <1>2, CallerStep
<1>3. ASSUME NEW h \in Handlers, HandlerStep(h)
      PROVE  PlaybackInv'
  BY <1>1, <1>3, HandlerSafe
<1>4. CASE UNCHANGED vars
  BY <1>1, <1>4
  DEF vars, senderVars, streamVars, handlerVars, PlaybackInv, SessionInv, HandlerHasFrame,
      ReadsDueFrame, InSync, Advanced
<1> QED BY <1>2, <1>3, <1>4 DEF Next, Handler

(* Playback is safe: every conjunct of PlaybackInv holds in every state.   *)
THEOREM PlaybackSafe ==
  ASSUME Overlap = FALSE, VideosFit
  PROVE  Spec => []PlaybackInv
BY SafeInit, SafeStep, PTL DEF Spec

(* The handler reads the length of a frame, never the middle of one: as    *)
(* long as it opens the file that was scanned, the offset is that of the   *)
(* frame whose number the next packet has.                                 *)
THEOREM OffsetFollowsNumber ==
  ASSUME Overlap = FALSE, VideosFit
  PROVE  Spec => []InSync
<1>1. PlaybackInv => InSync
  BY DEF PlaybackInv
<1> QED BY <1>1, PlaybackSafe, PTL

------------------------------------------------------------------------------
(* While a file is scanned the status is still INIT: that makes the next   *)
(* theorem's property inductive.                                           *)
TimerInv ==
  /\ OnlyPlayingStreams
  /\ scan.video # NULL => status = "INIT"

(* The timer is armed only in PLAYING even where handlers are interleaved  *)
(* with the calls, so closeVideoStream's test of the status is enough.     *)
THEOREM TimerOnlyInPlaying == Spec => []OnlyPlayingStreams
<1>1. Init => TimerInv
  BY DEF Init, SenderInit, Idle, TimerInv, OnlyPlayingStreams
<1>2. TimerInv /\ [Next]_vars => TimerInv'
  <2> SUFFICES ASSUME TimerInv, [Next]_vars
               PROVE  TimerInv'
    OBVIOUS
  <2> USE DEF TimerInv, OnlyPlayingStreams
  <2>1. ASSUME NEW v \in Video, Setup(v)
        PROVE  TimerInv'
    BY <2>1 DEF Setup, senderVars
  <2>2. CASE Scan
    <3>1. UNCHANGED <<rtp_timer, status>> /\ scan.video # NULL
      BY <2>2 DEF Scan
    <3> QED BY <3>1
  <2>3. CASE SetupDone
    BY <2>3 DEF SetupDone, Idle
  <2>4. CASE Play
    BY <2>4 DEF Play
  <2>5. CASE Teardown
    <3>1. status = "PLAYING" => rtp_timer' = FALSE
      BY <2>5 DEF Teardown, StopIfPlaying, StopRTPProgress
    <3>2. status # "PLAYING" => ~ rtp_timer'
      BY <2>5 DEF Teardown, StopIfPlaying
    <3> QED BY <2>5, <3>1, <3>2 DEF Teardown
  <2>6. ASSUME NEW h \in Handlers, HandlerStep(h)
        PROVE  TimerInv'
    BY <2>6, HandlerTimer DEF HandlerStep
  <2>7. CASE UNCHANGED vars
    BY <2>7 DEF vars, senderVars
  <2> QED BY <2>1, <2>2, <2>3, <2>4, <2>5, <2>6, <2>7 DEF Next, Caller, Handler
<1>3. TimerInv => OnlyPlayingStreams
  BY DEF TimerInv
<1> QED BY <1>1, <1>2, <1>3, PTL DEF Spec

------------------------------------------------------------------------------
(* The refinement of FrameStream.                                          *)

(* The number a stream goes on with is frame_number, but in the last step  *)
(* of a handler.                                                           *)
LEMMA StreamStep ==
  ASSUME Overlap = FALSE, VideosFit, PlaybackInv, PlaybackInv', [Next]_vars, kept
  PROVE  Stream!Next \/ UNCHANGED Stream!vars
<1> USE DEF PlaybackInv
<1>1. ASSUME UNCHANGED <<video_file_name, ssrc, rtp_timer, NextFrame, wire>>
      PROVE  UNCHANGED Stream!vars
  BY <1>1 DEF Stream!vars
<1>2. ASSUME \A h \in Handlers : hpc[h] = "idle", UNCHANGED hpc
      PROVE  NextFrame = frame_number /\ NextFrame' = frame_number'
  BY <1>2 DEF NextFrame
<1>3. Caller => (\A h \in Handlers : hpc[h] = "idle") /\ UNCHANGED hpc
  BY DEF Caller, Setup, Scan, SetupDone, Play, Teardown, MayRun, NoHandlerRuns, senderVars, handlerVars
<1>4. ASSUME NEW v \in Video, Setup(v)
      PROVE  UNCHANGED Stream!vars
  BY <1>1, <1>2, <1>3, <1>4 DEF Caller, Setup, senderVars, streamVars
<1>5. CASE Scan
  BY <1>1, <1>2, <1>3, <1>5 DEF Caller, Scan, ScanFrame
<1>6. CASE SetupDone
  <2>1. video_file_name = NULL
    BY <1>6 DEF SetupDone, OpenOutOfInit
  <2>2. video_file_name' \in Video
    BY <1>6 DEF SetupDone, ScanDone, TypeOK
  <2>3. UNCHANGED <<rtp_timer, NextFrame, wire>>
    BY <1>2, <1>3, <1>6 DEF Caller, SetupDone, ScanDone
  <2>4. Stream!Open
    BY <1>6, <2>1, <2>2, <2>3 DEF SetupDone, ScanDone, Stream!Open
  <2> QED BY <2>4 DEF Stream!Next
<1>7. CASE Play
  <2>1. UNCHANGED <<video_file_name, ssrc, NextFrame, wire>>
    BY <1>2, <1>3, <1>7 DEF Caller, Play, streamVars
  <2>2. Stream!Play
    BY <1>7, <2>1 DEF Play, StartRTPProgress, OpenOutOfInit, Stream!Play
  <2> QED BY <2>2 DEF Stream!Next
<1>8. CASE Teardown
  <2>1. video_file_name # NULL /\ rtp_timer' = FALSE
    <3>1. status # "INIT" /\ status' = "INIT"
      BY <1>8 DEF Teardown
    <3> QED BY <3>1 DEF OpenOutOfInit, OnlyPlayingStreams, TypeOK, SenderTypeOK
  <2>2. NextFrame' = 0
    BY <1>2, <1>3, <1>8 DEF Caller, Teardown, ResetStream
  <2>3. Stream!Close
    BY <1>8, <2>1, <2>2 DEF Teardown, ResetStream, Stream!Close
  <2> QED BY <2>3 DEF Stream!Next
<1>9. ASSUME NEW h \in Handlers, HandlerStep(h)
      PROVE  Stream!Next \/ UNCHANGED Stream!vars
  <2>1. /\ CatchAlarm(h, NamesHeld) /\ UNCHANGED <<video_file_name, frame_total>>
        /\ hpc \in [Handlers -> HandlerPCs]
        /\ \A g \in Handlers \ {h} : hpc[g] = "idle"
    <3>1. hpc \in [Handlers -> HandlerPCs]
      BY DEF TypeOK, SenderTypeOK, HandlerPCs
    <3>2. CatchAlarm(h, NamesHeld)
      BY <1>9 DEF HandlerStep
    <3>3. CASE hpc[h] = "idle"
      <4>1. Alarm(h)
        BY <3>2, <3>3 DEF CatchAlarm, Finish, Rewind, HasFrame, FaultNoFile, OpenVideo, ReadLength,
                      FaultNoName, SetRTPPacketHeader, SetupServerUDPSocket, SendPacket, CountFrame
      <4> QED BY <3>1, <3>2, <4>1, HandlerKeepsFile DEF Alarm, MayRun, NoHandlerRuns
    <3> QED BY <3>1, <3>2, <3>3, HandlerAlone, PlaybackParts, HandlerKeepsFile
  <2>2. /\ hpc[h] = "rewind" => NextFrame = 0
        /\ hpc[h] = "count" => NextFrame = frame_number + 1
        /\ hpc[h] \notin {"rewind", "count"} => NextFrame = frame_number
    BY <2>1 DEF NextFrame
  <2>3. ASSUME NEW pc \in HandlerPCs, Goto(h, pc)
        PROVE  /\ pc = "rewind" => NextFrame' = 0
               /\ pc = "count" => NextFrame' = frame_number' + 1
               /\ pc \notin {"rewind", "count"} => NextFrame' = frame_number'
    <3>1. hpc'[h] = pc /\ \A g \in Handlers \ {h} : hpc'[g] = "idle"
      BY <2>1, <2>3 DEF Goto
    <3> QED BY <3>1 DEF NextFrame
  <2>4. CASE Alarm(h) \/ HasFrame(h) \/ OpenVideo(h, NamesHeld) \/ ReadLength(h)
             \/ SetupServerUDPSocket(h)
    <3>1. /\ UNCHANGED <<rtp_timer, streamVars, wire>> /\ hpc[h] \notin {"rewind", "count"}
          /\ \E pc \in HandlerPCs \ {"rewind", "count"} : Goto(h, pc)
      BY <2>4 DEF Alarm, HasFrame, OpenVideo, ReadLength, SetupServerUDPSocket, HandlerPCs
    <3> QED BY <1>1, <2>2, <2>3, <3>1 DEF streamVars
  <2>5. CASE SetRTPPacketHeader(h)
    <3>1. /\ UNCHANGED <<rtp_timer, frame_number, wire>> /\ hpc[h] = "header" /\ Goto(h, "socket")
      BY <2>5 DEF SetRTPPacketHeader
    <3>2. UNCHANGED NextFrame
      BY <2>2, <2>3, <3>1 DEF HandlerPCs
    <3> QED BY <1>1, <2>1, <2>5, <3>1, <3>2, ConstructsDueFrame
  <2>6. CASE Rewind(h)
    <3>1. /\ UNCHANGED <<rtp_timer, ssrc, wire>> /\ hpc[h] = "rewind" /\ Goto(h, "idle")
          /\ frame_number' = 0
      BY <2>6 DEF Rewind
    <3>2. UNCHANGED NextFrame
      BY <2>2, <2>3, <3>1 DEF HandlerPCs
    <3> QED BY <1>1, <2>1, <3>1, <3>2
  <2>7. CASE CountFrame(h)
    <3>1. /\ UNCHANGED <<rtp_timer, ssrc, wire>> /\ hpc[h] = "count" /\ Goto(h, "idle")
          /\ frame_number' = (frame_number + 1) % SeqMod
      BY <2>7 DEF CountFrame
    <3>2. frame_number' = frame_number + 1
      BY <3>1, HandlerDue
    <3>3. UNCHANGED NextFrame
      BY <2>2, <2>3, <3>1, <3>2 DEF HandlerPCs
    <3> QED BY <1>1, <2>1, <3>1, <3>3
  <2>8. CASE Finish(h)
    <3>1. /\ hpc[h] = "test" /\ Goto(h, "rewind") /\ UNCHANGED <<streamVars, wire>>
          /\ rtp_timer' = FALSE
      BY <2>8 DEF Finish, StopRTPProgress
    <3>2. /\ rtp_timer /\ video_file_name \in Video
          /\ frame_total = Frames[video_file_name] /\ frame_number <= Frames[video_file_name]
      BY <3>1, HandlerAlone, PlaybackParts, SenderAssumption DEF HandlerHasFrame
    <3>3. frame_number = Frames[video_file_name]
      BY <2>8, <3>2, FrameStarts DEF Finish, AtEnd, TypeOK, SenderTypeOK
    <3>4. NextFrame = frame_number /\ NextFrame' = 0
      BY <2>2, <2>3, <3>1 DEF HandlerPCs
    <3>5. Stream!Stop
      BY <3>1, <3>2, <3>3, <3>4 DEF streamVars, Stream!Stop
    <3> QED BY <3>5 DEF Stream!Next
  <2>9. CASE FaultNoFile(h, NamesHeld) \/ FaultNoName(h)
    BY <2>9, NoFault, PlaybackParts
  <2>10. CASE SendPacket(h)
    <3>1. /\ hpc[h] = "send" /\ Goto(h, "count") /\ UNCHANGED <<rtp_timer, streamVars>>
          /\ wire' = packet[h]
      BY <2>10 DEF SendPacket
    <3>2. /\ rtp_timer /\ frame_number < Frames[video_file_name]
      BY <3>1, HandlerAlone, PlaybackParts DEF HandlerHasFrame
    <3>3. wire' = [seq |-> frame_number, ssrc |-> ssrc,
                   video |-> video_file_name, frame |-> frame_number]
      BY <3>1 DEF HandlerHasFrame, ReadsDueFrame
    <3>4. NextFrame = frame_number /\ NextFrame' = frame_number + 1
      BY <2>2, <2>3, <3>1 DEF HandlerPCs, streamVars
    <3>5. Stream!SendFrame
      BY <3>1, <3>2, <3>3, <3>4 DEF streamVars, Stream!SendFrame
    <3> QED BY <3>5 DEF Stream!Next
  <2> QED BY <2>1, <2>4, <2>5, <2>6, <2>7, <2>8, <2>9, <2>10 DEF CatchAlarm
<1>10. CASE UNCHANGED vars
  <2>1. UNCHANGED NextFrame
    BY <1>10 DEF vars, senderVars, streamVars, handlerVars, NextFrame
  <2> QED BY <1>1, <1>10, <2>1 DEF vars, senderVars, streamVars
<1> QED BY <1>4, <1>5, <1>6, <1>7, <1>8, <1>9, <1>10 DEF Next, Caller, Handler

(* Playback implements FrameStream, as long as the name of the scanned     *)
(* file is kept: all frames of the file, in order, each under its own      *)
(* number.                                                                 *)
THEOREM PlaybackStreams ==
  ASSUME Overlap = FALSE, VideosFit
  PROVE  Spec => StreamSpec
<1>1. Init => Stream!Init
  BY DEF Init, SenderInit, NextFrame, Stream!Init
<1>2. PlaybackInv /\ PlaybackInv' /\ [Next]_vars => (kept => Stream!Next \/ UNCHANGED Stream!vars)
  BY StreamStep
<1>3. PlaybackInv /\ PlaybackInv' /\ [Next]_vars
        => [kept => Stream!Next \/ UNCHANGED Stream!vars]_vars
  BY <1>2
<1>4. Spec => Stream!Init
  BY <1>1 DEF Spec
<1> QED BY <1>3, <1>4, PlaybackSafe, PTL DEF Spec, StreamSpec
==============================================================================
