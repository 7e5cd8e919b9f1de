---------------------------- MODULE RtpSenderProofs --------------------------
(***************************************************************************)
(* What the theorems about the callers of RtpSender rest on: what is read  *)
(* from a file, and the kinds of the sender's values.                      *)
(***************************************************************************)
EXTENDS RtpSender, TLAPS

(* A frame is at one offset, and its length field can be read.             *)
LEMMA FrameStarts ==
  ASSUME NEW v \in Video
  PROVE  /\ Frames[v] \in Nat
         /\ \A k \in 0 .. Frames[v] : FrameStart[v][k] \in Nat
         /\ FileSize(v) \in Nat
         /\ \A k \in 0 .. Frames[v] - 1 :
              /\ CanReadLength(v, FrameStart[v][k])
              /\ FramesAt(v, FrameStart[v][k]) = {k}
              /\ FrameLen(v, k) \in Nat
              /\ FrameStart[v][k] + NUMBER_SIZE + FrameLen(v, k) = FrameStart[v][k + 1]
<1>1. Frames[v] \in Nat
  BY FramesAssumption
<1>2. /\ FrameStart[v] \in [0 .. Frames[v] -> Nat]
      /\ \A j, k \in 0 .. Frames[v] :
           j < k => FrameStart[v][j] + NUMBER_SIZE <= FrameStart[v][k]
  BY FrameStartAssumption
<1>3. \A k \in 0 .. Frames[v] : FrameStart[v][k] \in Nat
  BY <1>2
<1>4. FileSize(v) \in Nat
  BY <1>1, <1>3 DEF FileSize
<1>5. ASSUME NEW k \in 0 .. Frames[v] - 1
      PROVE  /\ CanReadLength(v, FrameStart[v][k])
             /\ FramesAt(v, FrameStart[v][k]) = {k}
             /\ FrameLen(v, k) \in Nat
             /\ FrameStart[v][k] + NUMBER_SIZE + FrameLen(v, k) = FrameStart[v][k + 1]
  <2>1. k \in 0 .. Frames[v] /\ k + 1 \in 0 .. Frames[v] /\ Frames[v] \in 0 .. Frames[v]
    BY <1>1
  <2>2. CanReadLength(v, FrameStart[v][k])
    BY <2>1, <1>1, <1>2, <1>3 DEF CanReadLength, FileSize
  <2>3. ASSUME NEW j \in 0 .. Frames[v] - 1, FrameStart[v][j] = FrameStart[v][k]
        PROVE  j = k
    <3>1. j \in 0 .. Frames[v]
      BY <1>1
    <3>2. ~ (j < k) /\ ~ (k < j)
      BY <3>1, <2>1, <2>3, <1>2, <1>3 DEF NUMBER_SIZE
    <3> QED BY <3>1, <3>2, <1>1
  <2>4. FramesAt(v, FrameStart[v][k]) = {k}
    BY <2>3 DEF FramesAt
  <2>5. FrameStart[v][k] + NUMBER_SIZE <= FrameStart[v][k + 1]
    BY <2>1, <1>1, <1>2
  <2>6. FrameStart[v][k] \in Nat /\ FrameStart[v][k + 1] \in Nat
    BY <2>1, <1>3
  <2>7. FrameLen(v, k) \in Nat
        /\ FrameStart[v][k] + NUMBER_SIZE + FrameLen(v, k) = FrameStart[v][k + 1]
    BY <2>5, <2>6 DEF FrameLen, NUMBER_SIZE
  <2> QED BY <2>2, <2>4, <2>7
<1> QED BY <1>1, <1>3, <1>4, <1>5

(* A length field reads as the length of its frame; any other position, as *)
(* some number.                                                            *)
LEMMA LengthsRead ==
  ASSUME NEW v \in Video, NEW pos \in Nat
  PROVE  /\ LengthsAt(v, pos) \subseteq Nat
         /\ FramesAt(v, pos) \subseteq Nat
         /\ \A k \in 0 .. Frames[v] - 1 :
              pos = FrameStart[v][k] => LengthsAt(v, pos) = {FrameLen(v, k)}
<1>1. FramesAt(v, pos) \subseteq 0 .. Frames[v] - 1
  BY DEF FramesAt
<1>2. 0 .. Frames[v] - 1 \subseteq Nat
  BY FrameStarts
<1>3. \A k \in 0 .. Frames[v] - 1 : FrameLen(v, k) \in Nat
  BY FrameStarts
<1>4. LengthsAt(v, pos) \subseteq Nat
  BY <1>1, <1>3, GarbageAssumption DEF LengthsAt
<1>5. ASSUME NEW k \in 0 .. Frames[v] - 1, pos = FrameStart[v][k]
      PROVE  LengthsAt(v, pos) = {FrameLen(v, k)}
  <2>1. FramesAt(v, pos) = {k}
    BY <1>5, FrameStarts
  <2> QED BY <2>1 DEF LengthsAt
<1> QED BY <1>1, <1>2, <1>4, <1>5

(* NextLengths is the number the handler converts, read or garbage.        *)
LEMMA NextLengthsNat ==
  ASSUME NEW v \in Video, next_frame_start \in Nat
  PROVE  NextLengths(v) \subseteq Nat
BY LengthsRead, GarbageAssumption DEF NextLengths

------------------------------------------------------------------------------
(* The sender's values keep their kinds, however handlers are interleaved. *)
HandlerPCs == {"idle", "test", "rewind", "open", "length", "header", "socket", "send", "count"}

Reading == [video : Video \cup {NULL}, pos : Nat, len : Nat]

LEMMA SenderTypeInit == SenderInit => SenderTypeOK
<1> SUFFICES ASSUME SenderInit PROVE SenderTypeOK
  OBVIOUS
<1> USE DEF SenderInit
<1>1. 0 \in 0 .. SeqMod - 1
  BY SenderAssumption
<1>2. hpc \in [Handlers -> HandlerPCs] /\ \A h \in Handlers : hpc[h] = "idle"
  BY DEF HandlerPCs
<1>3. packet \in [Handlers -> Packet \cup {NULL}]
  OBVIOUS
<1>4. reading \in [Handlers -> Reading]
  BY DEF NoFile, Reading
<1> QED BY <1>1, <1>2, <1>3, <1>4 DEF SenderTypeOK, HandlerPCs, Reading

(* A step of a handler moves that handler, and no other.                   *)
LEMMA HandlerMoves ==
  ASSUME SenderTypeOK, NEW h \in Handlers, NEW pc \in HandlerPCs, Goto(h, pc)
  PROVE  /\ hpc' \in [Handlers -> HandlerPCs]
         /\ hpc'[h] = pc
         /\ \A g \in Handlers \ {h} : hpc'[g] = hpc[g]
BY DEF Goto, SenderTypeOK, HandlerPCs

LEMMA HandlerType ==
  ASSUME SenderTypeOK, NEW h \in Handlers, NEW names \in SUBSET (Video \cup {NULL}),
         CatchAlarm(h, names)
  PROVE  SenderTypeOK'
<1>0. 0 \in 0 .. SeqMod - 1
  BY SenderAssumption
<1>1. ASSUME NEW pc \in {"idle", "test", "rewind", "open", "count"}, Goto(h, pc),
             UNCHANGED <<reading, packet>>
      PROVE  /\ hpc' \in [Handlers -> HandlerPCs]
             /\ reading' \in [Handlers -> Reading]
             /\ packet' \in [Handlers -> Packet \cup {NULL}]
             /\ \A g \in Handlers :
                  /\ hpc'[g] \in {"length", "header"} => reading'[g].video \in Video
                  /\ hpc'[g] \in {"socket", "send"} => packet'[g] \in Packet
  <2>1. /\ hpc' \in [Handlers -> HandlerPCs] /\ hpc'[h] = pc
        /\ \A g \in Handlers \ {h} : hpc'[g] = hpc[g]
    BY <1>1, HandlerMoves DEF HandlerPCs
  <2> QED BY <1>1, <2>1 DEF SenderTypeOK, Reading
<1>2. ASSUME hpc' \in [Handlers -> HandlerPCs],
             reading' \in [Handlers -> Reading],
             packet' \in [Handlers -> Packet \cup {NULL}],
             \A g \in Handlers :
                  /\ hpc'[g] \in {"length", "header"} => reading'[g].video \in Video
                  /\ hpc'[g] \in {"socket", "send"} => packet'[g] \in Packet,
             rtp_timer' \in BOOLEAN, video_file_name' = video_file_name,
             next_frame_start' \in Nat, frame_number' \in 0 .. SeqMod - 1,
             frame_total' = frame_total, ssrc' \in Ssrc \cup {0},
             wire' \in Packet \cup {NULL}, up' \in BOOLEAN
      PROVE  SenderTypeOK'
  BY <1>2 DEF SenderTypeOK, HandlerPCs, Reading
<1>3. CASE Alarm(h) \/ Finish(h) \/ HasFrame(h)
  <2>1. \E pc \in {"idle", "test", "rewind", "open", "count"} : Goto(h, pc)
    BY <1>3 DEF Alarm, Finish, HasFrame
  <2>2. UNCHANGED <<streamVars, reading, packet, wire, up>> /\ rtp_timer' \in {rtp_timer, FALSE}
    BY <1>3 DEF Alarm, Finish, HasFrame, StopRTPProgress
  <2> QED BY <1>1, <1>2, <2>1, <2>2 DEF SenderTypeOK, streamVars
<1>4. CASE Rewind(h) \/ CountFrame(h)
  <2>1. Goto(h, "idle") /\ UNCHANGED <<reading, packet>>
    BY <1>4 DEF Rewind, CountFrame
  <2>2. frame_number' \in 0 .. SeqMod - 1 /\ next_frame_start' \in Nat
    BY <1>0, <1>4, SenderAssumption DEF Rewind, CountFrame, SenderTypeOK
  <2> QED BY <1>1, <1>2, <1>4, <2>1, <2>2 DEF Rewind, CountFrame, SenderTypeOK
<1>5. CASE FaultNoFile(h, names) \/ FaultNoName(h)
  <2>1. UNCHANGED <<rtp_timer, streamVars, handlerVars, wire>> /\ up' = FALSE
    BY <1>5 DEF FaultNoFile, FaultNoName
  <2> QED BY <2>1 DEF SenderTypeOK, streamVars, handlerVars
<1>6. CASE OpenVideo(h, names)
  <2>1. /\ Goto(h, "length")
        /\ UNCHANGED <<rtp_timer, streamVars, packet, wire, up>>
    BY <1>6 DEF OpenVideo
  <2>2. PICK v \in names \ {NULL} : reading' = [reading EXCEPT ![h].video = v]
    BY <1>6 DEF OpenVideo
  <2>3. v \in Video
    BY <2>2
  <2>4. reading' \in [Handlers -> Reading] /\ reading'[h].video \in Video
        /\ \A g \in Handlers \ {h} : reading'[g] = reading[g]
    BY <2>2, <2>3 DEF SenderTypeOK, Reading
  <2>5. /\ hpc' \in [Handlers -> HandlerPCs] /\ hpc'[h] = "length"
        /\ \A g \in Handlers \ {h} : hpc'[g] = hpc[g]
    BY <2>1, HandlerMoves DEF HandlerPCs
  <2> QED BY <1>2, <2>1, <2>4, <2>5 DEF SenderTypeOK, streamVars
<1>7. CASE ReadLength(h)
  <2>1. /\ hpc[h] = "length" /\ Goto(h, "header")
        /\ UNCHANGED <<rtp_timer, streamVars, packet, wire, up>>
    BY <1>7 DEF ReadLength
  <2>2. PICK len \in NextLengths(reading[h].video) :
          reading' = [reading EXCEPT ![h].pos = next_frame_start, ![h].len = len]
    BY <1>7 DEF ReadLength
  <2>3. reading[h].video \in Video /\ next_frame_start \in Nat /\ reading[h] \in Reading
    BY <2>1 DEF SenderTypeOK, Reading
  <2>4. len \in Nat
    BY <2>2, <2>3, NextLengthsNat
  <2>5. reading'[h] = [video |-> reading[h].video, pos |-> next_frame_start, len |-> len]
    BY <2>2, <2>3 DEF SenderTypeOK, Reading
  <2>6. /\ reading' \in [Handlers -> Reading] /\ reading'[h].video \in Video
        /\ \A g \in Handlers \ {h} : reading'[g] = reading[g]
    BY <2>2, <2>3, <2>4, <2>5 DEF SenderTypeOK, Reading
  <2>7. /\ hpc' \in [Handlers -> HandlerPCs] /\ hpc'[h] = "header"
        /\ \A g \in Handlers \ {h} : hpc'[g] = hpc[g]
    BY <2>1, HandlerMoves DEF HandlerPCs
  <2> QED BY <1>2, <2>1, <2>6, <2>7 DEF SenderTypeOK, streamVars
<1>8. CASE SetRTPPacketHeader(h)
  <2>1. /\ hpc[h] = "header" /\ Goto(h, "socket")
        /\ UNCHANGED <<rtp_timer, video_file_name, frame_number, frame_total, wire, up>>
        /\ reading' = [reading EXCEPT ![h] = NoFile]
        /\ next_frame_start' = next_frame_start + NUMBER_SIZE + reading[h].len
    BY <1>8 DEF SetRTPPacketHeader
  <2>2. reading[h].video \in Video /\ reading[h].pos \in Nat /\ reading[h].len \in Nat
    BY <2>1 DEF SenderTypeOK
  <2>3. next_frame_start' \in Nat
    BY <2>1, <2>2 DEF SenderTypeOK, NUMBER_SIZE
  <2>4. ssrc' \in Ssrc
    BY <1>8 DEF SetRTPPacketHeader, SenderTypeOK
  <2>5. PICK p \in PacketsOf(h) : packet' = [packet EXCEPT ![h] = p]
    BY <1>8 DEF SetRTPPacketHeader
  <2>6. p \in Packet
    <3> DEFINE at == FramesAt(reading[h].video, reading[h].pos)
    <3>1. PICK k \in IF at = {} THEN {NoFrame} ELSE at :
            p = [seq |-> frame_number, ssrc |-> ssrc', video |-> reading[h].video, frame |-> k]
      BY <2>5 DEF PacketsOf
    <3>2. k \in Nat \cup {NoFrame}
      BY <2>2, <3>1, LengthsRead
    <3>3. frame_number \in 0 .. SeqMod - 1
      BY DEF SenderTypeOK
    <3> QED BY <2>2, <2>4, <3>1, <3>2, <3>3 DEF Packet
  <2>7. /\ packet' \in [Handlers -> Packet \cup {NULL}] /\ packet'[h] \in Packet
        /\ \A g \in Handlers \ {h} : packet'[g] = packet[g]
    BY <2>5, <2>6 DEF SenderTypeOK
  <2>8. /\ reading' \in [Handlers -> Reading]
        /\ \A g \in Handlers \ {h} : reading'[g] = reading[g]
    BY <2>1 DEF SenderTypeOK, NoFile, Reading
  <2>9. /\ hpc' \in [Handlers -> HandlerPCs] /\ hpc'[h] = "socket"
        /\ \A g \in Handlers \ {h} : hpc'[g] = hpc[g]
    BY <2>1, HandlerMoves DEF HandlerPCs
  <2>10. \A g \in Handlers :
           /\ hpc'[g] \in {"length", "header"} => reading'[g].video \in Video
           /\ hpc'[g] \in {"socket", "send"} => packet'[g] \in Packet
    BY <2>7, <2>8, <2>9 DEF SenderTypeOK
  <2> QED BY <1>2, <2>1, <2>3, <2>4, <2>7, <2>8, <2>9, <2>10 DEF SenderTypeOK
<1>9. CASE SetupServerUDPSocket(h)
  <2>1. /\ hpc[h] = "socket" /\ Goto(h, "send")
        /\ UNCHANGED <<rtp_timer, streamVars, reading, packet, wire, up>>
    BY <1>9 DEF SetupServerUDPSocket
  <2>2. /\ hpc' \in [Handlers -> HandlerPCs] /\ hpc'[h] = "send"
        /\ \A g \in Handlers \ {h} : hpc'[g] = hpc[g]
    BY <2>1, HandlerMoves DEF HandlerPCs
  <2> QED BY <1>2, <2>1, <2>2 DEF SenderTypeOK, streamVars, Reading
<1>10. CASE SendPacket(h)
  <2>1. /\ hpc[h] = "send" /\ Goto(h, "count") /\ wire' = packet[h]
        /\ packet' = [packet EXCEPT ![h] = NULL]
        /\ UNCHANGED <<rtp_timer, streamVars, reading, up>>
    BY <1>10 DEF SendPacket
  <2>2. /\ hpc' \in [Handlers -> HandlerPCs] /\ hpc'[h] = "count"
        /\ \A g \in Handlers \ {h} : hpc'[g] = hpc[g]
    BY <2>1, HandlerMoves DEF HandlerPCs
  <2>3. /\ wire' \in Packet /\ packet' \in [Handlers -> Packet \cup {NULL}]
        /\ \A g \in Handlers \ {h} : packet'[g] = packet[g]
    BY <2>1 DEF SenderTypeOK
  <2> QED BY <1>2, <2>1, <2>2, <2>3 DEF SenderTypeOK, streamVars, Reading
<1> QED BY <1>3, <1>4, <1>5, <1>6, <1>7, <1>8, <1>9, <1>10 DEF CatchAlarm

(* Of the steps of a handler Finish disarms the timer; none arms it.       *)
LEMMA HandlerTimer ==
  ASSUME NEW h \in Handlers, NEW names, CatchAlarm(h, names)
  PROVE  rtp_timer' \in {rtp_timer, FALSE}
BY DEF CatchAlarm, Alarm, Finish, StopRTPProgress, Rewind, HasFrame, FaultNoFile, OpenVideo,
       ReadLength, FaultNoName, SetRTPPacketHeader, SetupServerUDPSocket, SendPacket, CountFrame

(* None of them opens or closes the stream.                                *)
LEMMA HandlerKeepsFile ==
  ASSUME NEW h \in Handlers, NEW names, CatchAlarm(h, names)
  PROVE  UNCHANGED <<video_file_name, frame_total>>
BY DEF CatchAlarm, Alarm, Finish, Rewind, HasFrame, FaultNoFile, OpenVideo, ReadLength,
       FaultNoName, SetRTPPacketHeader, SetupServerUDPSocket, SendPacket, CountFrame, streamVars

(* getVideoInfo's step from one length field to the next.                  *)
LEMMA ScanType ==
  ASSUME SenderTypeOK, NEW v \in Video, NEW pos \in Nat, ScanFrame(v, pos)
  PROVE  next_frame_start' \in Nat
BY LengthsRead DEF ScanFrame, SenderTypeOK, NUMBER_SIZE
==============================================================================
