--------------------------- MODULE RtspServerProofs --------------------------
(***************************************************************************)
(* Theorems about RtspServer, for all clients, threads, files, session     *)
(* numbers and bounds, with handlers interleaved as they may be.           *)
(***************************************************************************)
EXTENDS RtspServer, RtpSenderProofs

Method == {"SETUP", "PLAY", "TEARDOWN"}

(* Where a thread may be with its request: only a SETUP scans, and it has  *)
(* its file.                                                               *)
Fits(th) ==
  /\ th.pc = "scan" => th.request = "SETUP" /\ th.video \in Video
  /\ th.pc = "respond" => th.request \in Method
  /\ th.pc = "commit" => th.request \in {"SETUP", "PLAY"}
  /\ th.pc = "start" => th.request = "PLAY"
  /\ th.pc \in {"stop", "reset"} => th.request = "TEARDOWN"

StepFits == \A t \in Thread : Fits(thread[t])

Inv == TypeOK /\ StepFits

------------------------------------------------------------------------------
(* What holds when requests come apart.                                    *)

Running(th) == th.pc # "free"

OneThread == \A s, t \in Thread : Running(thread[s]) /\ Running(thread[t]) => s = t

(* A request that has been admitted finds the server in the state it was   *)
(* admitted in.                                                            *)
StillValid(th) ==
  th.pc \notin {"free", "request", "close"} =>
    /\ th.request = "SETUP" => status = "INIT"
    /\ th.request = "PLAY" => status # "INIT"
    /\ th.pc = "start" => status = "PLAYING"

(* closeVideoStream has disarmed the timer before it clears the stream.    *)
Stopped(th) == th.pc = "reset" => ~ rtp_timer

(* There is a session id once getRTSPInfo has looked for one, and it is    *)
(* created only where there is none.                                       *)
SessionChosen(th) ==
  /\ th.pc \in {"headers", "scan", "respond", "commit", "start"} => session_id # 0
  /\ th.pc = "newid" => session_id = 0

(* What SETUP has prepared when it takes effect.                           *)
SettingUp(th) == th.request = "SETUP" /\ th.pc \in {"scan", "respond", "commit"}

TransportNamed == [protocol |-> protocol_type, port |-> client_rtp_port] \in Transports

Prepared(th) ==
  SettingUp(th) =>
    /\ protocol_type = PROTOCOL_TYPE
    /\ TransportNamed
    /\ th.pc # "scan" => video_file_name \in Video
    /\ th.pc = "commit" => known[th.client] = session_id

Progress(th) ==
  /\ inet /\ Running(th) => rtp_address # NULL
  /\ StillValid(th)
  /\ Stopped(th)
  /\ SessionChosen(th)
  /\ Prepared(th)

(* ReadyToPlay, OnlyPlayingStreams and SessionCanBeEnded.                  *)
SessionComplete ==
  status # "INIT" =>
    /\ session_id # 0
    /\ TransportNamed
    /\ plain => protocol_type = PROTOCOL_TYPE
    /\ inet => rtp_address # NULL
    /\ video_file_name \in Video
    /\ \E c \in Client : known[c] = session_id

TimerInPlaying == rtp_timer => status = "PLAYING"

Sequential ==
  /\ OneThread
  /\ \A t \in Thread : Progress(thread[t])
  /\ SessionComplete
  /\ TimerInPlaying

Apart == apart => Sequential

------------------------------------------------------------------------------
(* Type correctness.                                                       *)

ThreadState ==
  [pc : PCs, client : Client \cup {NULL}, request : Requests \cup {"none"},
   session : SessionId \cup {0}, video : Video \cup {NULL}, pos : Nat, count : Nat]

(* A step of a thread moves that thread and changes nothing else of it ... *)
LEMMA StepMoves ==
  ASSUME thread \in [Thread -> ThreadState], NEW t \in Thread, NEW to \in PCs,
         thread' = [thread EXCEPT ![t].pc = to]
  PROVE  /\ thread' \in [Thread -> ThreadState]
         /\ thread'[t].pc = to
         /\ thread'[t].client = thread[t].client /\ thread'[t].request = thread[t].request
         /\ thread'[t].video = thread[t].video
         /\ \A s \in Thread \ {t} : thread'[s] = thread[s]
BY DEF ThreadState

(* ... and a thread that ends leaves its place to another.                 *)
LEMMA EndFrees ==
  ASSUME thread \in [Thread -> ThreadState], NEW t \in Thread, End(t)
  PROVE  /\ thread' \in [Thread -> ThreadState]
         /\ thread'[t].pc = "free" /\ thread'[t].request = "none"
         /\ \A s \in Thread \ {t} : thread'[s] = thread[s]
<1>1. NoThread \in ThreadState /\ NoThread.pc = "free" /\ NoThread.request = "none"
  BY DEF NoThread, ThreadState, PCs
<1> QED BY <1>1 DEF End

(* A connection gives a free place to a request.                           *)
LEMMA AcceptStarts ==
  ASSUME TypeOK, NEW c \in Client, NEW r \in Requests, Accept(c, r)
  PROVE  \E t \in Thread :
           /\ thread[t].pc = "free"
           /\ thread' \in [Thread -> ThreadState]
           /\ thread'[t].pc = "request" /\ thread'[t].client = c
           /\ \A s \in Thread \ {t} : thread'[s] = thread[s]
<1>1. PICK t \in Thread :
        /\ thread[t].pc = "free"
        /\ thread' = [thread EXCEPT ![t] =
             [NoThread EXCEPT !.pc = "request", !.client = c, !.request = r, !.session = known[c]]]
  BY DEF Accept
<1> DEFINE new == [NoThread EXCEPT !.pc = "request", !.client = c, !.request = r,
                                   !.session = known[c]]
<1>2. new \in ThreadState /\ new.pc = "request" /\ new.client = c
  BY DEF NoThread, ThreadState, PCs, TypeOK
<1>3. thread \in [Thread -> ThreadState]
  BY DEF TypeOK, ThreadState
<1> QED BY <1>1, <1>2, <1>3

LEMMA BoundIsNumber == \A e \in Environments : MaxRequests[e] \in Nat
<1>1. MaxRequests \in [Environments -> Nat]
  BY ServerAssumption
<1> QED BY <1>1

LEMMA SafeInit == Init => Inv
<1> SUFFICES ASSUME Init PROVE Inv
  OBVIOUS
<1>1. \A t \in Thread : thread[t] = NoThread
  BY DEF Init
<1>2. NoThread \in ThreadState /\ NoThread.pc = "free"
  BY DEF NoThread, ThreadState, PCs
<1>3. thread \in [Thread -> ThreadState]
  BY <1>2 DEF Init
<1>4. accepted \in 0 .. MaxRequests[environment]
  <2>1. MaxRequests[environment] \in Nat
    BY BoundIsNumber DEF Init
  <2>2. accepted = 0
    BY DEF Init
  <2> QED BY <2>1, <2>2
<1>5. TypeOK
  BY <1>1, <1>2, <1>3, <1>4, SenderTypeInit DEF Init, TypeOK, ThreadState
<1> QED BY <1>1, <1>2, <1>5 DEF Inv, StepFits, Fits

(* The client of a thread that is not free is known.                       *)
LEMMA TypeAccept ==
  ASSUME Inv, NEW c \in Client, NEW r \in Requests, Accept(c, r)
  PROVE  Inv'
<1>1. PICK t \in Thread :
           /\ thread[t].pc = "free"
           /\ thread' \in [Thread -> ThreadState]
           /\ thread'[t].pc = "request" /\ thread'[t].client = c
           /\ \A s \in Thread \ {t} : thread'[s] = thread[s]
  BY AcceptStarts DEF Inv
<1>2. accepted' \in 0 .. MaxRequests[environment]
  <2>1. MaxRequests[environment] \in Nat
    BY BoundIsNumber DEF Inv, TypeOK
  <2>2. accepted \in 0 .. MaxRequests[environment]
    BY DEF Inv, TypeOK
  <2>3. accepted' = accepted + 1 /\ accepted < MaxRequests[environment]
    BY DEF Accept
  <2> QED BY <2>1, <2>2, <2>3
<1>3. SenderTypeOK'
  BY DEF Accept, Inv, TypeOK, SenderTypeOK, senderVars, streamVars, handlerVars
<1>4. \A s \in Thread : thread'[s].pc # "free" => thread'[s].client \in Client
  BY <1>1 DEF Inv, TypeOK
<1>5. TypeOK'
  BY <1>1, <1>2, <1>3, <1>4 DEF Accept, Inv, TypeOK, ThreadState, sessionVars
<1>6. StepFits'
  BY <1>1 DEF Inv, StepFits, Fits
<1> QED BY <1>5, <1>6 DEF Inv

TransportOK ==
  /\ protocol_type \in {line.protocol : line \in Transports} \cup {""}
  /\ client_rtp_port \in {line.port : line \in Transports} \cup {0}

(* The part of Inv that says where threads are.                            *)
ThreadsFit ==
  /\ thread \in [Thread -> ThreadState]
  /\ \A t \in Thread : thread[t].pc # "free" => thread[t].client \in Client
  /\ StepFits

LEMMA InvParts ==
  /\ Inv => ThreadsFit /\ SenderTypeOK
  /\ ThreadsFit /\ SenderTypeOK
       /\ environment \in Environments
       /\ status \in {"INIT", "READY", "PLAYING"}
       /\ session_id \in SessionId \cup {0}
       /\ TransportOK
       /\ rtp_address \in Client \cup {NULL}
       /\ target \in [Handlers -> Client \cup {NULL}]
       /\ known \in [Client -> SessionId \cup {0}]
       /\ waiting \in [Client -> BOOLEAN]
       /\ accepted \in 0 .. MaxRequests[environment] => Inv
BY DEF Inv, TypeOK, ThreadsFit, ThreadState, TransportOK

LEMMA OthersFit ==
  ASSUME ThreadsFit, NEW t \in Thread, thread' \in [Thread -> ThreadState],
         \A s \in Thread \ {t} : thread'[s] = thread[s],
         Fits(thread[t])', thread'[t].pc # "free" => thread'[t].client \in Client
  PROVE  ThreadsFit'
BY DEF ThreadsFit, StepFits

LEMMA MoveKeeps ==
  ASSUME ThreadsFit, NEW t \in Thread, NEW to \in PCs,
         thread[t].pc # "free", thread' = [thread EXCEPT ![t].pc = to],
         to # "scan",
         to = "respond" => thread[t].request \in Method,
         to = "commit" => thread[t].request \in {"SETUP", "PLAY"},
         to = "start" => thread[t].request = "PLAY",
         to \in {"stop", "reset"} => thread[t].request = "TEARDOWN"
  PROVE  ThreadsFit'
<1>1. /\ thread' \in [Thread -> ThreadState]
      /\ thread'[t].pc = to
      /\ thread'[t].client = thread[t].client /\ thread'[t].request = thread[t].request
      /\ \A s \in Thread \ {t} : thread'[s] = thread[s]
  BY StepMoves DEF ThreadsFit
<1>2. Fits(thread[t])'
  BY <1>1 DEF Fits
<1>3. thread'[t].client \in Client
  BY <1>1 DEF ThreadsFit
<1> QED BY <1>1, <1>2, <1>3, OthersFit

LEMMA EndKeeps ==
  ASSUME ThreadsFit, NEW t \in Thread, End(t)
  PROVE  ThreadsFit'
<1>1. /\ thread' \in [Thread -> ThreadState]
      /\ thread'[t].pc = "free" /\ thread'[t].request = "none"
      /\ \A s \in Thread \ {t} : thread'[s] = thread[s]
  BY EndFrees DEF ThreadsFit
<1>2. Fits(thread[t])'
  BY <1>1 DEF Fits
<1> QED BY <1>1, <1>2, OthersFit

(* The steps of the threads, in the order a request takes them.            *)
LEMMA TypeThread ==
  ASSUME Inv, NEW t \in Thread, ThreadStep(t)
  PROVE  Inv'
<1>0. /\ ThreadsFit /\ thread \in [Thread -> ThreadState] /\ thread[t] \in ThreadState
      /\ SenderTypeOK /\ Fits(thread[t])
  BY InvParts DEF ThreadsFit, StepFits
<1>1. /\ status \in {"INIT", "READY", "PLAYING"} /\ session_id \in SessionId \cup {0}
      /\ TransportOK /\ target \in [Handlers -> Client \cup {NULL}]
      /\ rtp_address \in Client \cup {NULL} /\ environment \in Environments
      /\ known \in [Client -> SessionId \cup {0}] /\ waiting \in [Client -> BOOLEAN]
      /\ accepted \in 0 .. MaxRequests[environment]
  BY DEF Inv, TypeOK, TransportOK
<1>2. ASSUME ThreadsFit', SenderTypeOK',
             status' \in {"INIT", "READY", "PLAYING"}, session_id' \in SessionId \cup {0},
             TransportOK', target' \in [Handlers -> Client \cup {NULL}],
             rtp_address' \in Client \cup {NULL}, UNCHANGED <<environment, accepted>>,
             known' \in [Client -> SessionId \cup {0}], waiting' \in [Client -> BOOLEAN]
      PROVE  Inv'
  BY <1>1, <1>2 DEF Inv, TypeOK, ThreadsFit, ThreadState, TransportOK
<1>3. ASSUME UNCHANGED senderVars PROVE SenderTypeOK'
  BY <1>0, <1>3 DEF SenderTypeOK, senderVars, streamVars, handlerVars
<1>4. ASSUME ThreadsFit', UNCHANGED <<senderVars, sessionVars, addressVars, clientVars>>
      PROVE  Inv'
  BY <1>1, <1>2, <1>3, <1>4 DEF sessionVars, addressVars, clientVars, TransportOK
<1>5. ASSUME NEW to \in PCs, to \in {"close", "session", "newid", "headers"},
             thread[t].pc # "free", thread' = [thread EXCEPT ![t].pc = to]
      PROVE  ThreadsFit'
  BY <1>0, <1>5, MoveKeeps
<1>t. ASSUME OtherTransport PROVE TransportOK'
  BY <1>1, <1>t DEF OtherTransport, SetTransport, TransportOK
<1>u. ASSUME UNCHANGED <<protocol_type, client_rtp_port>> PROVE TransportOK'
  BY <1>1, <1>u DEF TransportOK
<1> USE <1>1, <1>u DEF Step, MayRun, PCs, handlerVars, sessionVars, addressVars, clientVars
<1>6. CASE FaultNoRequest(t)
  <2>1. ThreadsFit'
    BY <1>0, <1>6 DEF FaultNoRequest, ThreadsFit, StepFits, Fits
  <2>2. SenderTypeOK'
    BY <1>0, <1>6 DEF FaultNoRequest, SenderTypeOK, streamVars
  <2> QED BY <1>1, <1>2, <1>6, <2>1, <2>2 DEF FaultNoRequest, sessionVars, clientVars
<1>7. CASE RejectRequest(t) \/ AdmitRequest(t) \/ TestSession(t)
  <2>1. ThreadsFit'
    BY <1>5, <1>7 DEF RejectRequest, AdmitRequest, TestSession
  <2> QED BY <1>4, <1>7, <2>1 DEF RejectRequest, AdmitRequest, TestSession
<1>8. CASE NewSession(t)
  <2>1. ThreadsFit'
    BY <1>5, <1>8 DEF NewSession
  <2> QED BY <1>1, <1>2, <1>3, <1>8, <2>1 DEF NewSession, clientVars
<1>9. ASSUME NEW v \in Video, NEW line \in Transports, SetupHeaders(t, v, line)
      PROVE  Inv'
  <2>1. ThreadsFit'
    <3> DEFINE to == IF line.protocol = PROTOCOL_TYPE THEN "scan" ELSE "close"
    <3>1. /\ thread[t].pc = "headers" /\ thread[t].request = "SETUP"
          /\ thread' = [thread EXCEPT ![t].pc = to, ![t].video = v]
      BY <1>9 DEF SetupHeaders
    <3>2. thread'[t] = [[thread[t] EXCEPT !.pc = to] EXCEPT !.video = v]
      BY <1>0, <3>1
    <3>3. /\ thread'[t] \in ThreadState /\ thread'[t].pc = to /\ thread'[t].video = v
          /\ thread'[t].client = thread[t].client /\ thread'[t].request = thread[t].request
      BY <1>0, <3>2 DEF ThreadState
    <3>4. /\ thread' \in [Thread -> ThreadState]
          /\ \A s \in Thread \ {t} : thread'[s] = thread[s]
      BY <1>0, <3>1, <3>3
    <3>5. Fits(thread[t])'
      BY <3>1, <3>3 DEF Fits
    <3>6. thread'[t].client \in Client
      BY <1>0, <3>1, <3>3 DEF ThreadsFit
    <3> QED BY <1>0, <3>4, <3>5, <3>6, OthersFit
  <2>2. TransportOK'
    BY <1>9 DEF SetupHeaders, SetTransport, TransportOK
  <2> QED BY <1>1, <1>2, <1>3, <1>9, <2>1, <2>2 DEF SetupHeaders, clientVars
<1>10. CASE OtherHeaders(t) \/ RefuseHeaders(t)
  <2>1. ThreadsFit'
    BY <1>0, <1>5, <1>10, MoveKeeps DEF OtherHeaders, RefuseHeaders, Method
  <2>2. TransportOK'
    BY <1>10, <1>t DEF OtherHeaders, RefuseHeaders
  <2> QED BY <1>1, <1>2, <1>3, <1>10, <2>1, <2>2 DEF OtherHeaders, RefuseHeaders, clientVars
<1>11. CASE Scan(t)
  <2>1. thread[t].pc = "scan" /\ thread[t].video \in Video /\ thread[t].pos \in Nat
    BY <1>0, <1>11 DEF Scan, Fits, ThreadState
  <2>2. next_frame_start' \in Nat
    BY <1>0, <1>11, <2>1, ScanType DEF Scan
  <2>3. ThreadsFit'
    <3>1. thread' = [thread EXCEPT ![t].pos = next_frame_start', ![t].count = @ + 1]
      BY <1>11 DEF Scan
    <3> DEFINE n == thread[t].count + 1
    <3>a. n \in Nat
      BY <1>0 DEF ThreadState
    <3>2. thread'[t] = [[thread[t] EXCEPT !.pos = next_frame_start'] EXCEPT !.count = n]
      BY <1>0, <3>1 DEF ThreadState
    <3> HIDE DEF n
    <3>3. /\ thread'[t] \in ThreadState /\ thread'[t].pc = thread[t].pc
          /\ thread'[t].video = thread[t].video
          /\ thread'[t].client = thread[t].client /\ thread'[t].request = thread[t].request
      BY <1>0, <2>2, <3>a, <3>2 DEF ThreadState
    <3>4. /\ thread' \in [Thread -> ThreadState]
          /\ \A s \in Thread \ {t} : thread'[s] = thread[s]
      BY <1>0, <3>1, <3>3
    <3>5. Fits(thread[t])'
      BY <1>0, <3>3 DEF Fits
    <3>6. thread'[t].client \in Client
      BY <1>0, <2>1, <3>3 DEF ThreadsFit
    <3> QED BY <1>0, <3>4, <3>5, <3>6, OthersFit
  <2>4. SenderTypeOK'
    BY <1>0, <1>11, <2>2 DEF Scan, ScanFrame, SenderTypeOK
  <2> QED BY <1>1, <1>2, <1>11, <2>3, <2>4 DEF Scan, sessionVars, clientVars
<1>12. CASE ScanEnd(t)
  <2>1. thread[t].request = "SETUP" /\ thread[t].video \in Video /\ thread[t].count \in Nat
    BY <1>0, <1>12 DEF ScanEnd, Fits, ThreadState
  <2>2. ThreadsFit'
    BY <1>0, <1>12, <2>1, MoveKeeps DEF ScanEnd, Method
  <2>3. SenderTypeOK'
    BY <1>0, <1>12, <2>1 DEF ScanEnd, ScanDone, SenderTypeOK
  <2> QED BY <1>1, <1>2, <1>12, <2>2, <2>3 DEF ScanEnd, sessionVars, clientVars
<1>13. CASE Respond(t)
  <2>1. thread[t].request \in Method /\ thread[t].client \in Client
    BY <1>0, <1>13 DEF Respond, ThreadsFit, Fits
  <2>2. ThreadsFit'
    BY <1>0, <1>13, <2>1, MoveKeeps DEF Respond, Method
  <2>3. known' \in [Client -> SessionId \cup {0}] /\ waiting' \in [Client -> BOOLEAN]
    BY <1>1, <1>13, <2>1 DEF Respond
  <2> QED BY <1>1, <1>2, <1>3, <1>13, <2>2, <2>3 DEF Respond, sessionVars
<1>14. CASE SetupCommit(t)
  BY <1>0, <1>1, <1>2, <1>3, <1>14, EndKeeps DEF SetupCommit, clientVars
<1>15. CASE PlayCommit(t)
  <2>1. ThreadsFit'
    BY <1>0, <1>15, MoveKeeps DEF PlayCommit
  <2> QED BY <1>1, <1>2, <1>3, <1>15, <2>1 DEF PlayCommit, clientVars
<1>16. CASE PlayStart(t)
  <2>1. SenderTypeOK'
    BY <1>0, <1>16 DEF PlayStart, StartRTPProgress, SenderTypeOK, streamVars
  <2> QED BY <1>0, <1>1, <1>2, <1>16, <2>1, EndKeeps DEF PlayStart, sessionVars, clientVars
<1>17. CASE TeardownStop(t)
  <2>1. ThreadsFit'
    BY <1>0, <1>17, MoveKeeps DEF TeardownStop, Fits
  <2>2. SenderTypeOK'
    BY <1>0, <1>17 DEF TeardownStop, StopIfPlaying, StopRTPProgress, SenderTypeOK, streamVars
  <2> QED BY <1>1, <1>2, <1>17, <2>1, <2>2 DEF TeardownStop, sessionVars, clientVars
<1>18. CASE TeardownReset(t)
  <2>1. 0 \in 0 .. SeqMod - 1
    BY SenderAssumption
  <2>2. SenderTypeOK'
    BY <1>0, <1>18, <2>1 DEF TeardownReset, ResetStream, SenderTypeOK
  <2>3. ThreadsFit'
    BY <1>0, <1>18, EndKeeps DEF TeardownReset
  <2>4. TransportOK'
    BY <1>18 DEF TeardownReset, InitServer, TransportOK
  <2> QED BY <1>2, <1>18, <2>2, <2>3, <2>4 DEF TeardownReset, InitServer
<1>19. CASE Close(t)
  <2>1. ThreadsFit'
    BY <1>0, <1>19, EndKeeps DEF Close
  <2>2. waiting' \in [Client -> BOOLEAN]
    BY <1>1, <1>19 DEF Close
  <2> QED BY <1>1, <1>2, <1>3, <1>19, <2>1, <2>2 DEF Close, sessionVars
<1> QED BY <1>6, <1>7, <1>8, <1>9, <1>10, <1>11, <1>12, <1>13, <1>14, <1>15, <1>16, <1>17,
           <1>18, <1>19 DEF ThreadStep

(* A step of a handler is one of the sender, or a fault.                   *)
LEMMA HandlerCases ==
  ASSUME NEW h \in Handlers, HandlerStep(h)
  PROVE  /\ UNCHANGED <<sessionVars, thread, clientVars>>
         /\ CatchAlarm(h, NamesHeld) \/ FaultNoAddress(h)
         /\ rtp_address' # rtp_address => target[h] # NULL /\ rtp_address' = target[h]
BY DEF HandlerStep, Resolve, Send, FaultNoAddress, CatchAlarm, addressVars

LEMMA HandlerQuiet ==
  ASSUME NEW h \in Handlers, HandlerStep(h)
  PROVE  rtp_timer' \in {rtp_timer, FALSE} /\ video_file_name' = video_file_name
<1>1. CASE CatchAlarm(h, NamesHeld)
  BY <1>1, HandlerTimer, HandlerKeepsFile
<1>2. CASE FaultNoAddress(h)
  BY <1>2 DEF FaultNoAddress, streamVars
<1> QED BY <1>1, <1>2, HandlerCases

LEMMA TypeHandler ==
  ASSUME Inv, NEW h \in Handlers, HandlerStep(h)
  PROVE  Inv'
<1>1. SenderTypeOK'
  <2>1. SenderTypeOK
    BY InvParts
  <2>2. NamesHeld \in SUBSET (Video \cup {NULL})
    BY <2>1 DEF NamesHeld, SenderTypeOK
  <2>3. CASE CatchAlarm(h, NamesHeld)
    BY <2>1, <2>2, <2>3, HandlerType
  <2>4. CASE FaultNoAddress(h)
    BY <2>1, <2>4 DEF FaultNoAddress, SenderTypeOK, streamVars, handlerVars
  <2> QED BY <2>3, <2>4, HandlerCases
<1>2. target \in [Handlers -> Client \cup {NULL}] /\ rtp_address \in Client \cup {NULL}
  BY DEF Inv, TypeOK
<1>3. target' \in [Handlers -> Client \cup {NULL}]
  BY <1>2 DEF HandlerStep, Resolve, Send, FaultNoAddress, addressVars
<1>4. rtp_address' \in Client \cup {NULL}
  BY <1>2, HandlerCases
<1>5. UNCHANGED <<sessionVars, thread, clientVars>>
  BY HandlerCases
<1> QED BY <1>1, <1>3, <1>4, <1>5 DEF Inv, TypeOK, StepFits, Fits, sessionVars, clientVars

LEMMA SafeStep == Inv /\ [Next]_vars => Inv'
<1> SUFFICES ASSUME Inv, [Next]_vars PROVE Inv'
  OBVIOUS
<1>1. CASE UNCHANGED vars
  <2>1. UNCHANGED <<senderVars, status, session_id, protocol_type, client_rtp_port, rtp_address,
                    target, thread, environment, known, waiting, accepted>>
    BY <1>1 DEF vars, sessionVars, addressVars, clientVars
  <2>2. SenderTypeOK'
    BY <2>1 DEF senderVars, streamVars, handlerVars, Inv, TypeOK, SenderTypeOK
  <2>3. StepFits'
    BY <2>1 DEF Inv, StepFits, Fits
  <2> QED BY <2>1, <2>2, <2>3 DEF Inv, TypeOK
<1> QED BY <1>1, TypeAccept, TypeThread, TypeHandler DEF Next

LEMMA Invariance == Spec => []Inv
BY SafeInit, SafeStep, PTL DEF Spec

(* The server's globals keep their kinds however threads and handlers are  *)
(* interleaved.                                                            *)
THEOREM TypeCorrect == Spec => []TypeOK
BY Invariance, PTL DEF Inv

------------------------------------------------------------------------------
(* Requests that come apart.                                               *)
LEMMA SameEnvironment == Inv /\ [Next]_vars => environment' = environment
BY DEF Next, vars, clientVars, Accept, ThreadStep, FaultNoRequest, RejectRequest, AdmitRequest,
       TestSession, NewSession, SetupHeaders, OtherHeaders, RefuseHeaders, Scan, ScanEnd, Respond, SetupCommit,
       PlayCommit, PlayStart, TeardownStop, TeardownReset, Close, HandlerStep

(* While a thread runs it is the only one.                                 *)
LEMMA Alone ==
  ASSUME Inv, Sequential, NEW t \in Thread, thread[t].pc # "free",
         \A s \in Thread \ {t} : thread'[s] = thread[s]
  PROVE  /\ OneThread'
         /\ \A s \in Thread \ {t} : thread[s].pc = "free" /\ thread'[s].pc = "free"
         /\ Progress(thread[t])' => (\A s \in Thread : Progress(thread[s]))'
<1>1. \A s \in Thread \ {t} : thread[s].pc = "free" /\ thread'[s].pc = "free"
  BY DEF Sequential, OneThread, Running
<1>2. OneThread'
  BY <1>1 DEF OneThread, Running
<1>3. ASSUME NEW s \in Thread \ {t} PROVE Progress(thread[s])'
  BY <1>1 DEF Progress, Running, StillValid, Stopped, SessionChosen, Prepared, SettingUp
<1> QED BY <1>1, <1>2, <1>3

LEMMA ApartAccept ==
  ASSUME Inv, Sequential, apart, NEW c \in Client, NEW r \in Requests, Accept(c, r)
  PROVE  Sequential'
<1>1. PICK t \in Thread :
           /\ thread[t].pc = "free"
           /\ thread' \in [Thread -> ThreadState]
           /\ thread'[t].pc = "request" /\ thread'[t].client = c
           /\ \A s \in Thread \ {t} : thread'[s] = thread[s]
  BY AcceptStarts DEF Inv
<1>2. /\ \A s \in Thread : thread[s].pc = "free"
      /\ inet => rtp_address' # NULL
      /\ UNCHANGED <<environment, status, session_id, protocol_type, client_rtp_port, video_file_name,
                     rtp_timer, known>>
  BY ServerAssumption DEF Accept, sessionVars, senderVars, streamVars
<1>3. OneThread'
  BY <1>1, <1>2 DEF OneThread, Running
<1>4. \A s \in Thread : thread'[s].pc \in {"free", "request"}
  BY <1>1, <1>2
<1>5. ASSUME NEW s \in Thread PROVE Progress(thread[s])'
  BY <1>2, <1>4 DEF Progress, Running, StillValid, Stopped, SessionChosen, Prepared, SettingUp, inet
<1>6. SessionComplete' /\ TimerInPlaying'
  BY <1>2 DEF Sequential, SessionComplete, TimerInPlaying, TransportNamed, plain, inet
<1> QED BY <1>3, <1>5, <1>6 DEF Sequential

LEMMA ApartHandler ==
  ASSUME Inv, Sequential, NEW h \in Handlers, HandlerStep(h)
  PROVE  Sequential'
<1>1. /\ UNCHANGED <<sessionVars, thread, clientVars>>
      /\ video_file_name' = video_file_name
      /\ rtp_timer' => rtp_timer
      /\ rtp_address # NULL => rtp_address' # NULL
  BY HandlerCases, HandlerQuiet
<1> USE <1>1 DEF sessionVars, clientVars, TransportNamed, plain, inet
<1>2. OneThread' /\ SessionComplete' /\ TimerInPlaying'
  BY DEF Sequential, OneThread, Running, SettingUp, SessionComplete, TimerInPlaying
<1>3. ASSUME NEW s \in Thread PROVE Progress(thread[s])'
  BY DEF Sequential, Progress, Running, StillValid, Stopped, SessionChosen, Prepared, SettingUp
<1> QED BY <1>2, <1>3 DEF Sequential

LEMMA LineParts ==
  ASSUME NEW Names, NEW Ports
  PROVE  \A line \in [protocol : Names, port : Ports] :
           line = [protocol |-> line.protocol, port |-> line.port]
OBVIOUS

(* The steps of the threads, in the order a request takes them.            *)
LEMMA ApartThread ==
  ASSUME Inv, Inv', Sequential, NEW t \in Thread, ThreadStep(t)
  PROVE  Sequential'
<1>0. /\ ThreadsFit /\ thread \in [Thread -> ThreadState] /\ thread[t] \in ThreadState
      /\ Fits(thread[t]) /\ Progress(thread[t])
      /\ SessionComplete /\ TimerInPlaying
  BY InvParts DEF ThreadsFit, StepFits, Sequential
<1>1. /\ status \in {"INIT", "READY", "PLAYING"} /\ session_id \in SessionId \cup {0}
      /\ known \in [Client -> SessionId \cup {0}] /\ 0 \notin SessionId
      /\ NULL \notin Client
  BY ServerAssumption DEF Inv, TypeOK
<1>2. ASSUME thread[t].pc # "free", \A s \in Thread \ {t} : thread'[s] = thread[s],
             Progress(thread[t])', SessionComplete', TimerInPlaying'
      PROVE  Sequential'
  BY <1>2, Alone DEF Sequential
<1>5. ASSUME NEW to \in PCs, thread' = [thread EXCEPT ![t].pc = to]
      PROVE  /\ thread'[t].pc = to
             /\ thread'[t].client = thread[t].client /\ thread'[t].request = thread[t].request
             /\ \A s \in Thread \ {t} : thread'[s] = thread[s]
  BY <1>0, <1>5, StepMoves
<1>6. ASSUME End(t)
      PROVE  /\ Progress(thread[t])'
             /\ \A s \in Thread \ {t} : thread'[s] = thread[s]
  <2>1. /\ thread'[t].pc = "free" /\ thread'[t].request = "none"
        /\ \A s \in Thread \ {t} : thread'[s] = thread[s]
    BY <1>0, <1>6, EndFrees
  <2> QED BY <2>1 DEF Progress, Running, StillValid, Stopped, SessionChosen, Prepared, SettingUp
<1>7. ASSUME UNCHANGED <<environment, status, session_id, protocol_type, client_rtp_port, rtp_address,
                         video_file_name, rtp_timer, known>>
      PROVE  SessionComplete' /\ TimerInPlaying'
  BY <1>0, <1>7 DEF SessionComplete, TimerInPlaying, TransportNamed, plain, inet
<1> DEFINE Place == <<environment, status, session_id, protocol_type, client_rtp_port, rtp_address,
                      video_file_name, rtp_timer, known>>
<1> USE DEF Step, MayRun, PCs, senderVars, streamVars, handlerVars, sessionVars, addressVars, clientVars,
            TransportNamed, plain, inet
<1>c. \A line \in Transports : [protocol |-> line.protocol, port |-> line.port] \in Transports
  BY LineParts, ServerAssumption
<1>8. CASE FaultNoRequest(t)
  <2>1. UNCHANGED Place /\ thread' = thread
    BY <1>8 DEF FaultNoRequest
  <2> QED BY <2>1 DEF Sequential, OneThread, SessionComplete, TimerInPlaying,
                  Progress, Running, StillValid, Stopped, SessionChosen, Prepared, SettingUp
<1>9. CASE RejectRequest(t)
  <2>1. UNCHANGED Place /\ thread[t].pc = "request" /\ thread' = [thread EXCEPT ![t].pc = "close"]
    BY <1>9 DEF RejectRequest
  <2>2. /\ thread'[t].pc = "close"
        /\ \A s \in Thread \ {t} : thread'[s] = thread[s]
    BY <1>5, <2>1
  <2>3. Progress(thread[t])'
    BY <1>0, <2>1, <2>2
    DEF Progress, Running, StillValid, Stopped, SessionChosen, Prepared, SettingUp
  <2> QED BY <1>2, <1>7, <2>1, <2>2, <2>3
<1>10. CASE AdmitRequest(t)
  <2>1. UNCHANGED Place /\ thread[t].pc = "request" /\ thread' = [thread EXCEPT ![t].pc = "session"]
    BY <1>10 DEF AdmitRequest
  <2>2. /\ thread'[t].pc = "session" /\ thread'[t].request = thread[t].request
        /\ \A s \in Thread \ {t} : thread'[s] = thread[s]
    BY <1>5, <2>1
  <2>3. /\ thread[t].request = "SETUP" => status = "INIT"
        /\ thread[t].request = "PLAY" => status # "INIT"
    BY <1>10 DEF AdmitRequest, MethodIsNotValidInState
  <2>4. Progress(thread[t])'
    BY <1>0, <2>1, <2>2, <2>3
    DEF Progress, Running, StillValid, Stopped, SessionChosen, Prepared, SettingUp
  <2> QED BY <1>2, <1>7, <2>1, <2>2, <2>4
<1>11. CASE TestSession(t)
  <2> DEFINE to == IF session_id = 0 THEN "newid" ELSE "headers"
  <2>1. UNCHANGED Place /\ thread[t].pc = "session" /\ thread' = [thread EXCEPT ![t].pc = to]
    BY <1>11 DEF TestSession
  <2>2. /\ thread'[t].pc = to /\ thread'[t].request = thread[t].request
        /\ \A s \in Thread \ {t} : thread'[s] = thread[s]
    BY <1>5, <2>1
  <2>3. Progress(thread[t])'
    BY <1>0, <2>1, <2>2
    DEF Progress, Running, StillValid, Stopped, SessionChosen, Prepared, SettingUp
  <2> QED BY <1>2, <1>7, <2>1, <2>2, <2>3
<1>12. CASE NewSession(t)
  <2>1. /\ thread[t].pc = "newid" /\ thread' = [thread EXCEPT ![t].pc = "headers"]
        /\ session_id' \in SessionId
        /\ UNCHANGED <<environment, status, protocol_type, client_rtp_port, rtp_address,
                       video_file_name, rtp_timer, known>>
    BY <1>12 DEF NewSession
  <2>2. /\ thread'[t].pc = "headers" /\ thread'[t].request = thread[t].request
        /\ \A s \in Thread \ {t} : thread'[s] = thread[s]
    BY <1>5, <2>1
  <2>3. status = "INIT"
    BY <1>0, <2>1 DEF Progress, SessionChosen, SessionComplete
  <2>4. Progress(thread[t])'
    BY <1>0, <1>1, <2>1, <2>2
    DEF Progress, Running, StillValid, Stopped, SessionChosen, Prepared, SettingUp
  <2>5. SessionComplete' /\ TimerInPlaying'
    BY <1>0, <2>1, <2>3 DEF SessionComplete, TimerInPlaying
  <2> QED BY <1>2, <2>1, <2>2, <2>4, <2>5
<1>13. ASSUME NEW v \in Video, NEW line \in Transports, SetupHeaders(t, v, line)
       PROVE  Sequential'
  <2> DEFINE to == IF line.protocol = PROTOCOL_TYPE THEN "scan" ELSE "close"
  <2>1. /\ thread[t].pc = "headers" /\ thread[t].request = "SETUP"
        /\ thread' = [thread EXCEPT ![t].pc = to, ![t].video = v]
        /\ protocol_type' = line.protocol /\ client_rtp_port' = line.port
        /\ UNCHANGED <<environment, status, session_id, rtp_address, video_file_name, rtp_timer, known>>
    BY <1>13 DEF SetupHeaders, SetTransport
  <2>2. /\ thread'[t].pc = to /\ thread'[t].request = "SETUP"
        /\ \A s \in Thread \ {t} : thread'[s] = thread[s]
    BY <1>0, <2>1 DEF ThreadState
  <2>3. status = "INIT" /\ session_id # 0 /\ (inet => rtp_address # NULL)
    BY <1>0, <2>1 DEF Progress, Running, StillValid, SessionChosen
  <2>4. TransportNamed'
    BY <2>1, <1>c
  <2>5. Progress(thread[t])'
    BY <2>1, <2>2, <2>3, <2>4
    DEF Progress, Running, StillValid, Stopped, SessionChosen, Prepared, SettingUp
  <2>6. SessionComplete' /\ TimerInPlaying'
    BY <1>0, <2>1, <2>3 DEF SessionComplete, TimerInPlaying
  <2> QED BY <1>2, <2>1, <2>2, <2>5, <2>6
<1>14. CASE OtherHeaders(t) \/ RefuseHeaders(t)
  <2>1. /\ UNCHANGED <<environment, status, session_id, rtp_address, video_file_name, rtp_timer, known>>
        /\ thread[t].pc = "headers" /\ OtherTransport
        /\ \E to \in {"respond", "close"} :
             /\ thread' = [thread EXCEPT ![t].pc = to]
             /\ to = "respond" => thread[t].request # "SETUP"
    BY <1>14 DEF OtherHeaders, RefuseHeaders
  <2>2. /\ thread'[t].pc \in {"respond", "close"} /\ thread'[t].request = thread[t].request
        /\ thread'[t].pc = "respond" => thread[t].request # "SETUP"
        /\ \A s \in Thread \ {t} : thread'[s] = thread[s]
    BY <1>5, <2>1
  <2>3. Progress(thread[t])'
    BY <1>0, <2>1, <2>2
    DEF Progress, Running, StillValid, Stopped, SessionChosen, Prepared, SettingUp
  <2>4. \/ UNCHANGED <<protocol_type, client_rtp_port>>
        \/ ~ plain /\ TransportNamed'
    BY <1>c, <2>1 DEF OtherTransport, SetTransport
  <2>5. SessionComplete' /\ TimerInPlaying'
    BY <1>0, <2>1, <2>4 DEF SessionComplete, TimerInPlaying
  <2> QED BY <1>2, <2>1, <2>2, <2>3, <2>5
<1>15. CASE Scan(t)
  <2>1. /\ UNCHANGED Place /\ thread[t].pc = "scan"
        /\ thread' = [thread EXCEPT ![t].pos = next_frame_start', ![t].count = @ + 1]
    BY <1>15 DEF Scan, ScanFrame
  <2>2. /\ thread'[t].pc = thread[t].pc /\ thread'[t].request = thread[t].request
        /\ thread'[t].client = thread[t].client
        /\ \A s \in Thread \ {t} : thread'[s] = thread[s]
    BY <1>0, <2>1 DEF ThreadState
  <2>3. Progress(thread[t])'
    BY <1>0, <2>1, <2>2
    DEF Progress, Running, StillValid, Stopped, SessionChosen, Prepared, SettingUp
  <2> QED BY <1>2, <1>7, <2>1, <2>2, <2>3
<1>16. CASE ScanEnd(t)
  <2>1. /\ thread[t].pc = "scan" /\ thread[t].request = "SETUP" /\ thread[t].video \in Video
        /\ thread' = [thread EXCEPT ![t].pc = "respond"]
        /\ video_file_name' = thread[t].video
        /\ UNCHANGED <<environment, status, session_id, protocol_type, client_rtp_port, rtp_address,
                       rtp_timer, known>>
    BY <1>0, <1>16 DEF ScanEnd, ScanDone, Fits
  <2>2. /\ thread'[t].pc = "respond" /\ thread'[t].request = "SETUP"
        /\ \A s \in Thread \ {t} : thread'[s] = thread[s]
    BY <1>5, <2>1
  <2>3. Progress(thread[t])'
    BY <1>0, <2>1, <2>2
    DEF Progress, Running, StillValid, Stopped, SessionChosen, Prepared, SettingUp
  <2>4. SessionComplete' /\ TimerInPlaying'
    BY <1>0, <2>1 DEF SessionComplete, TimerInPlaying
  <2> QED BY <1>2, <2>1, <2>2, <2>3, <2>4
<1>17. CASE Respond(t)
  <2> DEFINE to == IF thread[t].request = "TEARDOWN" THEN "stop" ELSE "commit"
             c == thread[t].client
  <2>1. /\ thread[t].pc = "respond" /\ thread[t].request \in Method /\ c \in Client
        /\ thread' = [thread EXCEPT ![t].pc = to]
        /\ UNCHANGED <<environment, status, session_id, protocol_type, client_rtp_port, rtp_address,
                       video_file_name, rtp_timer>>
    BY <1>0, <1>17 DEF Respond, Fits, ThreadsFit
  <2>2. /\ thread'[t].pc = to /\ thread'[t].request = thread[t].request
        /\ thread'[t].client = c
        /\ \A s \in Thread \ {t} : thread'[s] = thread[s]
    BY <1>5, <2>1
  <2>3. session_id # 0
    BY <1>0, <2>1 DEF Progress, SessionChosen
  <2>4. known' = [known EXCEPT ![c] = session_id]
    BY <1>17, <2>3 DEF Respond
  <2>5. known'[c] = session_id /\ \A d \in Client : known[d] = session_id => known'[d] = session_id
    BY <1>1, <2>1, <2>4
  <2>6. Progress(thread[t])'
    BY <1>0, <2>1, <2>2, <2>5
    DEF Progress, Running, StillValid, Stopped, SessionChosen, Prepared, SettingUp, Method
  <2>7. SessionComplete' /\ TimerInPlaying'
    BY <1>0, <2>1, <2>5 DEF SessionComplete, TimerInPlaying
  <2> QED BY <1>2, <2>1, <2>2, <2>6, <2>7
<1>18. CASE SetupCommit(t)
  <2>1. /\ thread[t].pc = "commit" /\ thread[t].request = "SETUP" /\ status' = "READY" /\ End(t)
        /\ UNCHANGED <<environment, session_id, protocol_type, client_rtp_port, rtp_address,
                       video_file_name, rtp_timer, known>>
    BY <1>18 DEF SetupCommit
  <2>2. status = "INIT" /\ thread[t].client \in Client
    BY <1>0, <2>1 DEF Progress, StillValid, ThreadsFit
  <2>3. SessionComplete' /\ TimerInPlaying'
    BY <1>0, <2>1, <2>2
    DEF SessionComplete, TimerInPlaying, Progress, Running, SessionChosen, Prepared, SettingUp
  <2> QED BY <1>2, <1>6, <2>1, <2>3
<1>19. CASE PlayCommit(t)
  <2>1. /\ thread[t].pc = "commit" /\ thread[t].request = "PLAY" /\ status' = "PLAYING"
        /\ thread' = [thread EXCEPT ![t].pc = "start"]
        /\ UNCHANGED <<environment, session_id, protocol_type, client_rtp_port, rtp_address,
                       video_file_name, rtp_timer, known>>
    BY <1>19 DEF PlayCommit
  <2>2. /\ thread'[t].pc = "start" /\ thread'[t].request = "PLAY"
        /\ \A s \in Thread \ {t} : thread'[s] = thread[s]
    BY <1>5, <2>1
  <2>3. status # "INIT"
    BY <1>0, <2>1 DEF Progress, StillValid
  <2>4. Progress(thread[t])'
    BY <1>0, <2>1, <2>2
    DEF Progress, Running, StillValid, Stopped, SessionChosen, Prepared, SettingUp
  <2>5. SessionComplete' /\ TimerInPlaying'
    BY <1>0, <2>1, <2>3 DEF SessionComplete, TimerInPlaying
  <2> QED BY <1>2, <2>1, <2>2, <2>4, <2>5
<1>20. CASE PlayStart(t)
  <2>1. /\ thread[t].pc = "start" /\ thread[t].request = "PLAY" /\ End(t)
        /\ UNCHANGED <<environment, status, session_id, protocol_type, client_rtp_port, rtp_address,
                       video_file_name, known>>
    BY <1>0, <1>20 DEF PlayStart, Fits
  <2>2. status = "PLAYING"
    BY <1>0, <2>1 DEF Progress, StillValid
  <2>3. SessionComplete' /\ TimerInPlaying'
    BY <1>0, <2>1, <2>2 DEF SessionComplete, TimerInPlaying
  <2> QED BY <1>2, <1>6, <2>1, <2>2, <2>3
<1>21. CASE TeardownStop(t)
  <2>1. /\ thread[t].pc = "stop" /\ thread[t].request = "TEARDOWN"
        /\ thread' = [thread EXCEPT ![t].pc = "reset"]
        /\ UNCHANGED <<environment, status, session_id, protocol_type, client_rtp_port, rtp_address,
                       video_file_name, known>>
    BY <1>0, <1>21 DEF TeardownStop, Fits
  <2>2. /\ thread'[t].pc = "reset" /\ thread'[t].request = "TEARDOWN"
        /\ \A s \in Thread \ {t} : thread'[s] = thread[s]
    BY <1>5, <2>1
  <2>3. ~ rtp_timer'
    BY <1>0, <1>21 DEF TeardownStop, StopIfPlaying, StopRTPProgress, TimerInPlaying
  <2>4. Progress(thread[t])'
    BY <1>0, <2>1, <2>2, <2>3
    DEF Progress, Running, StillValid, Stopped, SessionChosen, Prepared, SettingUp
  <2>5. SessionComplete' /\ TimerInPlaying'
    BY <1>0, <2>1, <2>3 DEF SessionComplete, TimerInPlaying
  <2> QED BY <1>2, <2>1, <2>2, <2>4, <2>5
<1>22. CASE TeardownReset(t)
  <2>1. /\ thread[t].pc = "reset" /\ End(t) /\ status' = "INIT" /\ protocol_type' = ""
        /\ rtp_timer' = rtp_timer
    BY <1>22 DEF TeardownReset, InitServer
  <2>2. ~ rtp_timer
    BY <1>0, <2>1 DEF Progress, Stopped
  <2>3. SessionComplete' /\ TimerInPlaying'
    BY <2>1, <2>2 DEF SessionComplete, TimerInPlaying
  <2> QED BY <1>2, <1>6, <2>1, <2>3 DEF PROTOCOL_TYPE
<1>23. CASE Close(t)
  <2>1. UNCHANGED Place /\ thread[t].pc = "close" /\ End(t)
    BY <1>23 DEF Close
  <2> QED BY <1>2, <1>6, <1>7, <2>1 DEF SettingUp
<1> QED BY <1>8, <1>9, <1>10, <1>11, <1>12, <1>13, <1>14, <1>15, <1>16, <1>17, <1>18, <1>19,
           <1>20, <1>21, <1>22, <1>23 DEF ThreadStep

LEMMA ApartStep == Inv /\ Apart /\ [Next]_vars => Apart'
<1> SUFFICES ASSUME Inv, Inv', Sequential, apart, [Next]_vars PROVE Sequential'
  BY SameEnvironment, SafeStep DEF Apart, apart
<1>1. CASE UNCHANGED vars
  BY <1>1 DEF vars, senderVars, streamVars, sessionVars, addressVars, clientVars, Sequential,
              OneThread, SessionComplete, TimerInPlaying, Progress, Running, StillValid, Stopped,
              SessionChosen, Prepared, SettingUp, TransportNamed, plain, inet
<1> QED BY <1>1, ApartAccept, ApartThread, ApartHandler DEF Next

LEMMA ApartAlways == Spec => [](Inv /\ Apart)
<1>1. ASSUME Init PROVE Apart
  <2>1. \A t \in Thread : thread[t].pc = "free"
    BY <1>1 DEF Init, NoThread
  <2>2. \A t \in Thread : Progress(thread[t])
    BY <2>1 DEF Progress, Running, StillValid, Stopped, SessionChosen, Prepared, SettingUp
  <2> QED BY <1>1, <2>1, <2>2
      DEF Init, SenderInit, Apart, Sequential, OneThread, Running,
          SessionComplete, TimerInPlaying, PROTOCOL_TYPE
<1> QED BY <1>1, SafeInit, SafeStep, ApartStep, PTL DEF Spec

(* If requests come apart, out of INIT there are a session id, an open     *)
(* file and the transport of some request, whatever was refused or left    *)
(* unanswered before; the supported protocol if only SETUP names one, and  *)
(* a host if every client's is of AF_INET.                                 *)
THEOREM PlayIsPrepared == Spec => []ReadyToPlay
<1>1. Apart => ReadyToPlay
  BY DEF Apart, Sequential, SessionComplete, ReadyToPlay, TransportNamed
<1> QED BY <1>1, ApartAlways, PTL

(* The timer is armed only in PLAYING, also between the steps of PLAY and  *)
(* TEARDOWN: the status is set before the timer is armed, and kept until   *)
(* it is disarmed.                                                         *)
THEOREM TimerOnlyInPlaying == Spec => []OnlyPlayingStreams
<1>1. Apart => OnlyPlayingStreams
  BY DEF Apart, Sequential, TimerInPlaying, OnlyPlayingStreams
<1> QED BY <1>1, ApartAlways, PTL

(* Some client was told the id of the open session, whichever clients made *)
(* requests since: the session is not lost to all of them.                 *)
THEOREM SomeoneCanEnd == Spec => []SessionCanBeEnded
<1>1. Apart => SessionCanBeEnded
  BY DEF Apart, Sequential, SessionComplete, SessionCanBeEnded
<1> QED BY <1>1, ApartAlways, PTL

(* What two clients' SETUPs break holds of requests that come apart: the   *)
(* status that methodIsNotValidInState tested is still INIT when the SETUP *)
(* takes effect.                                                           *)
THEOREM SetupApart == Spec => [][apart => \A t \in Thread : SetupCommit(t) => status = "INIT"]_vars
<1>1. ASSUME Apart, apart, NEW t \in Thread, SetupCommit(t)
      PROVE  status = "INIT"
  BY <1>1 DEF Apart, Sequential, Progress, StillValid, SetupCommit
<1>2. Apart => [apart => \A t \in Thread : SetupCommit(t) => status = "INIT"]_vars
  BY <1>1
<1> QED BY <1>2, ApartAlways, PTL

------------------------------------------------------------------------------
(* The refinement of RtspSession.                                          *)

Streaming == rtp_timer \/ \E t \in Thread : thread[t].pc = "start"

LEMMA SessionStep ==
  ASSUME Inv, Sequential, apart, [Next]_vars
  PROVE  Session!Next \/ UNCHANGED Session!vars
<1>0. ThreadsFit /\ thread \in [Thread -> ThreadState] /\ TimerInPlaying /\ SessionComplete
  BY InvParts DEF ThreadsFit, Sequential
<1>1. ASSUME UNCHANGED <<status, session_id>>, Streaming' <=> Streaming
      PROVE  UNCHANGED Session!vars
  BY <1>1 DEF Session!vars, Streaming
<1>2. ASSUME UNCHANGED <<status, session_id>>, Streaming, ~ Streaming'
      PROVE  Session!EndOfStream
  BY <1>2 DEF Session!EndOfStream, Streaming
<1>3. ASSUME NEW t \in Thread, ThreadStep(t)
      PROVE  Session!Next \/ UNCHANGED Session!vars
  <2> USE DEF Step, MayRun, PCs, senderVars, streamVars, handlerVars, sessionVars, addressVars, clientVars
  <2>0. Progress(thread[t]) /\ Fits(thread[t])
    BY <1>0 DEF Sequential, ThreadsFit, StepFits
  <2>1. ASSUME \A s \in Thread : thread[s].pc = "start" <=> thread'[s].pc = "start",
               rtp_timer' = rtp_timer
        PROVE  Streaming' <=> Streaming
    BY <2>1 DEF Streaming
  <2>2. ASSUME NEW to \in PCs, thread' = [thread EXCEPT ![t].pc = to], to # "start",
               thread[t].pc # "start"
        PROVE  \A s \in Thread : thread[s].pc = "start" <=> thread'[s].pc = "start"
    <3>1. thread'[t].pc = to /\ \A s \in Thread \ {t} : thread'[s] = thread[s]
      BY <1>0, <2>2, StepMoves
    <3> QED BY <2>2, <3>1
  <2>3. ASSUME End(t), thread[t].pc # "start"
        PROVE  \A s \in Thread : thread[s].pc = "start" <=> thread'[s].pc = "start"
    <3>1. thread'[t].pc = "free" /\ \A s \in Thread \ {t} : thread'[s] = thread[s]
      BY <1>0, <2>3, EndFrees
    <3> QED BY <2>3, <3>1
  <2>4. CASE FaultNoRequest(t)
    BY <1>1, <2>4 DEF FaultNoRequest, Streaming
  <2>5. CASE \/ RejectRequest(t) \/ AdmitRequest(t) \/ TestSession(t) \/ OtherHeaders(t)
             \/ RefuseHeaders(t) \/ ScanEnd(t) \/ Respond(t)
    <3>1. UNCHANGED <<status, session_id, rtp_timer>>
      BY <2>5 DEF RejectRequest, AdmitRequest, TestSession, OtherHeaders, RefuseHeaders,
                  ScanEnd, Respond
    <3>2. \E to \in PCs : /\ thread' = [thread EXCEPT ![t].pc = to]
                          /\ to # "start" /\ thread[t].pc # "start"
      BY <2>5 DEF RejectRequest, AdmitRequest, TestSession, OtherHeaders, RefuseHeaders,
                  ScanEnd, Respond
    <3> QED BY <1>1, <2>1, <2>2, <3>1, <3>2
  <2>6. CASE NewSession(t)
    <3>1. status = "INIT" /\ status' = "INIT"
      BY <1>0, <2>0, <2>6 DEF NewSession, Progress, SessionChosen, SessionComplete
    <3>2. Streaming' <=> Streaming
      BY <2>1, <2>2, <2>6 DEF NewSession
    <3> QED BY <3>1, <3>2 DEF Session!vars, Streaming
  <2>7. ASSUME NEW v \in Video, NEW line \in Transports, SetupHeaders(t, v, line)
        PROVE  UNCHANGED Session!vars
    <3>1. /\ UNCHANGED <<status, session_id, rtp_timer>> /\ thread[t].pc = "headers"
          /\ thread' = [thread EXCEPT ![t].pc = IF line.protocol = PROTOCOL_TYPE THEN "scan" ELSE "close",
                                      ![t].video = v]
      BY <2>7 DEF SetupHeaders
    <3>2. /\ thread'[t].pc \in {"scan", "close"}
          /\ \A s \in Thread \ {t} : thread'[s] = thread[s]
      BY <1>0, <3>1 DEF ThreadState
    <3> QED BY <1>1, <2>1, <3>1, <3>2
  <2>8. CASE Scan(t)
    <3>1. /\ UNCHANGED <<status, session_id, rtp_timer>>
          /\ thread' = [thread EXCEPT ![t].pos = next_frame_start', ![t].count = @ + 1]
      BY <2>8 DEF Scan
    <3>2. thread'[t].pc = thread[t].pc /\ \A s \in Thread \ {t} : thread'[s] = thread[s]
      BY <1>0, <3>1 DEF ThreadState
    <3> QED BY <1>1, <2>1, <3>1, <3>2
  <2>9. CASE SetupCommit(t)
    <3>1. /\ thread[t].pc = "commit" /\ thread[t].request = "SETUP" /\ End(t)
          /\ status' = "READY" /\ UNCHANGED <<session_id, rtp_timer>>
      BY <2>9 DEF SetupCommit
    <3>2. status = "INIT" /\ session_id \in SessionId
      BY <2>0, <3>1 DEF Progress, StillValid, SessionChosen, Inv, TypeOK
    <3>3. Streaming' <=> Streaming
      BY <2>1, <2>3, <3>1
    <3>4. Session!Setup
      BY <3>1, <3>2, <3>3 DEF Session!Setup, Streaming
    <3> QED BY <3>4 DEF Session!Next
  <2>10. CASE PlayCommit(t)
    <3>1. /\ thread[t].pc = "commit" /\ thread[t].request = "PLAY" /\ status' = "PLAYING"
          /\ thread' = [thread EXCEPT ![t].pc = "start"] /\ session_id' = session_id
      BY <2>10 DEF PlayCommit
    <3>2. status # "INIT"
      BY <2>0, <3>1 DEF Progress, StillValid
    <3>3. Streaming'
      <4>1. thread'[t].pc = "start"
        BY <1>0, <3>1, StepMoves
      <4> QED BY <4>1 DEF Streaming
    <3>4. Session!Play
      BY <3>1, <3>2, <3>3 DEF Session!Play, Streaming
    <3> QED BY <3>4 DEF Session!Next
  <2>11. CASE PlayStart(t)
    <3>1. thread[t].pc = "start" /\ rtp_timer' /\ UNCHANGED <<status, session_id>>
      BY <2>11 DEF PlayStart, StartRTPProgress
    <3> QED BY <1>1, <3>1 DEF Streaming
  <2>12. CASE TeardownStop(t)
    <3>1. /\ UNCHANGED <<status, session_id>> /\ rtp_timer' \in {rtp_timer, FALSE}
          /\ \A s \in Thread : thread[s].pc = "start" <=> thread'[s].pc = "start"
      BY <2>2, <2>12 DEF TeardownStop, StopIfPlaying, StopRTPProgress
    <3>2. rtp_timer \in BOOLEAN
      BY DEF Inv, TypeOK, SenderTypeOK
    <3>3. (Streaming' <=> Streaming) \/ (Streaming /\ ~ Streaming')
      BY <3>1, <3>2 DEF Streaming
    <3> QED BY <1>1, <1>2, <3>1, <3>3 DEF Session!Next
  <2>13. CASE TeardownReset(t)
    <3>1. /\ thread[t].pc = "reset" /\ thread[t].request = "TEARDOWN" /\ End(t)
          /\ status' = "INIT" /\ rtp_timer' = rtp_timer
      BY <2>0, <2>13 DEF TeardownReset, InitServer, Fits
    <3>2. ~ rtp_timer
      BY <2>0, <3>1 DEF Progress, Stopped
    <3>3. \A s \in Thread : thread'[s].pc # "start"
      <4>1. \A s \in Thread \ {t} : thread[s].pc # "start"
        BY <3>1 DEF Sequential, OneThread, Running
      <4>2. thread[t].pc # "start"
        BY <3>1
      <4> QED BY <2>3, <3>1, <4>1, <4>2
    <3>4. ~ Streaming'
      BY <3>1, <3>2, <3>3 DEF Streaming
    <3>5. CASE status # "INIT"
      <4>1. Session!Teardown
        BY <3>1, <3>4, <3>5 DEF Session!Teardown, Streaming
      <4> QED BY <4>1 DEF Session!Next
    <3>6. CASE status = "INIT"
      <4>1. \A s \in Thread : thread[s].pc # "start"
        BY <3>1 DEF Sequential, OneThread, Running
      <4>2. ~ Streaming
        BY <3>2, <4>1 DEF Streaming
      <4> QED BY <3>1, <3>4, <3>6, <4>2 DEF Session!vars, Streaming
    <3> QED BY <3>5, <3>6
  <2>14. CASE Close(t)
    BY <1>1, <2>1, <2>3, <2>14 DEF Close
  <2> QED BY <1>3, <2>4, <2>5, <2>6, <2>7, <2>8, <2>9, <2>10, <2>11, <2>12, <2>13, <2>14
          DEF ThreadStep
<1>4. ASSUME NEW c \in Client, NEW r \in Requests, Accept(c, r)
      PROVE  UNCHANGED Session!vars
  <2>1. UNCHANGED <<status, session_id, rtp_timer>>
    BY <1>4 DEF Accept, sessionVars, senderVars
  <2>2. \A s \in Thread : thread[s].pc = "start" <=> thread'[s].pc = "start"
    BY <1>4, AcceptStarts DEF Inv
  <2> QED BY <1>1, <2>1, <2>2 DEF Streaming
<1>5. ASSUME NEW h \in Handlers, HandlerStep(h)
      PROVE  Session!Next \/ UNCHANGED Session!vars
  <2>1. UNCHANGED <<status, session_id, thread>> /\ rtp_timer' \in {rtp_timer, FALSE}
    BY <1>5, HandlerCases, HandlerQuiet DEF sessionVars
  <2>2. rtp_timer \in BOOLEAN
    BY DEF Inv, TypeOK, SenderTypeOK
  <2>3. (Streaming' <=> Streaming) \/ (Streaming /\ ~ Streaming')
    BY <2>1, <2>2 DEF Streaming
  <2> QED BY <1>1, <1>2, <2>1, <2>3 DEF Session!Next
<1>6. CASE UNCHANGED vars
  BY <1>1, <1>6 DEF vars, senderVars, sessionVars, Streaming
<1> QED BY <1>3, <1>4, <1>5, <1>6 DEF Next

(* The server implements the session if requests come apart: whatever      *)
(* requests the threads serve, and wherever the handler stops the timer.   *)
THEOREM ImplementsSession == Spec => ServerIsSession
<1>1. Init => Session!Init
  <2> SUFFICES ASSUME Init PROVE Session!Init
    OBVIOUS
  <2>1. \A t \in Thread : thread[t].pc # "start"
    BY DEF Init, NoThread
  <2> QED BY <2>1 DEF Init, SenderInit, Session!Init
<1>2. ASSUME Inv, Apart, [Next]_vars
      PROVE  [apart => Session!Next \/ UNCHANGED Session!vars]_vars
  BY <1>2, SessionStep DEF Apart
<1> QED BY <1>1, <1>2, ApartAlways, PTL DEF Spec, ServerIsSession
==============================================================================
