------------------------------ MODULE RtspServer -----------------------------
(***************************************************************************)
(* The RTSP server.  The main thread accepts connections and starts one    *)
(* thread for each; a thread reads one request, checks it against the      *)
(* server's global variables, answers it, changes the variables and ends.  *)
(* There is one session, one stream and no lock.  The handler of the RTP   *)
(* timer (RtpSender) runs beside the threads.                              *)
(*                                                                         *)
(* A thread's step ends where the code makes a system call or blocks, so   *)
(* the steps of threads and handlers interleave as they may in the code.   *)
(* In particular constructResponseMessage closes the client's connection   *)
(* before the status is set: the client, which reads up to the end of the  *)
(* connection, may send its next request while this one takes effect.      *)
(***************************************************************************)
EXTENDS RtpSender, FiniteSets

CONSTANTS
  Client,      \* hosts with a client program, one request at a time each
  Thread,      \* request threads that can exist at the same time
  SessionId,   \* the numbers getRandomNumber may return
  Requests,    \* kinds of request the clients make
  Transports,  \* what a Transport line may name: protocol and client port
  Environments,  \* the values of environment to be checked
  MaxRequests  \* bound on the connections accepted in a behaviour, for each

ASSUME ServerAssumption ==
  /\ 0 \notin SessionId
  /\ NULL \notin Client
  /\ Requests \subseteq {"SETUP", "PLAY", "TEARDOWN", "OPTIONS", "malformed", "none"}
  /\ Transports \subseteq [protocol : STRING \ {""}, port : Nat]
  /\ Environments \subseteq SUBSET {"apart", "inet", "plain"}
  /\ MaxRequests \in [Environments -> Nat]

VARIABLES
  environment,      \* never changes: what may be relied on outside the server
  status,           \* INIT, READY or PLAYING
  session_id,       \* 0 when there is none
  protocol_type,    \* what the last Transport line named, "" before
  client_rtp_port,  \* 0 when there is none
  rtp_address,      \* host the packets are sent to, NULL when cleared
  target,           \* the address each handler has for its packet
  thread,           \* the request threads
  known,            \* known[c]: the session id client c was last told
  waiting,          \* waiting[c]: c has a connection open
  accepted          \* number of connections accepted

sessionVars == <<status, session_id, protocol_type, client_rtp_port>>
addressVars == <<rtp_address, target>>
clientVars == <<environment, known, waiting, accepted>>
vars == <<senderVars, sessionVars, addressVars, thread, clientVars>>

PROTOCOL_TYPE == "rtp/udp"

(* A connection is made only when the threads of those before have ended.  *)
apart == "apart" \in environment

(* The listening socket is of AF_INET, and so is every client's.           *)
inet == "inet" \in environment

(* Requests have the lines the client program gives them: a Transport line *)
(* in SETUP alone, Session in the others, no If-Modified-Since.            *)
plain == "plain" \in environment

NoThread == [pc |-> "free", client |-> NULL, request |-> "none", session |-> 0,
             video |-> NULL, pos |-> 0, count |-> 0]

PCs == {"free", "request", "session", "newid", "headers", "scan",
        "respond", "commit", "start", "stop", "reset", "close"}

(* Each value is of its kind.                                              *)
TypeOK ==
  /\ SenderTypeOK
  /\ environment \in Environments
  /\ status \in {"INIT", "READY", "PLAYING"}
  /\ session_id \in SessionId \cup {0}
  /\ protocol_type \in {line.protocol : line \in Transports} \cup {""}
  /\ client_rtp_port \in {line.port : line \in Transports} \cup {0}
  /\ rtp_address \in Client \cup {NULL}
  /\ target \in [Handlers -> Client \cup {NULL}]
  /\ thread \in [Thread ->
       [pc : PCs, client : Client \cup {NULL}, request : Requests \cup {"none"},
        session : SessionId \cup {0}, video : Video \cup {NULL}, pos : Nat, count : Nat]]
  /\ \A t \in Thread : thread[t].pc # "free" => thread[t].client \in Client
  /\ known \in [Client -> SessionId \cup {0}]
  /\ waiting \in [Client -> BOOLEAN]
  /\ accepted \in 0 .. MaxRequests[environment]

(* initServer                                                              *)
InitServer ==
  /\ status' = "INIT"
  /\ session_id' = 0
  /\ protocol_type' = ""
  /\ client_rtp_port' = 0
  /\ rtp_address' = NULL

Init ==
  /\ SenderInit
  /\ environment \in Environments
  /\ status = "INIT"
  /\ session_id = 0
  /\ protocol_type = ""
  /\ client_rtp_port = 0
  /\ rtp_address = NULL
  /\ target = [h \in Handlers |-> NULL]
  /\ thread = [t \in Thread |-> NoThread]
  /\ known = [c \in Client |-> 0]
  /\ waiting = [c \in Client |-> FALSE]
  /\ accepted = 0

Step(t, from, to) ==
  /\ MayRun
  /\ thread[t].pc = from
  /\ thread' = [thread EXCEPT ![t].pc = to]

------------------------------------------------------------------------------
(* The main thread.  acceptTCPConnection overwrites rtp_address with the   *)
(* host of every connection of AF_INET, whatever its request will be; the  *)
(* host of another family is not stored.                                   *)
Accept(c, r) ==
  /\ MayRun
  /\ accepted < MaxRequests[environment]
  /\ apart => \A t \in Thread : thread[t].pc = "free"
  /\ ~ waiting[c]
  /\ \E t \in Thread :
       /\ thread[t].pc = "free"
       /\ thread' = [thread EXCEPT ![t] =
            [NoThread EXCEPT !.pc = "request", !.client = c, !.request = r, !.session = known[c]]]
  /\ rtp_address' = c \/ (~ inet /\ rtp_address' = rtp_address)
  /\ waiting' = [waiting EXCEPT ![c] = TRUE]
  /\ accepted' = accepted + 1
  /\ UNCHANGED <<senderVars, sessionVars, target, environment, known>>

------------------------------------------------------------------------------
(* The request threads.                                                    *)

MethodIsNotValidInState(r) ==
  IF status = "INIT" THEN r = "PLAY" ELSE r = "SETUP"

(* The connection ends without a request: fgets returns NULL, which        *)
(* syntaxChecking passes to regexec.                                       *)
FaultNoRequest(t) ==
  /\ MayRun
  /\ thread[t].pc = "request"
  /\ thread[t].request = "none"
  /\ up' = FALSE
  /\ UNCHANGED <<rtp_timer, streamVars, handlerVars, wire,
                 sessionVars, addressVars, thread, clientVars>>

(* respondClientRequest up to the test of the status.                      *)
RejectRequest(t) ==
  /\ thread[t].request # "none"
  /\ \/ thread[t].request = "malformed"
     \/ MethodIsNotValidInState(thread[t].request)
  /\ Step(t, "request", "close")
  /\ UNCHANGED <<senderVars, sessionVars, addressVars, clientVars>>

AdmitRequest(t) ==
  /\ thread[t].request \notin {"none", "malformed"}
  /\ ~ MethodIsNotValidInState(thread[t].request)
  /\ Step(t, "request", "session")
  /\ UNCHANGED <<senderVars, sessionVars, addressVars, clientVars>>

(* Seeded fault: every request creates a session id.                       *)
TestSession_always(t) ==
  /\ Step(t, "session", "newid")
  /\ UNCHANGED <<senderVars, sessionVars, addressVars, clientVars>>

(* getRTSPInfo: create a session id if there is none.                      *)
TestSession(t) ==
  /\ Step(t, "session", IF session_id = 0 THEN "newid" ELSE "headers")
  /\ UNCHANGED <<senderVars, sessionVars, addressVars, clientVars>>

NewSession(t) ==
  /\ Step(t, "newid", "headers")
  /\ session_id' \in SessionId
  /\ UNCHANGED <<senderVars, status, protocol_type, client_rtp_port, addressVars, clientVars>>

(* Seeded fault: the client's port is not stored.                          *)
SetTransport_noPort(line) ==
  /\ protocol_type' = line.protocol
  /\ UNCHANGED client_rtp_port

(* A Transport line sets the transport, whatever it is.                    *)
SetTransport(line) ==
  /\ protocol_type' = line.protocol
  /\ client_rtp_port' = line.port

(* After the header lines of SETUP getVideoInfo opens the file, if the     *)
(* protocol is the one supported.                                          *)
SetupHeaders(t, v, line) ==
  /\ MayRun
  /\ thread[t].pc = "headers"
  /\ thread[t].request = "SETUP"
  /\ SetTransport(line)
  /\ thread' = [thread EXCEPT ![t].pc = IF line.protocol = PROTOCOL_TYPE THEN "scan" ELSE "close",
                              ![t].video = v]
  /\ UNCHANGED <<senderVars, status, session_id, addressVars, clientVars>>

(* Any other request may carry a Transport line too, read before or after  *)
(* the Session line.                                                       *)
OtherTransport ==
  \/ UNCHANGED <<protocol_type, client_rtp_port>>
  \/ ~ plain /\ \E line \in Transports : SetTransport(line)

SessionMatches(t) ==
  /\ session_id = thread[t].session
  /\ protocol_type' = PROTOCOL_TYPE

(* The other requests carry a session id to compare.  A method that is none*)
(* of the three gets no answer.                                            *)
OtherHeaders(t) ==
  /\ thread[t].request # "SETUP"
  /\ OtherTransport
  /\ Step(t, "headers",
          IF SessionMatches(t) /\ thread[t].request \in {"PLAY", "TEARDOWN"}
            THEN "respond" ELSE "close")
  /\ UNCHANGED <<senderVars, status, session_id, addressVars, clientVars>>

(* A Session line in a SETUP, or an If-Modified-Since line in any request, *)
(* can refuse it after its Transport line has been read.                   *)
RefuseHeaders(t) ==
  /\ ~ plain
  /\ OtherTransport
  /\ Step(t, "headers", "close")
  /\ UNCHANGED <<senderVars, status, session_id, addressVars, clientVars>>

Scan(t) ==
  /\ MayRun
  /\ thread[t].pc = "scan"
  /\ ScanFrame(thread[t].video, thread[t].pos)
  /\ thread' = [thread EXCEPT ![t].pos = next_frame_start', ![t].count = @ + 1]
  /\ UNCHANGED <<rtp_timer, handlerVars, wire, up, sessionVars, addressVars, clientVars>>

ScanEnd(t) ==
  /\ Step(t, "scan", "respond")
  /\ ScanDone(thread[t].video, thread[t].pos, thread[t].count)
  /\ UNCHANGED <<rtp_timer, handlerVars, wire, up, sessionVars, addressVars, clientVars>>

(* Seeded fault: the answer does not name the session.                     *)
Respond_noSession(t) ==
  /\ Step(t, "respond", IF thread[t].request = "TEARDOWN" THEN "stop" ELSE "commit")
  /\ waiting' = [waiting EXCEPT ![thread[t].client] = FALSE]
  /\ UNCHANGED <<senderVars, sessionVars, addressVars, environment, known, accepted>>

(* constructResponseMessage: the answer carries the session id, if there   *)
(* is one, and fclose ends the connection.                                 *)
Respond(t) ==
  /\ Step(t, "respond", IF thread[t].request = "TEARDOWN" THEN "stop" ELSE "commit")
  /\ known' = [known EXCEPT ![thread[t].client] = IF session_id # 0 THEN session_id ELSE @]
  /\ waiting' = [waiting EXCEPT ![thread[t].client] = FALSE]
  /\ UNCHANGED <<senderVars, sessionVars, addressVars, environment, accepted>>

End(t) == thread' = [thread EXCEPT ![t] = NoThread]

SetupCommit(t) ==
  /\ MayRun
  /\ thread[t].pc = "commit"
  /\ thread[t].request = "SETUP"
  /\ status' = "READY"
  /\ End(t)
  /\ UNCHANGED <<senderVars, session_id, protocol_type, client_rtp_port, addressVars, clientVars>>

PlayCommit(t) ==
  /\ thread[t].request = "PLAY"
  /\ Step(t, "commit", "start")
  /\ status' = "PLAYING"
  /\ UNCHANGED <<senderVars, session_id, protocol_type, client_rtp_port, addressVars, clientVars>>

PlayStart(t) ==
  /\ MayRun
  /\ thread[t].pc = "start"
  /\ StartRTPProgress
  /\ End(t)
  /\ UNCHANGED <<streamVars, handlerVars, wire, up, sessionVars, addressVars, clientVars>>

TeardownStop(t) ==
  /\ Step(t, "stop", "reset")
  /\ StopIfPlaying(status)
  /\ UNCHANGED <<streamVars, handlerVars, wire, up, sessionVars, addressVars, clientVars>>

(* The rest of closeVideoStream, initServer, and sendOK's own status.      *)
TeardownReset(t) ==
  /\ MayRun
  /\ thread[t].pc = "reset"
  /\ ResetStream
  /\ InitServer
  /\ End(t)
  /\ UNCHANGED <<rtp_timer, handlerVars, wire, up, target, clientVars>>

(* Seeded fault: the connection is left open.                              *)
Close_leak(t) ==
  /\ MayRun
  /\ thread[t].pc = "close"
  /\ End(t)
  /\ UNCHANGED <<senderVars, sessionVars, addressVars, clientVars>>

(* A request without an answer: handleClientRequest closes the connection. *)
Close(t) ==
  /\ MayRun
  /\ thread[t].pc = "close"
  /\ waiting' = [waiting EXCEPT ![thread[t].client] = FALSE]
  /\ End(t)
  /\ UNCHANGED <<senderVars, sessionVars, addressVars, environment, known, accepted>>

ThreadStep(t) ==
  \/ FaultNoRequest(t)
  \/ RejectRequest(t)
  \/ AdmitRequest(t)
  \/ TestSession(t)
  \/ NewSession(t)
  \/ \E v \in Video, line \in Transports : SetupHeaders(t, v, line)
  \/ OtherHeaders(t)
  \/ RefuseHeaders(t)
  \/ Scan(t)
  \/ ScanEnd(t)
  \/ Respond(t)
  \/ SetupCommit(t)
  \/ PlayCommit(t)
  \/ PlayStart(t)
  \/ TeardownStop(t)
  \/ TeardownReset(t)
  \/ Close(t)

------------------------------------------------------------------------------
(* The handlers.                                                           *)

(* video_file_name points to the url in the stack frame of the SETUP       *)
(* thread.  Once that thread has returned, what fopen finds there is what  *)
(* the stack's next user left: it may be another request's url.            *)
NameIsAlive ==
  \E t \in Thread : thread[t].request = "SETUP" /\ thread[t].pc \in {"respond", "commit"}

NamesHeld ==
  IF video_file_name = NULL \/ NameIsAlive THEN {video_file_name} ELSE Video \cup {NULL}

(* setupServerUDPSocket resolves rtp_address.  getaddrinfo fails on an     *)
(* empty one and leaves the address list uninitialised: it may be that of  *)
(* an earlier packet, or anything that has no host ...                     *)
Resolve(h) ==
  /\ SetupServerUDPSocket(h)
  /\ \E c \in IF rtp_address = NULL THEN Client \cup {NULL} ELSE {rtp_address} :
       target' = [target EXCEPT ![h] = c]
  /\ UNCHANGED rtp_address

(* ... or the loop over it faults.                                         *)
FaultNoAddress(h) ==
  /\ up
  /\ hpc[h] = "socket"
  /\ rtp_address = NULL
  /\ up' = FALSE
  /\ UNCHANGED <<rtp_timer, streamVars, handlerVars, wire, addressVars>>

(* printSocketAddress writes the resolved host back to rtp_address, over   *)
(* what a connection or a TEARDOWN has put there since.                    *)
Send(h) ==
  /\ SendPacket(h)
  /\ rtp_address' = IF target[h] = NULL THEN rtp_address ELSE target[h]
  /\ target' = [target EXCEPT ![h] = NULL]

HandlerStep(h) ==
  /\ \/ Resolve(h)
     \/ FaultNoAddress(h)
     \/ Send(h)
     \/ /\ hpc[h] \notin {"socket", "send"}
        /\ CatchAlarm(h, NamesHeld)
        /\ UNCHANGED addressVars
  /\ UNCHANGED <<sessionVars, thread, clientVars>>

Next ==
  \/ \E c \in Client, r \in Requests : Accept(c, r)
  \/ \E t \in Thread : ThreadStep(t)
  \/ \E h \in Handlers : HandlerStep(h)

Spec == Init /\ [][Next]_vars

(* Threads are scheduled and expired timers delivered; clients may stop    *)
(* making requests.                                                        *)
Fairness ==
  /\ \A t \in Thread : WF_vars(ThreadStep(t))
  /\ \A h \in Handlers : WF_vars(HandlerStep(h))

FairSpec == Spec /\ Fairness

------------------------------------------------------------------------------
(* While the server is out of INIT everything PLAY and the handler need is *)
(* there: a session id, the open file, a client port some Transport line   *)
(* named, the supported protocol unless a later request named another, and *)
(* a host unless its family is unknown.                                    *)
ReadyToPlay ==
  apart /\ status # "INIT" =>
    /\ session_id # 0
    /\ video_file_name \in Video
    /\ [protocol |-> protocol_type, port |-> client_rtp_port] \in Transports
    /\ plain => protocol_type = PROTOCOL_TYPE
    /\ inet => rtp_address # NULL

(* The timer is armed only in PLAYING: in the other states closeVideoStream*)
(* would leave it armed.                                                   *)
OnlyPlayingStreams == apart /\ rtp_timer => status = "PLAYING"

(* Some client can end the session that is open: it was told the id that   *)
(* getRTSPInfo compares.  Otherwise every SETUP would be refused for ever. *)
SessionCanBeEnded ==
  apart /\ status # "INIT" => \E c \in Client : known[c] = session_id

(* A SETUP takes effect only in INIT, where methodIsNotValidInState        *)
(* admitted it.                                                            *)
SetupOnlyInInit ==
  [][\A t \in Thread : SetupCommit(t) => status = "INIT"]_vars

(* Every connection is answered or closed: no thread is stuck.             *)
Answered == \A c \in Client : waiting[c] ~> (~ waiting[c] \/ ~ up)

(* A stream that plays comes to its end: the handler disarms the timer.    *)
StreamEnds == rtp_timer ~> (~ rtp_timer \/ ~ up)

(* The session the clients see.  Out of INIT the session id is the one     *)
(* they were told; in INIT it may already be chosen.  A stream begins with *)
(* the status PLAYING, just before its timer is armed.                     *)
Session == INSTANCE RtspSession WITH
  NoSession <- 0,
  session <- IF status = "INIT" THEN 0 ELSE session_id,
  streaming <- rtp_timer \/ \E t \in Thread : thread[t].pc = "start"

(* The server implements the session if requests come apart: it begins in  *)
(* the session's initial state and each step is a step of the session or   *)
(* changes nothing of it.                                                  *)
ServerIsSession ==
  Session!Init /\ [][apart => Session!Next \/ UNCHANGED Session!vars]_vars
==============================================================================
