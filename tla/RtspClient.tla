------------------------------ MODULE RtspClient -----------------------------
(***************************************************************************)
(* One RTSP client and its RTP receiver, with the server as the client     *)
(* meets it.                                                               *)
(*                                                                         *)
(* The client is one thread.  A click runs a callback that connects, sends *)
(* its request, waits for the answer, closes the connection and starts or  *)
(* stops the receiver; a step ends where it makes a system call.  SIGIO    *)
(* interrupts it anywhere, to read the datagrams of the receiver's socket. *)
(* A pending signal is delivered before the thread's next step.            *)
(*                                                                         *)
(* A descriptor is the lowest number that is free.  Only one socket can be *)
(* bound to the client's RTP port.  Streams and sessions are numbered in   *)
(* the order the server opens them.                                        *)
(***************************************************************************)
EXTENDS Integers, Sequences, FiniteSetsExt

CONSTANTS
  Fd,             \* descriptor numbers
  MaxStreams,     \* bound on the streams opened in a behaviour
  QueueLen,       \* bound on the datagrams the socket buffers
  Networks        \* the sets of disturbances to be checked

(* "sendFails": send may fail.  "interrupts": a datagram may come while    *)
(* the client waits for an answer.  "lateEffect": the server may act on a  *)
(* request after answering it.  "lateDatagrams": datagrams of earlier      *)
(* streams may still arrive.                                               *)
Disturbance == {"sendFails", "interrupts", "lateEffect", "lateDatagrams"}

ASSUME ClientAssumption ==
  /\ Fd \subseteq Nat
  /\ MaxStreams \in Nat /\ QueueLen \in Nat
  /\ Networks \subseteq SUBSET Disturbance

VARIABLES
  network,      \* never changes: what disturbs this behaviour
  \* the client
  status, session_id, sensitive, rtp_client, ssrc,
  call,         \* the callback in progress: its step, method and socket
  \* its sockets
  tcp,          \* open TCP sockets
  udp,          \* the socket bound to the RTP port, -1 when there is none
  async,        \* does a datagram for it raise SIGIO?
  queue,        \* the streams of the datagrams it buffers
  sigio,        \* is SIGIO pending?
  \* the server
  inbox,        \* requests sent and not yet served
  answer,       \* what the callback finds on its connection
  effects,      \* methods answered and not yet in effect
  srv_status, srv_session,
  srv_playing,  \* is the RTP timer armed?
  streams,      \* number of streams opened; the last is the current one
  played        \* the streams of which datagrams were sent

stateVars == <<network, status, session_id, sensitive>>
receiverVars == <<rtp_client, ssrc>>
udpVars == <<udp, async, queue, sigio>>
sessionVars == <<srv_status, srv_session, srv_playing, streams, played>>
serverVars == <<inbox, answer, effects, sessionVars>>
vars == <<stateVars, receiverVars, call, tcp, udpVars, serverVars>>

Method == {"SETUP", "PLAY", "TEARDOWN"}
NoFd == -1
NoAnswer == 0      \* any answer above 0 is "200 OK" and names a session
Closed == -1       \* the connection ends without an answer
NoCall == [pc |-> "idle", method |-> "SETUP", fd |-> NoFd]

Call == [pc : {"idle", "send", "await", "bind", "async", "stop", "stuck"},
         method : Method, fd : Fd \cup {NoFd}]

(* live: is the client's connection open?                                  *)
Message == [method : Method, session : 0 .. MaxStreams + 1, live : BOOLEAN]

(* Each value is of its kind: in particular no descriptor is two sockets.  *)
TypeOK ==
  /\ network \in Networks
  /\ status \in {"INIT", "READY", "PLAYING"}
  /\ session_id \in 0 .. MaxStreams + 1
  /\ sensitive \subseteq Method
  /\ rtp_client \in Fd \cup {NoFd}
  /\ ssrc \in 0 .. MaxStreams
  /\ call \in Call
  /\ tcp \subseteq Fd
  /\ udp \in (Fd \ tcp) \cup {NoFd}
  /\ async \in BOOLEAN
  /\ queue \in Seq(1 .. MaxStreams) /\ Len(queue) <= QueueLen
  /\ sigio \in BOOLEAN
  /\ inbox \subseteq Message
  /\ answer \in Closed .. MaxStreams + 1
  /\ effects \subseteq Method
  /\ srv_status \in {"INIT", "READY", "PLAYING"}
  /\ srv_session \in 0 .. MaxStreams + 1
  /\ srv_playing \in BOOLEAN
  /\ streams \in 0 .. MaxStreams
  /\ played \subseteq 1 .. MaxStreams

(* initClient, initClientLayout and the static variables                   *)
Init ==
  /\ network \in Networks
  /\ status = "INIT" /\ session_id = 0 /\ sensitive = {"SETUP"}
  /\ rtp_client = NoFd /\ ssrc = 0
  /\ call = NoCall
  /\ tcp = {} /\ udp = NoFd /\ async = FALSE /\ queue = <<>> /\ sigio = FALSE
  /\ inbox = {} /\ answer = NoAnswer /\ effects = {}
  /\ srv_status = "INIT" /\ srv_session = 0 /\ srv_playing = FALSE
  /\ streams = 0 /\ played = {}

------------------------------------------------------------------------------
(* The callbacks.                                                          *)

FreeFds == Fd \ (tcp \cup {udp})

At(pc) == call.pc = pc /\ ~ sigio

(* setupClientTCPSocket.  A connection that fails ends the callback with   *)
(* nothing changed.                                                        *)
Click(m) ==
  /\ At("idle")
  /\ m \in sensitive
  /\ m = "SETUP" => streams < MaxStreams
  /\ FreeFds # {}
  /\ call' = [pc |-> "send", method |-> m, fd |-> Min(FreeFds)]
  /\ tcp' = tcp \cup {Min(FreeFds)}
  /\ UNCHANGED <<stateVars, receiverVars, udpVars, serverVars>>

Send ==
  /\ At("send")
  /\ call' = [call EXCEPT !.pc = "await"]
  /\ inbox' = inbox \cup {[method |-> call.method, session |-> session_id, live |-> TRUE]}
  /\ answer' = NoAnswer
  /\ UNCHANGED <<stateVars, receiverVars, tcp, udpVars, effects, sessionVars>>

(* The callback returns after the error dialog, with its socket open.      *)
SendError ==
  /\ "sendFails" \in network
  /\ At("send")
  /\ call' = NoCall
  /\ UNCHANGED <<stateVars, receiverVars, tcp, udpVars, serverVars>>

(* PLAY goes on to startRTPProgress and TEARDOWN to stopRTPProgress,       *)
(* whatever the answer was.                                                *)
AfterAnswer ==
  CASE call.method = "SETUP" -> NoCall
    [] call.method = "PLAY" -> [call EXCEPT !.pc = "bind", !.fd = NoFd]
    [] call.method = "TEARDOWN" -> [call EXCEPT !.pc = "stop", !.fd = NoFd]

(* Seeded fault: the socket is not closed.                                 *)
CloseConnection_leak ==
  /\ tcp' = tcp
  /\ call' = AfterAnswer

CloseConnection ==
  /\ tcp' = tcp \ {call.fd}
  /\ call' = AfterAnswer

StatusAfter(m) ==
  CASE m = "SETUP" -> "READY" [] m = "PLAY" -> "PLAYING" [] m = "TEARDOWN" -> "INIT"

SensitiveAfter(m) ==
  CASE m = "SETUP" -> {"PLAY", "TEARDOWN"}
    [] m = "PLAY" -> {"TEARDOWN"}
    [] m = "TEARDOWN" -> {"SETUP"}

(* Seeded fault: the session id is not stored.                             *)
ReceiveAnswer_noSession ==
  /\ At("await")
  /\ answer > 0
  /\ session_id' = session_id
  /\ status' = StatusAfter(call.method)
  /\ sensitive' = SensitiveAfter(call.method)
  /\ CloseConnection
  /\ UNCHANGED <<network, receiverVars, udpVars, serverVars>>

(* handleServerResponse reads "200 OK", up to the end of the connection.   *)
ReceiveAnswer ==
  /\ At("await")
  /\ answer > 0
  /\ session_id' = answer
  /\ status' = StatusAfter(call.method)
  /\ sensitive' = SensitiveAfter(call.method)
  /\ CloseConnection
  /\ UNCHANGED <<network, receiverVars, udpVars, serverVars>>

(* fgets finds the end of the connection.                                  *)
Refused ==
  /\ At("await")
  /\ answer = Closed
  /\ CloseConnection
  /\ UNCHANGED <<stateVars, receiverVars, udpVars, serverVars>>

------------------------------------------------------------------------------
(* The receiver.                                                           *)

(* setupClientUDPSocket.  If the port is taken the number it returns is    *)
(* that of a socket it has closed, which passes the test of the caller.    *)
Bind ==
  /\ At("bind")
  /\ rtp_client' = IF FreeFds = {} THEN NoFd ELSE Min(FreeFds)
  /\ IF FreeFds # {} /\ udp = NoFd
       THEN /\ udp' = Min(FreeFds)
            /\ call' = [call EXCEPT !.pc = "async"]
       ELSE /\ udp' = udp
            /\ call' = NoCall
  /\ UNCHANGED <<stateVars, ssrc, tcp, async, queue, sigio, serverVars>>

(* Seeded fault: the socket raises no SIGIO.                               *)
SetAsync_not ==
  /\ At("async")
  /\ async' = FALSE
  /\ call' = NoCall
  /\ UNCHANGED <<stateVars, receiverVars, tcp, udp, queue, sigio, serverVars>>

(* F_SETOWN and FASYNC.  Datagrams that came before raise no signal.       *)
SetAsync ==
  /\ At("async")
  /\ async' = TRUE
  /\ call' = NoCall
  /\ UNCHANGED <<stateVars, receiverVars, tcp, udp, queue, sigio, serverVars>>

(* Seeded fault: the socket is not closed.                                 *)
CloseReceiver_not == UNCHANGED <<udp, async, queue, tcp>>

(* close(rtp_client), whatever socket has that number.                     *)
CloseReceiver ==
  /\ tcp' = tcp \ {rtp_client}
  /\ IF rtp_client = udp
       THEN udp' = NoFd /\ async' = FALSE /\ queue' = <<>>
       ELSE UNCHANGED <<udp, async, queue>>

(* Seeded fault: ssrc is kept for the next session.                        *)
StopRTPProgress_keepSsrc ==
  /\ At("stop")
  /\ CloseReceiver
  /\ rtp_client' = NoFd
  /\ ssrc' = ssrc
  /\ call' = NoCall
  /\ UNCHANGED <<stateVars, sigio, serverVars>>

(* Seeded fault: the number of the closed socket is kept.                  *)
StopRTPProgress_keepFd ==
  /\ At("stop")
  /\ CloseReceiver
  /\ rtp_client' = rtp_client
  /\ ssrc' = IF status = "INIT" THEN 0 ELSE ssrc
  /\ call' = NoCall
  /\ UNCHANGED <<stateVars, sigio, serverVars>>

(* Seeded fault: ssrc is set to -1.                                        *)
StopRTPProgress_negative ==
  /\ At("stop")
  /\ CloseReceiver
  /\ rtp_client' = NoFd
  /\ ssrc' = IF status = "INIT" THEN -1 ELSE ssrc
  /\ call' = NoCall
  /\ UNCHANGED <<stateVars, sigio, serverVars>>

StopRTPProgress ==
  /\ At("stop")
  /\ CloseReceiver
  /\ rtp_client' = NoFd
  /\ ssrc' = IF status = "INIT" THEN 0 ELSE ssrc
  /\ call' = NoCall
  /\ UNCHANGED <<stateVars, sigio, serverVars>>

(* Seeded fault: one datagram is read for each signal.                     *)
ReadDatagrams_one ==
  /\ ssrc' = IF ssrc = 0 /\ queue # <<>> THEN Head(queue) ELSE ssrc
  /\ queue' = IF queue = <<>> THEN <<>> ELSE Tail(queue)

(* checkRTPHeader, for each datagram of the queue.                         *)
ReadDatagrams ==
  /\ ssrc' = IF ssrc = 0 /\ queue # <<>> THEN Head(queue) ELSE ssrc
  /\ queue' = <<>>

(* What the signal interrupts: fgets, which then returns NULL.  The        *)
(* request is served, and its answer finds the connection closed.          *)
Resume ==
  IF call.pc = "await" /\ answer = NoAnswer
    THEN /\ CloseConnection
         /\ inbox' = {[r EXCEPT !.live = FALSE] : r \in inbox}
    ELSE UNCHANGED <<call, tcp, inbox>>

(* recvfrom reads the socket whose number rtp_client is.  On the           *)
(* connection of the callback that is interrupted it waits for the answer, *)
(* then finds the end of the connection again and again.                   *)
SIGIOHandler ==
  /\ sigio
  /\ call.pc # "stuck"
  /\ sigio' = FALSE
  /\ IF rtp_client \in tcp
       THEN /\ call' = [call EXCEPT !.pc = "stuck"]
            /\ UNCHANGED <<ssrc, queue, tcp, inbox>>
       ELSE /\ Resume
            /\ IF rtp_client = udp THEN ReadDatagrams ELSE UNCHANGED <<ssrc, queue>>
  /\ UNCHANGED <<stateVars, rtp_client, udp, async, answer, effects, sessionVars>>

------------------------------------------------------------------------------
(* The server, as far as the client can tell.                              *)

ValidInState(m) ==
  CASE m = "SETUP" -> srv_status = "INIT"
    [] m = "PLAY" -> srv_status # "INIT"
    [] m = "TEARDOWN" -> TRUE

(* getRTSPInfo creates a session id if there is none.                      *)
SessionFor(m) ==
  IF ValidInState(m) /\ srv_session = 0 THEN streams + 1 ELSE srv_session

Accepts(r) ==
  /\ ValidInState(r.method)
  /\ r.method # "SETUP" => r.session = srv_session /\ srv_session # 0

(* Seeded fault: closeVideoStream leaves the timer armed.                  *)
TakeEffect_armed(m) ==
  /\ srv_status' = StatusAfter(m)
  /\ srv_playing' = (m = "PLAY" \/ srv_playing)
  /\ played' = IF m = "PLAY" THEN played \cup {streams} ELSE played

(* What sendOK changes once the client's connection is closed.             *)
TakeEffect(m) ==
  /\ srv_status' = StatusAfter(m)
  /\ srv_playing' = CASE m = "SETUP" -> srv_playing
                      [] m = "PLAY" -> TRUE
                      [] m = "TEARDOWN" -> srv_playing /\ srv_status # "PLAYING"
  /\ played' = IF m = "PLAY" THEN played \cup {streams} ELSE played

(* Seeded fault: the connection stays open.                                *)
Serve_open(r) ==
  /\ r.method \notin effects
  /\ inbox' = inbox \ {r}
  /\ UNCHANGED <<answer, effects, sessionVars>>
  /\ UNCHANGED <<stateVars, receiverVars, call, tcp, udpVars>>

(* respondClientRequest.  A request that is not accepted gets no answer.   *)
Serve(r) ==
  /\ r.method = "SETUP" => streams < MaxStreams
  /\ r.method \notin effects
  /\ inbox' = inbox \ {r}
  /\ answer' = IF ~ r.live THEN answer ELSE IF Accepts(r) THEN SessionFor(r.method) ELSE Closed
  /\ streams' = IF Accepts(r) /\ r.method = "SETUP" THEN streams + 1 ELSE streams
  /\ \/ /\ Accepts(r)
        /\ TakeEffect(r.method)
        /\ srv_session' = IF r.method = "TEARDOWN" THEN 0 ELSE SessionFor(r.method)
        /\ effects' = effects
     \/ /\ Accepts(r) => "lateEffect" \in network
        /\ effects' = IF Accepts(r) THEN effects \cup {r.method} ELSE effects
        /\ srv_session' = SessionFor(r.method)
        /\ UNCHANGED <<srv_status, srv_playing, played>>
  /\ UNCHANGED <<stateVars, receiverVars, call, tcp, udpVars>>

Commit(m) ==
  /\ m \in effects
  /\ effects' = effects \ {m}
  /\ TakeEffect(m)
  /\ srv_session' = IF m = "TEARDOWN" THEN 0 ELSE srv_session
  /\ UNCHANGED <<stateVars, receiverVars, call, tcp, udpVars, inbox, answer, streams>>

EndOfStream ==
  /\ srv_playing
  /\ srv_playing' = FALSE
  /\ UNCHANGED <<stateVars, receiverVars, call, tcp, udpVars, inbox, answer, effects,
                 srv_status, srv_session, streams, played>>

(* A datagram of stream s reaches the client's port.                       *)
Datagram(s) ==
  /\ (s = streams /\ srv_playing) \/ (s \in played /\ "lateDatagrams" \in network)
  /\ call.pc = "await" => "interrupts" \in network
  /\ udp # NoFd /\ Len(queue) < QueueLen
  /\ queue' = Append(queue, s)
  /\ sigio' = (sigio \/ async)
  /\ UNCHANGED <<stateVars, receiverVars, call, tcp, udp, async, serverVars>>

CallStep ==
  \/ Send
  \/ SendError
  \/ ReceiveAnswer
  \/ Refused
  \/ Bind
  \/ SetAsync
  \/ StopRTPProgress

ServerStep ==
  \/ \E r \in inbox : Serve(r)
  \/ \E m \in Method : Commit(m)

Next ==
  \/ \E m \in Method : Click(m)
  \/ CallStep
  \/ SIGIOHandler
  \/ ServerStep
  \/ EndOfStream
  \/ \E s \in 1 .. MaxStreams : Datagram(s)

Spec == Init /\ [][Next]_vars

(* The callback goes on, a signal is handled and the server answers.  The  *)
(* signals of a stream delay a callback but do not starve it: they come    *)
(* once a frame.  No button has to be clicked and no stream has to send.   *)
FairSpec == Spec /\ SF_vars(CallStep) /\ WF_vars(SIGIOHandler) /\ WF_vars(ServerStep)

------------------------------------------------------------------------------
Idle == call.pc = "idle" /\ ~ sigio

Without(D) == network \cap D = {}

(* Between callbacks the client and the server agree on the session.  A    *)
(* callback changes the client only after the server's answer, and the     *)
(* server only on a request.                                               *)
Agreement ==
  Idle /\ inbox = {} =>
    /\ status = srv_status
    /\ status # "INIT" => session_id = srv_session

(* They do if waits are not interrupted and the server acts before it      *)
(* answers, whatever sends fail and datagrams come late.                   *)
AgreementIfPrompt == Without({"interrupts", "lateEffect"}) => Agreement

(* While the client plays, the RTP port is bound, its datagrams raise      *)
(* SIGIO and the handler reads the socket that receives them.              *)
ReceiverReady ==
  Without({"interrupts", "lateEffect"}) =>
    (Idle /\ status = "PLAYING" => rtp_client = udp /\ udp # NoFd /\ async)

(* When the client does not play the RTP port is free for the next PLAY,   *)
(* interrupted waits or not.                                               *)
PortReleased ==
  Without({"lateEffect"}) => (Idle /\ status # "PLAYING" => udp = NoFd)

(* rtp_client never outlives its socket: it is -1 or the RTP socket, not   *)
(* a number that the next connection may be given.                         *)
OwnDescriptor == Without({"lateEffect"}) => rtp_client \in {NoFd, udp}

(* The receiver shows the stream of the current session: ssrc, which the   *)
(* first datagram sets and checkRTPHeader then compares, is its number.    *)
TunedIn == Without({"lateDatagrams"}) => (Idle /\ ssrc # 0 => ssrc = streams)

(* A callback leaves no connection open, unless its send failed.           *)
NoLeak == Without({"sendFails"}) => (Idle => tcp = {})

(* A client without a session has forgotten the last one's stream and      *)
(* socket, so that its next session starts as its first did.               *)
FreshReceiver == Idle /\ status = "INIT" => ssrc = 0 /\ rtp_client = NoFd

(* Every callback returns to the main loop.                                *)
CallbackEnds == call.pc # "idle" ~> call.pc = "idle"

(* It does if the server acts before it answers.                           *)
CallbackEndsIfPrompt ==
  call.pc # "idle" /\ Without({"lateEffect"}) ~> call.pc = "idle"

(* Signals coalesce and the datagrams before FASYNC raise none, but each   *)
(* signal is the end of all that wait: none is left behind.                *)
Drained == sigio /\ Without({"lateEffect"}) ~> queue = <<>>

(* The server as the client meets it is the session RtspServer implements: *)
(* the two models agree on what a server may do.                           *)
Session == INSTANCE RtspSession WITH
  SessionId <- 1 .. MaxStreams + 1,
  NoSession <- 0,
  status <- srv_status,
  session <- IF srv_status = "INIT" THEN 0 ELSE srv_session,
  streaming <- srv_playing

ServerIsSession ==
  [][Without({"lateEffect"}) => Session!Next \/ UNCHANGED Session!vars]_vars
==============================================================================
