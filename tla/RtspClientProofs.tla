--------------------------- MODULE RtspClientProofs --------------------------
(***************************************************************************)
(* Theorems about RtspClient, for all descriptors, queue lengths, numbers  *)
(* of streams and networks.                                                *)
(***************************************************************************)
EXTENDS RtspClient, WellFoundedInduction, TLAPS

(* The least of a set of numbers is one of them.                           *)
Below == {p \in Nat \X Nat : p[1] < p[2]}

LEMMA LeastNumber ==
  ASSUME NEW S \in SUBSET Nat, S # {}
  PROVE  Min(S) \in S
<1>1. IsWellFoundedOn(Below, Nat)
  BY NatLessThanWellFounded DEF OpToRel, Below
<1>2. PICK n \in S : \A m \in S : ~ (<<m, n>> \in Below)
  BY <1>1, WFMin
<1>3. \A m \in S : m \in Nat /\ n \in Nat /\ ~ (m < n)
  BY <1>2 DEF Below
<1>4. \A m \in S : n <= m
  BY <1>3
<1> QED BY <1>4 DEF Min

------------------------------------------------------------------------------
(* What holds in every network.                                            *)

(* The streams are numbered from 1: one that is served has been opened.    *)
StreamOpened == srv_status # "INIT" \/ effects \cap {"SETUP", "PLAY"} # {} => streams # 0

(* The buttons follow the status, a callback in progress was allowed by    *)
(* them, and what follows the answer is that of its method.                *)
ButtonsFit ==
  /\ sensitive = CASE status = "INIT" -> {"SETUP"}
                   [] status = "READY" -> {"PLAY", "TEARDOWN"}
                   [] status = "PLAYING" -> {"TEARDOWN"}
  /\ call.pc \in {"send", "await"} => call.method \in sensitive /\ call.fd \in tcp
  /\ call.pc \in {"bind", "async"} => call.method = "PLAY" /\ status # "INIT"
  /\ call.pc = "async" => udp # NoFd
  /\ call.pc = "stop" => call.method = "TEARDOWN"

(* Without an RTP socket there is nothing to read and nothing pending.     *)
NothingUnbound ==
  udp = NoFd => queue = <<>> /\ ~ async /\ ~ sigio /\ rtp_client = NoFd

(* FreshReceiver, during callbacks too.                                    *)
Forgotten ==
  status = "INIT" /\ call.pc \notin {"stop", "stuck"} => ssrc = 0 /\ rtp_client = NoFd

(* A request whose connection is open is the callback's, which waits.      *)
OwnRequest ==
  \A r \in inbox : r.live =>
    /\ call.pc \in {"await", "stuck"} /\ answer = NoAnswer
    /\ r.method = call.method /\ r.session = session_id

Inv == TypeOK /\ StreamOpened /\ ButtonsFit /\ NothingUnbound /\ Forgotten /\ OwnRequest

(* A callback has one connection while it sends and waits.                 *)
OneConnection ==
  Without({"sendFails"}) =>
    (call.pc # "stuck" => tcp = IF call.pc \in {"send", "await"} THEN {call.fd} ELSE {})

------------------------------------------------------------------------------
(* What TunedIn rests on.                                                  *)

(* A socket that rtp_client does not name is lost for good.                *)
Orphaned == udp # NoFd /\ rtp_client # udp

(* While a stream may be opened nothing of an earlier one is left: a SETUP *)
(* is sent by a client without a receiver, or with a lost one.             *)
NothingTuned ==
  \A r \in inbox : r.method = "SETUP" => ssrc = 0 /\ (Orphaned \/ (udp = NoFd /\ r.live))

(* The receiver's socket and the receiver have the current stream only.    *)
CurrentStream ==
  /\ ssrc # 0 => ssrc = streams
  /\ ~ Orphaned => \A i \in 1 .. Len(queue) : queue[i] = streams

Tuned == Without({"lateDatagrams"}) => NothingTuned /\ CurrentStream

------------------------------------------------------------------------------
(* What the properties of a server that acts before it answers rest on.    *)

(* Its sessions are numbered like its streams.  One that was created by a  *)
(* request that was refused is the next stream's.                          *)
ServerInOrder ==
  /\ effects = {}
  /\ srv_status = "INIT" => srv_session \in {0, streams + 1}
  /\ srv_status # "INIT" => srv_session = streams /\ streams # 0
  /\ srv_playing => srv_status = "PLAYING"

(* The client that plays has given its receiver up, or is about to.        *)
Stopped == call.pc = "stop" \/ (udp = NoFd /\ call.pc # "bind")

(* No one asks for a session that has not been opened.  A request whose    *)
(* wait was interrupted is a TEARDOWN, of an earlier session unless the    *)
(* client still plays.                                                     *)
OldRequests ==
  /\ session_id <= streams
  /\ \A r \in inbox :
       /\ r.session <= streams
       /\ ~ r.live =>
            /\ r.method = "TEARDOWN"
            /\ r.session = streams /\ srv_status # "INIT" => status = "PLAYING" /\ Stopped

Answered == call.pc = "await" /\ answer # NoAnswer

(* Before the answer, the server is where the client is, unless it has     *)
(* ended the session the client has given up.                              *)
Following ==
  ~ Answered =>
    /\ status = "INIT" => srv_status = "INIT"
    /\ status = "READY" => srv_status = "READY" /\ session_id = streams
    /\ status = "PLAYING" =>
         /\ session_id = streams
         /\ srv_status # "PLAYING" => srv_status = "INIT" /\ Stopped

(* After it, the server is where the answer will take the client.          *)
Leading ==
  Answered =>
    /\ answer = Closed => status = "PLAYING" /\ srv_status = "INIT" /\ session_id = streams
    /\ answer # Closed => srv_status = StatusAfter(call.method) /\ answer = streams

(* The receiver lives while the client plays.                              *)
ReceiverLife ==
  /\ rtp_client = udp
  /\ udp # NoFd => status = "PLAYING" \/ call.pc = "stop"
  /\ call.pc = "bind" => udp = NoFd /\ status = "PLAYING"
  /\ call.pc = "async" => status = "PLAYING"
  /\ call.pc # "stuck"

InOrder == ServerInOrder /\ OldRequests /\ Following /\ Leading /\ ReceiverLife

Prompt == Without({"lateEffect"}) => InOrder

(* If in addition waits are not interrupted, no request is left behind,    *)
(* none is refused, and a client that plays has its socket.                *)
Undisturbed ==
  /\ call.pc = "await" => ~ sigio /\ answer # Closed
  /\ \A r \in inbox : r.live
  /\ status = "PLAYING" /\ ~ Answered => srv_status = "PLAYING"
  /\ call.pc = "stop" => status = "INIT"
  /\ call.pc = "bind" => FreeFds # {}
  /\ status = "PLAYING" /\ call.pc # "bind" => udp # NoFd
  /\ status = "PLAYING" /\ call.pc \notin {"bind", "async"} => async

Calm == Without({"interrupts", "lateEffect"}) => Undisturbed

------------------------------------------------------------------------------
(* Type correctness.                                                       *)

(* The number of a new socket is one that is free.                         *)
LEMMA NewNumber ==
  ASSUME FreeFds # {}
  PROVE  Min(FreeFds) \in FreeFds
BY LeastNumber, ClientAssumption DEF FreeFds

(* The values call may have.                                               *)
LEMMA CallValues ==
  /\ NoCall \in Call
  /\ call \in Call =>
       /\ AfterAnswer \in Call
       /\ \A pc \in {"idle", "send", "await", "bind", "async", "stop", "stuck"} :
            [call EXCEPT !.pc = pc] \in Call
<1>1. NoCall \in Call
  BY DEF NoCall, Call, Method
<1>2. ASSUME call \in Call PROVE AfterAnswer \in Call
  BY <1>1, <1>2 DEF Call, AfterAnswer, Method
<1>3. ASSUME call \in Call,
             NEW pc \in {"idle", "send", "await", "bind", "async", "stop", "stuck"}
      PROVE  [call EXCEPT !.pc = pc] \in Call
  BY <1>3 DEF Call
<1> QED BY <1>1, <1>2, <1>3

(* A queue may be empty; its head is a stream.                             *)
LEMMA QueueValues ==
  /\ <<>> \in Seq(1 .. MaxStreams) /\ Len(<<>>) <= QueueLen
  /\ \A q \in Seq(1 .. MaxStreams) : q # <<>> => Head(q) \in 1 .. MaxStreams
BY ClientAssumption

(* The client and the server begin with values of their kinds.             *)
LEMMA TypeInit == Init => TypeOK
<1> SUFFICES ASSUME Init PROVE TypeOK
  OBVIOUS
<1>1. answer \in Closed .. MaxStreams + 1
  BY ClientAssumption DEF Init, NoAnswer, Closed
<1>2. queue \in Seq(1 .. MaxStreams) /\ Len(queue) <= QueueLen
  BY QueueValues DEF Init
<1>3. 0 \in 0 .. MaxStreams + 1 /\ 0 \in 0 .. MaxStreams
  BY ClientAssumption
<1> QED
  BY <1>1, <1>2, <1>3, CallValues DEF Init, TypeOK, Method

(* Each step of the callbacks gives values of their kinds ...              *)
LEMMA TypeCall ==
  ASSUME TypeOK, (\E m \in Method : Click(m)) \/ CallStep
  PROVE  TypeOK'
<1> USE ClientAssumption
    DEF TypeOK, stateVars, receiverVars, udpVars, serverVars, sessionVars
<1>1. ASSUME NEW m \in Method, Click(m) PROVE TypeOK'
  <2>1. Min(FreeFds) \in Fd /\ Min(FreeFds) # udp
    BY <1>1, NewNumber DEF Click, FreeFds
  <2>2. call' \in Call
    BY <1>1, <2>1 DEF Click, Call
  <2> QED BY <1>1, <2>1, <2>2 DEF Click
<1>2. CASE Send
  <2>1. call' \in Call
    BY <1>2, CallValues DEF Send
  <2>2. [method |-> call.method, session |-> session_id, live |-> TRUE] \in Message
    BY DEF Call, Message
  <2>3. answer' \in Closed .. MaxStreams + 1
    BY <1>2 DEF Send, NoAnswer, Closed
  <2> QED BY <1>2, <2>1, <2>2, <2>3 DEF Send
<1>3. CASE SendError
  BY <1>3, CallValues DEF SendError
<1>4. CASE ReceiveAnswer
  <2>1. call' \in Call /\ call.method \in Method
    BY <1>4, CallValues DEF ReceiveAnswer, CloseConnection, Call
  <2>2. status' \in {"INIT", "READY", "PLAYING"} /\ sensitive' \subseteq Method
    BY <1>4, <2>1 DEF ReceiveAnswer, StatusAfter, SensitiveAfter, Method
  <2>3. session_id' \in 0 .. MaxStreams + 1
    BY <1>4 DEF ReceiveAnswer, Closed
  <2> QED BY <1>4, <2>1, <2>2, <2>3 DEF ReceiveAnswer, CloseConnection
<1>5. CASE Refused
  BY <1>5, CallValues DEF Refused, CloseConnection
<1>6. CASE Bind
  <2>1. FreeFds # {} => Min(FreeFds) \in Fd \ tcp
    BY NewNumber DEF FreeFds
  <2> QED BY <1>6, <2>1, CallValues DEF Bind
<1>7. CASE SetAsync
  BY <1>7, CallValues DEF SetAsync
<1>8. CASE StopRTPProgress
  <2>1. ssrc' \in 0 .. MaxStreams
    BY <1>8 DEF StopRTPProgress
  <2>2. queue' \in Seq(1 .. MaxStreams) /\ Len(queue') <= QueueLen
    <3>1. queue' \in {queue, <<>>}
      BY <1>8 DEF StopRTPProgress, CloseReceiver
    <3> QED BY <3>1, QueueValues
  <2>3. udp' \in (Fd \ tcp') \cup {NoFd} /\ tcp' \subseteq Fd /\ async' \in BOOLEAN
    BY <1>8 DEF StopRTPProgress, CloseReceiver
  <2> QED BY <1>8, <2>1, <2>2, <2>3, CallValues DEF StopRTPProgress
<1> QED BY <1>1, <1>2, <1>3, <1>4, <1>5, <1>6, <1>7, <1>8 DEF CallStep

(* ... and so does each of the handler, the server and the network.        *)
LEMMA TypeRest ==
  ASSUME TypeOK, StreamOpened,
         SIGIOHandler \/ ServerStep \/ EndOfStream \/ \E s \in 1 .. MaxStreams : Datagram(s)
  PROVE  TypeOK'
<1> USE ClientAssumption
    DEF TypeOK, stateVars, receiverVars, udpVars, serverVars, sessionVars
<1>1. CASE SIGIOHandler
  <2>1. call' \in Call
    BY <1>1, CallValues DEF SIGIOHandler, Resume, CloseConnection
  <2>2. \A r \in Message : [r EXCEPT !.live = FALSE] \in Message
    BY DEF Message
  <2>3. tcp' \subseteq tcp /\ inbox' \subseteq Message
    BY <1>1, <2>2 DEF SIGIOHandler, Resume, CloseConnection
  <2>4. /\ ssrc' \in 0 .. MaxStreams
        /\ queue' \in Seq(1 .. MaxStreams) /\ Len(queue') <= QueueLen
    <3>1. queue' \in {queue, <<>>} /\ (ssrc' = ssrc \/ (queue # <<>> /\ ssrc' = Head(queue)))
      BY <1>1 DEF SIGIOHandler, ReadDatagrams
    <3>2. ssrc' \in 0 .. MaxStreams
      BY <3>1, QueueValues
    <3> QED BY <3>1, <3>2, QueueValues
  <2> QED BY <1>1, <2>1, <2>3, <2>4 DEF SIGIOHandler
<1>2. ASSUME NEW r \in inbox, Serve(r) PROVE TypeOK'
  <2>1. r.method \in Method /\ r.session \in 0 .. MaxStreams + 1 /\ r.live \in BOOLEAN
    BY DEF Message
  <2>2. SessionFor(r.method) \in 0 .. MaxStreams + 1
    BY DEF SessionFor
  <2>3. answer' \in Closed .. MaxStreams + 1
    BY <1>2, <2>2 DEF Serve, Closed
  <2>4. streams' \in 0 .. MaxStreams
    BY <1>2 DEF Serve
  <2>5. srv_session' \in 0 .. MaxStreams + 1
    BY <1>2, <2>2 DEF Serve
  <2>6. Accepts(r) /\ r.method = "PLAY" => streams \in 1 .. MaxStreams
    BY DEF Accepts, ValidInState, StreamOpened
  <2>7. /\ srv_status' \in {"INIT", "READY", "PLAYING"} /\ srv_playing' \in BOOLEAN
        /\ played' \subseteq 1 .. MaxStreams
    BY <1>2, <2>1, <2>6 DEF Serve, TakeEffect, StatusAfter, Method
  <2> QED BY <1>2, <2>1, <2>3, <2>4, <2>5, <2>7 DEF Serve
<1>3. ASSUME NEW m \in Method, Commit(m) PROVE TypeOK'
  <2>1. m = "PLAY" => streams \in 1 .. MaxStreams
    BY <1>3 DEF Commit, StreamOpened
  <2>2. /\ srv_status' \in {"INIT", "READY", "PLAYING"} /\ srv_playing' \in BOOLEAN
        /\ played' \subseteq 1 .. MaxStreams
    BY <1>3, <2>1 DEF Commit, TakeEffect, StatusAfter, Method
  <2>3. srv_session' \in 0 .. MaxStreams + 1
    BY <1>3 DEF Commit
  <2> QED BY <1>3, <2>2, <2>3 DEF Commit
<1>4. CASE EndOfStream
  BY <1>4 DEF EndOfStream
<1>5. ASSUME NEW s \in 1 .. MaxStreams, Datagram(s) PROVE TypeOK'
  <2>1. queue' \in Seq(1 .. MaxStreams) /\ Len(queue') <= QueueLen
    BY <1>5 DEF Datagram
  <2> QED BY <1>5, <2>1 DEF Datagram
<1> QED BY <1>1, <1>2, <1>3, <1>4, <1>5 DEF ServerStep

LEMMA NoFdIsNone == NoFd \notin Fd
BY ClientAssumption DEF NoFd

LEMMA SafeInit == Init => Inv
<1> SUFFICES ASSUME Init PROVE Inv
  OBVIOUS
<1>1. TypeOK
  BY TypeInit
<1> QED
  BY <1>1 DEF Init, Inv, StreamOpened, ButtonsFit, NothingUnbound, Forgotten, OwnRequest, NoCall

(* Steps that change the client ...                                        *)
LEMMA SafeCall ==
  ASSUME Inv, (\E m \in Method : Click(m)) \/ CallStep
  PROVE  Inv'
<1>0. TypeOK /\ TypeOK'
  BY TypeCall DEF Inv
<1>a. call \in Call /\ status \in {"INIT", "READY", "PLAYING"}
  BY <1>0 DEF TypeOK
<1>b. StreamOpened'
  BY DEF CallStep, Click, Send, SendError, ReceiveAnswer, Refused, Bind, SetAsync, StopRTPProgress,
         Inv, StreamOpened, serverVars, sessionVars
<1> SUFFICES ButtonsFit' /\ NothingUnbound' /\ Forgotten' /\ OwnRequest'
  BY <1>0, <1>b DEF Inv
<1> USE <1>a DEF Inv, At, ButtonsFit, NothingUnbound, Forgotten, OwnRequest, Call, Method,
        stateVars, receiverVars, udpVars, serverVars, sessionVars
<1>1. ASSUME NEW m \in Method, Click(m)
      PROVE  ButtonsFit' /\ NothingUnbound' /\ Forgotten' /\ OwnRequest'
  BY <1>1 DEF Click
<1>2. CASE Send
  BY <1>2 DEF Send
<1>3. CASE SendError
  BY <1>3 DEF SendError, NoCall
<1>4. CASE ReceiveAnswer
  BY <1>4 DEF ReceiveAnswer, CloseConnection, AfterAnswer, StatusAfter, SensitiveAfter, NoCall, NoAnswer
<1>5. CASE Refused
  BY <1>5 DEF Refused, CloseConnection, AfterAnswer, NoCall, Closed, NoAnswer
<1>6. CASE Bind
  <2>1. FreeFds # {} => Min(FreeFds) # NoFd
    BY NewNumber, NoFdIsNone DEF FreeFds
  <2> QED BY <1>6, <2>1 DEF Bind, NoCall
<1>7. CASE SetAsync
  BY <1>7 DEF SetAsync, NoCall
<1>8. CASE StopRTPProgress
  BY <1>8 DEF StopRTPProgress, CloseReceiver, NoCall
<1> QED BY <1>1, <1>2, <1>3, <1>4, <1>5, <1>6, <1>7, <1>8 DEF CallStep

(* ... and those that do not.                                              *)
LEMMA SafeRest ==
  ASSUME Inv, SIGIOHandler \/ ServerStep \/ EndOfStream \/ \E s \in 1 .. MaxStreams : Datagram(s)
  PROVE  Inv'
<1>0. TypeOK /\ TypeOK'
  BY TypeRest DEF Inv
<1>a. call \in Call /\ status \in {"INIT", "READY", "PLAYING"}
  BY <1>0 DEF TypeOK
<1> SUFFICES StreamOpened' /\ ButtonsFit' /\ NothingUnbound' /\ Forgotten' /\ OwnRequest'
  BY <1>0 DEF Inv
<1> USE <1>a DEF Inv, ButtonsFit, NothingUnbound, Forgotten, OwnRequest, Call, Method,
        stateVars, receiverVars, udpVars, serverVars, sessionVars
<1>1. CASE SIGIOHandler
  <2>1. sigio /\ ~ sigio' /\ udp # NoFd /\ tcp \subseteq Fd
    BY <1>1, <1>0 DEF SIGIOHandler, TypeOK
  <2>2. StreamOpened' /\ NothingUnbound'
    BY <1>1, <2>1 DEF SIGIOHandler, StreamOpened
  <2>3. CASE rtp_client \in tcp
    BY <1>1, <2>2, <2>3, <2>1, NoFdIsNone DEF SIGIOHandler
  <2>4. CASE rtp_client \notin tcp
    <3>1. ssrc' = ssrc \/ rtp_client = udp
      BY <1>1, <2>4 DEF SIGIOHandler
    <3>2. CASE call.pc = "await" /\ answer = NoAnswer
      <4>1. /\ call' = AfterAnswer /\ tcp' = tcp \ {call.fd}
            /\ inbox' = {[r EXCEPT !.live = FALSE] : r \in inbox}
        BY <1>1, <2>4, <3>2 DEF SIGIOHandler, Resume, CloseConnection
      <4>2. OwnRequest'
        BY <1>0, <4>1 DEF TypeOK, Message
      <4>3. ButtonsFit' /\ Forgotten'
        BY <1>1, <2>1, <3>1, <3>2, <4>1 DEF SIGIOHandler, AfterAnswer, NoCall
      <4> QED BY <2>2, <4>2, <4>3
    <3>3. CASE ~ (call.pc = "await" /\ answer = NoAnswer)
      <4>1. UNCHANGED <<call, tcp, inbox>>
        BY <1>1, <2>4, <3>3 DEF SIGIOHandler, Resume
      <4> QED BY <1>1, <2>1, <2>2, <3>1, <4>1 DEF SIGIOHandler
    <3> QED BY <3>2, <3>3
  <2> QED BY <2>3, <2>4
<1>2. ASSUME NEW r \in inbox, Serve(r)
      PROVE  StreamOpened' /\ ButtonsFit' /\ NothingUnbound' /\ Forgotten' /\ OwnRequest'
  <2>1. r.method \in Method /\ streams \in Nat
    BY <1>0, ClientAssumption DEF TypeOK, Message
  <2>2. StreamOpened'
    <3>1. CASE Accepts(r) /\ r.method = "SETUP"
      BY <1>2, <2>1, <3>1 DEF Serve, StreamOpened
    <3>2. CASE Accepts(r) /\ r.method = "PLAY"
      BY <1>2, <2>1, <3>2 DEF Serve, StreamOpened, Accepts, ValidInState
    <3>3. CASE Accepts(r) /\ r.method = "TEARDOWN"
      BY <1>2, <2>1, <3>3 DEF Serve, StreamOpened, TakeEffect, StatusAfter
    <3>4. CASE ~ Accepts(r)
      BY <1>2, <3>4 DEF Serve, StreamOpened
    <3> QED BY <2>1, <3>1, <3>2, <3>3, <3>4
  <2>3. OwnRequest'
    <3> SUFFICES ASSUME NEW q \in inbox', q.live
                 PROVE  /\ call.pc \in {"await", "stuck"} /\ answer' = NoAnswer
                        /\ q.method = call.method /\ q.session = session_id
      BY <1>2 DEF Serve
    <3>1. q \in inbox /\ q # r
      BY <1>2 DEF Serve
    <3>2. ~ r.live
      <4>1. r \in Message /\ q \in Message
        BY <1>0, <3>1 DEF TypeOK
      <4> QED BY <3>1, <4>1 DEF Message
    <3> QED BY <1>2, <3>1, <3>2 DEF Serve
  <2> QED BY <1>2, <2>2, <2>3 DEF Serve
<1>3. ASSUME NEW m \in Method, Commit(m)
      PROVE  StreamOpened' /\ ButtonsFit' /\ NothingUnbound' /\ Forgotten' /\ OwnRequest'
  BY <1>3 DEF Commit, TakeEffect, StreamOpened, StatusAfter
<1>4. CASE EndOfStream
  BY <1>4 DEF EndOfStream, StreamOpened
<1>5. ASSUME NEW s \in 1 .. MaxStreams, Datagram(s)
      PROVE  StreamOpened' /\ ButtonsFit' /\ NothingUnbound' /\ Forgotten' /\ OwnRequest'
  BY <1>5 DEF Datagram, StreamOpened
<1> QED BY <1>1, <1>2, <1>3, <1>4, <1>5 DEF ServerStep

LEMMA SafeStep == Inv /\ [Next]_vars => Inv'
<1> SUFFICES ASSUME Inv, [Next]_vars PROVE Inv'
  OBVIOUS
<1>1. CASE Next
  BY <1>1, SafeCall, SafeRest DEF Next
<1>2. CASE UNCHANGED vars
  BY <1>2 DEF vars, stateVars, receiverVars, udpVars, serverVars, sessionVars, Inv, TypeOK,
              StreamOpened, ButtonsFit, NothingUnbound, Forgotten, OwnRequest
<1> QED BY <1>1, <1>2

LEMMA Invariance == Spec => []Inv
BY SafeInit, SafeStep, PTL DEF Spec

(* The values of the client, its sockets and the server keep their kinds:  *)
(* whatever fails and comes late, no number is two sockets.                *)
THEOREM TypeCorrect == Spec => []TypeOK
BY Invariance, PTL DEF Inv

(* A client without a session starts as it did at first, in every network: *)
(* a callback that ends in INIT has gone through stopRTPProgress.          *)
THEOREM StartsFresh == Spec => []FreshReceiver
<1>1. Inv => FreshReceiver
  BY DEF Inv, Forgotten, FreshReceiver, Idle
<1> QED BY <1>1, Invariance, PTL

------------------------------------------------------------------------------
(* A behaviour stays in its network.                                       *)
LEMMA SameNetwork == [Next]_vars => network' = network
BY DEF Next, vars, CallStep, ServerStep, Click, Send, SendError, ReceiveAnswer, Refused, Bind, SetAsync,
       StopRTPProgress, SIGIOHandler, Serve, Commit, EndOfStream, Datagram, stateVars

(* Without failing sends, connections are opened and closed in turn.       *)
LEMMA ConnectionStep == Inv /\ OneConnection /\ [Next]_vars => OneConnection'
<1> SUFFICES ASSUME Inv, OneConnection, [Next]_vars, Without({"sendFails"})
             PROVE  call'.pc # "stuck" =>
                      tcp' = IF call'.pc \in {"send", "await"} THEN {call'.fd} ELSE {}
  BY SameNetwork DEF OneConnection, Without
<1>0. call \in Call /\ (call.pc # "stuck" => tcp = IF call.pc \in {"send", "await"} THEN {call.fd} ELSE {})
  BY DEF Inv, TypeOK, OneConnection
<1> USE <1>0 DEF At, stateVars, receiverVars, udpVars, serverVars, sessionVars, Call
<1>1. ASSUME NEW m \in Method, Click(m)
      PROVE  call'.pc # "stuck" =>
               tcp' = IF call'.pc \in {"send", "await"} THEN {call'.fd} ELSE {}
  BY <1>1 DEF Click
<1>2. CASE Send
  BY <1>2 DEF Send
<1>3. CASE SendError
  BY <1>3 DEF SendError, Without
<1>a. AfterAnswer.pc \in {"idle", "bind", "stop"}
  BY DEF AfterAnswer, NoCall, Method
<1>4. CASE ReceiveAnswer \/ Refused
  BY <1>4, <1>a DEF ReceiveAnswer, Refused, CloseConnection
<1>5. CASE Bind
  BY <1>5 DEF Bind, NoCall
<1>6. CASE SetAsync
  BY <1>6 DEF SetAsync, NoCall
<1>7. CASE StopRTPProgress
  BY <1>7 DEF StopRTPProgress, CloseReceiver, NoCall
<1>8. CASE SIGIOHandler
  <2>1. CASE rtp_client \in tcp
    BY <1>8, <2>1 DEF SIGIOHandler
  <2>2. CASE rtp_client \notin tcp /\ call.pc = "await" /\ answer = NoAnswer
    BY <1>8, <2>2, <1>a DEF SIGIOHandler, Resume, CloseConnection
  <2>3. CASE rtp_client \notin tcp /\ ~ (call.pc = "await" /\ answer = NoAnswer)
    BY <1>8, <2>3 DEF SIGIOHandler, Resume
  <2> QED BY <2>1, <2>2, <2>3
<1>9. CASE ServerStep \/ EndOfStream \/ (\E s \in 1 .. MaxStreams : Datagram(s)) \/ UNCHANGED vars
  BY <1>9 DEF ServerStep, Serve, Commit, EndOfStream, Datagram, vars
<1> QED BY <1>1, <1>2, <1>3, <1>4, <1>5, <1>6, <1>7, <1>8, <1>9 DEF Next, CallStep

(* A callback leaves no connection open unless its send failed: neither a  *)
(* refusal nor an interrupted wait loses one.                              *)
THEOREM NothingLeaks == Spec => []NoLeak
<1>1. Init => OneConnection
  BY DEF Init, OneConnection, NoCall
<1>2. OneConnection => NoLeak
  BY DEF OneConnection, NoLeak, Idle
<1> QED BY <1>1, <1>2, ConnectionStep, Invariance, PTL DEF Spec

------------------------------------------------------------------------------
(* The stream the receiver shows.                                          *)
LEMMA TunedStep == Inv /\ Tuned /\ [Next]_vars => Tuned'
<1> SUFFICES ASSUME Inv, Inv', Tuned, [Next]_vars, Without({"lateDatagrams"})
             PROVE  NothingTuned' /\ CurrentStream'
  BY SameNetwork, SafeStep DEF Tuned, Without
<1>0. /\ NothingTuned /\ CurrentStream
      /\ call \in Call /\ inbox \subseteq Message /\ queue \in Seq(1 .. MaxStreams)
      /\ streams \in Nat
  BY ClientAssumption DEF Tuned, Inv, TypeOK
<1> USE <1>0 DEF At, NothingTuned, CurrentStream, Orphaned,
        stateVars, receiverVars, udpVars, serverVars, sessionVars
<1>1. ASSUME NEW m \in Method, Click(m) PROVE NothingTuned' /\ CurrentStream'
  BY <1>1 DEF Click
<1>2. CASE Send
  <2>1. call.method = "SETUP" => ssrc = 0 /\ rtp_client = NoFd
    BY <1>2 DEF Send, Inv, ButtonsFit, Forgotten, TypeOK
  <2> QED BY <1>2, <2>1 DEF Send
<1>3. CASE SendError
  BY <1>3 DEF SendError
<1>4. CASE ReceiveAnswer \/ Refused
  BY <1>4 DEF ReceiveAnswer, Refused
<1>5. CASE Bind
  <2>1. FreeFds # {} => Min(FreeFds) # udp /\ Min(FreeFds) # NoFd
    BY NewNumber, NoFdIsNone DEF FreeFds
  <2>2. udp = NoFd => \A r \in inbox : r.method # "SETUP"
    BY <1>5 DEF Bind, Inv, OwnRequest
  <2>3. udp = NoFd => queue = <<>> /\ queue' = <<>>
    BY <1>5 DEF Bind, Inv, NothingUnbound
  <2> QED BY <1>5, <2>1, <2>2, <2>3 DEF Bind
<1>6. CASE SetAsync
  BY <1>6 DEF SetAsync
<1>7. CASE StopRTPProgress
  <2>1. \A r \in inbox : r.method = "SETUP" => Orphaned
    BY <1>7 DEF StopRTPProgress, Inv, OwnRequest
  <2>2. ~ Orphaned => udp' = NoFd /\ queue' = <<>>
    BY <1>7 DEF StopRTPProgress, CloseReceiver, Inv, NothingUnbound
  <2>3. Orphaned => Orphaned'
    BY <1>7 DEF StopRTPProgress, CloseReceiver
  <2> QED BY <1>7, <2>1, <2>2, <2>3 DEF StopRTPProgress
<1>8. CASE SIGIOHandler
  <2>1. udp # NoFd /\ UNCHANGED <<udp, rtp_client, streams>>
    BY <1>8 DEF SIGIOHandler, Inv, NothingUnbound
  <2>2. \A r \in inbox : r.method = "SETUP" => Orphaned /\ ssrc = 0
    BY <2>1
  <2>3. /\ queue' \in {queue, <<>>}
        /\ ssrc' = ssrc \/ (~ Orphaned /\ queue # <<>> /\ ssrc' = Head(queue))
    BY <1>8 DEF SIGIOHandler, ReadDatagrams
  <2>4. ssrc' # 0 => ssrc' = streams
    BY <2>3
  <2>5. \A r \in inbox' : \E q \in inbox : q.method = r.method
    BY <1>8 DEF SIGIOHandler, Resume, Message
  <2> QED BY <2>1, <2>2, <2>3, <2>4, <2>5
<1>9. ASSUME NEW r \in inbox, Serve(r) PROVE NothingTuned' /\ CurrentStream'
  <2>1. streams' = streams \/ r.method = "SETUP"
    BY <1>9 DEF Serve
  <2>2. r.method = "SETUP" => ssrc = 0 /\ (Orphaned \/ queue = <<>>)
    BY DEF Inv, NothingUnbound
  <2> QED BY <1>9, <2>1, <2>2 DEF Serve
<1>10. ASSUME NEW s \in 1 .. MaxStreams, Datagram(s) PROVE NothingTuned' /\ CurrentStream'
  <2>1. s = streams
    BY <1>10 DEF Datagram, Without
  <2> QED BY <1>10, <2>1 DEF Datagram
<1>11. CASE (\E m \in Method : Commit(m)) \/ EndOfStream \/ UNCHANGED vars
  BY <1>11 DEF Commit, EndOfStream, vars
<1> QED BY <1>1, <1>2, <1>3, <1>4, <1>5, <1>6, <1>7, <1>8, <1>9, <1>10, <1>11
        DEF Next, CallStep, ServerStep

(* The receiver shows the current stream, also after interrupted waits and *)
(* before a server that acts late, as long as no old datagrams come: then  *)
(* a stream is opened only when nothing of an earlier one is left.         *)
THEOREM ShowsCurrentStream == Spec => []TunedIn
<1>1. Init => Tuned
  BY DEF Init, Tuned, NothingTuned, CurrentStream
<1>2. Tuned => TunedIn
  BY DEF Tuned, TunedIn, CurrentStream
<1> QED BY <1>1, <1>2, TunedStep, Invariance, PTL DEF Spec

------------------------------------------------------------------------------
(* A server that acts before it answers.                                   *)

(* An answer that names a session is not the end of the connection.        *)
LEMMA AnswerValues == answer \in Closed .. MaxStreams + 1 /\ answer > 0 =>
                        answer # Closed /\ answer # NoAnswer
BY ClientAssumption DEF Closed, NoAnswer

(* A request and what becomes of it.  SETUP is accepted before a session,  *)
(* PLAY during one, TEARDOWN by those who know its number.                 *)
LEMMA Served ==
  ASSUME Inv, InOrder, NEW r \in inbox, Serve(r), Without({"lateEffect"})
  PROVE  /\ r \in Message /\ effects' = {} /\ inbox' = inbox \ {r}
         /\ r.live => answer' = IF Accepts(r) THEN SessionFor(r.method) ELSE Closed
         /\ ~ r.live => answer' = answer
         /\ r.method = "SETUP" => (Accepts(r) <=> srv_status = "INIT")
         /\ r.method = "PLAY" => (Accepts(r) <=> srv_status # "INIT" /\ r.session = streams)
         /\ r.method = "TEARDOWN" => (Accepts(r) <=> srv_status # "INIT" /\ r.session = streams)
         /\ Accepts(r) /\ r.method = "SETUP" =>
              /\ streams' = streams + 1 /\ srv_status' = "READY" /\ srv_session' = streams + 1
              /\ srv_playing' = srv_playing /\ SessionFor(r.method) = streams + 1
         /\ Accepts(r) /\ r.method = "PLAY" =>
              /\ streams' = streams /\ srv_status' = "PLAYING" /\ srv_session' = streams
              /\ srv_playing' = TRUE /\ SessionFor(r.method) = streams
         /\ Accepts(r) /\ r.method = "TEARDOWN" =>
              /\ streams' = streams /\ srv_status' = "INIT" /\ srv_session' = 0
              /\ srv_playing' = FALSE /\ SessionFor(r.method) = streams
         /\ ~ Accepts(r) =>
              /\ UNCHANGED <<streams, srv_status, srv_playing>>
              /\ srv_session' = IF srv_status = "INIT" /\ r.method = "TEARDOWN"
                                  THEN streams + 1 ELSE srv_session
<1>1. /\ r \in Message /\ r.method \in Method /\ r.session \in Nat /\ streams \in Nat
      /\ srv_status \in {"INIT", "READY", "PLAYING"}
      /\ r.session <= streams /\ r.session # streams + 1
  BY ClientAssumption DEF Inv, TypeOK, Message, InOrder, OldRequests
<1>2. effects = {} /\ "lateEffect" \notin network
  BY DEF InOrder, ServerInOrder, Without
<1>3. r.method = "SETUP" => (Accepts(r) <=> srv_status = "INIT")
  BY DEF Accepts, ValidInState
<1>4. r.method = "PLAY" => (Accepts(r) <=> srv_status # "INIT" /\ r.session = streams)
  BY DEF Accepts, ValidInState, InOrder, ServerInOrder
<1>5. r.method = "TEARDOWN" => (Accepts(r) <=> srv_status # "INIT" /\ r.session = streams)
  BY <1>1 DEF Accepts, ValidInState, InOrder, ServerInOrder
<1>6. ValidInState(r.method) /\ srv_status = "INIT" => SessionFor(r.method) = streams + 1
  BY <1>1 DEF SessionFor, InOrder, ServerInOrder
<1>7. srv_status # "INIT" => SessionFor(r.method) = streams
  BY <1>1 DEF SessionFor, InOrder, ServerInOrder
<1>8. ~ ValidInState(r.method) => SessionFor(r.method) = srv_session
  BY DEF SessionFor
<1>9. CASE Accepts(r)
  <2>1. /\ effects' = effects /\ TakeEffect(r.method)
        /\ srv_session' = IF r.method = "TEARDOWN" THEN 0 ELSE SessionFor(r.method)
    BY <1>2, <1>9 DEF Serve
  <2>2. srv_playing => srv_status = "PLAYING"
    BY DEF InOrder, ServerInOrder
  <2>3. ValidInState(r.method)
    BY <1>9 DEF Accepts
  <2>4. CASE r.method = "SETUP"
    BY <1>1, <1>2, <1>3, <1>6, <1>9, <2>1, <2>3, <2>4 DEF Serve, TakeEffect, StatusAfter
  <2>5. CASE r.method = "PLAY"
    BY <1>1, <1>2, <1>4, <1>7, <1>9, <2>1, <2>5 DEF Serve, TakeEffect, StatusAfter
  <2>6. CASE r.method = "TEARDOWN"
    <3>1. srv_playing' = FALSE
      BY <2>1, <2>2, <2>6 DEF TakeEffect
    <3> QED BY <1>1, <1>2, <1>5, <1>7, <1>9, <2>1, <2>6, <3>1 DEF Serve, TakeEffect, StatusAfter
  <2> QED BY <1>1, <2>4, <2>5, <2>6 DEF Method
<1>10. CASE ~ Accepts(r)
  <2>1. /\ effects' = effects /\ srv_session' = SessionFor(r.method)
        /\ UNCHANGED <<streams, srv_status, srv_playing>>
    BY <1>10 DEF Serve
  <2>2. srv_session' = IF srv_status = "INIT" /\ r.method = "TEARDOWN"
                        THEN streams + 1 ELSE srv_session
    BY <1>1, <1>3, <1>6, <1>7, <1>8, <1>10, <2>1
    DEF ValidInState, Method, InOrder, ServerInOrder
  <2> QED BY <1>1, <1>2, <1>3, <1>4, <1>5, <1>10, <2>1, <2>2 DEF Serve
<1> QED BY <1>9, <1>10

(* Each step of the callbacks keeps client and server in order ...         *)
LEMMA OrderCall ==
  ASSUME Inv, Inv', InOrder, (\E m \in Method : Click(m)) \/ CallStep
  PROVE  InOrder'
<1>0. /\ call \in Call /\ status \in {"INIT", "READY", "PLAYING"} /\ call.method \in Method
      /\ call.pc \in {"send", "await"} => call.method \in sensitive
      /\ streams \in Nat
  BY ClientAssumption DEF Inv, TypeOK, Call, ButtonsFit
<1>a. /\ status = "INIT" => sensitive = {"SETUP"}
      /\ status = "READY" => sensitive = {"PLAY", "TEARDOWN"}
      /\ status = "PLAYING" => sensitive = {"TEARDOWN"}
  BY DEF Inv, ButtonsFit
<1>b. ServerInOrder'
  BY DEF CallStep, Click, Send, SendError, ReceiveAnswer, Refused, Bind, SetAsync, StopRTPProgress,
         InOrder, ServerInOrder, serverVars, sessionVars
<1> SUFFICES OldRequests' /\ Following' /\ Leading' /\ ReceiverLife'
  BY <1>b DEF InOrder
<1> USE <1>0 DEF InOrder, OldRequests, Following, Leading, ReceiverLife, Stopped, Answered, At, Call,
        stateVars, receiverVars, udpVars, serverVars, sessionVars
<1>1. ASSUME NEW m \in Method, Click(m)
      PROVE  OldRequests' /\ Following' /\ Leading' /\ ReceiverLife'
  BY <1>1 DEF Click
<1>2. CASE Send
  BY <1>2 DEF Send
<1>3. CASE SendError
  BY <1>3 DEF SendError, NoCall
<1>4. CASE ReceiveAnswer
  <2>1. /\ Answered /\ answer # Closed /\ srv_status = StatusAfter(call.method) /\ answer = streams
        /\ status' = srv_status /\ session_id' = streams /\ call' = AfterAnswer
        /\ UNCHANGED <<rtp_client, udp, inbox, srv_status, streams>>
    BY <1>4, AnswerValues DEF ReceiveAnswer, CloseConnection, Inv, TypeOK
  <2>2. udp # NoFd => call.method = "TEARDOWN"
    BY <2>1, <1>a
  <2>3. /\ call.method = "SETUP" => call'.pc = "idle" /\ status' = "READY" /\ status = "INIT"
        /\ call.method = "PLAY" => call'.pc = "bind" /\ status' = "PLAYING" /\ status = "READY"
        /\ call.method = "TEARDOWN" => call'.pc = "stop" /\ status' = "INIT"
    BY <2>1, <1>a DEF AfterAnswer, NoCall, StatusAfter
  <2>4. OldRequests'
    <3>1. session_id' <= streams'
      BY <2>1
    <3>2. \A r \in inbox : ~ (r.session = streams /\ srv_status # "INIT") \/ r.live
      <4>1. ASSUME NEW r \in inbox, ~ r.live, r.session = streams, srv_status # "INIT"
            PROVE  FALSE
        <5>1. status = "PLAYING"
          BY <4>1
        <5>2. call.method = "TEARDOWN"
          BY <2>3, <5>1 DEF Method
        <5> QED BY <2>1, <4>1, <5>2 DEF StatusAfter
      <4> QED BY <4>1
    <3> QED BY <2>1, <3>1, <3>2
  <2>5. Following'
    <3>1. status' = srv_status' /\ session_id' = streams'
      BY <2>1
    <3> QED BY <3>1
  <2>6. Leading'
    BY <2>1, <2>3 DEF Method
  <2>7. ReceiverLife'
    BY <2>1, <2>2, <2>3 DEF Method
  <2> QED BY <2>4, <2>5, <2>6, <2>7
<1>5. CASE Refused
  <2>1. Answered /\ status = "PLAYING" /\ call.method = "TEARDOWN"
    BY <1>5, <1>a DEF Refused, Closed, NoAnswer
  <2>2. call'.pc = "stop"
    BY <1>5, <2>1 DEF Refused, CloseConnection, AfterAnswer
  <2> QED BY <1>5, <2>1, <2>2 DEF Refused
<1>6. CASE Bind
  BY <1>6 DEF Bind, NoCall
<1>7. CASE SetAsync
  BY <1>7 DEF SetAsync, NoCall
<1>8. CASE StopRTPProgress
  BY <1>8 DEF StopRTPProgress, CloseReceiver, NoCall
<1> QED BY <1>1, <1>2, <1>3, <1>4, <1>5, <1>6, <1>7, <1>8 DEF CallStep

(* ... and so do the handler and the server.                               *)
LEMMA OrderRest ==
  ASSUME Inv, Inv', InOrder, Without({"lateEffect"}),
         SIGIOHandler \/ ServerStep \/ EndOfStream \/ \E s \in 1 .. MaxStreams : Datagram(s)
  PROVE  InOrder'
<1>0. /\ call \in Call /\ status \in {"INIT", "READY", "PLAYING"} /\ call.method \in Method
      /\ call.pc \in {"send", "await"} => call.method \in sensitive
      /\ inbox \subseteq Message /\ streams \in Nat /\ session_id \in Nat
  BY ClientAssumption DEF Inv, TypeOK, Call, ButtonsFit
<1>a. /\ status = "INIT" => sensitive = {"SETUP"}
      /\ status = "READY" => sensitive = {"PLAY", "TEARDOWN"}
      /\ status = "PLAYING" => sensitive = {"TEARDOWN"}
  BY DEF Inv, ButtonsFit
<1> USE <1>0 DEF InOrder, ServerInOrder, OldRequests, Following, Leading, ReceiverLife, Stopped,
        Answered, Call, stateVars, receiverVars, udpVars, serverVars, sessionVars
<1>1. CASE SIGIOHandler
  <2>1. udp # NoFd /\ rtp_client \notin tcp
    BY <1>1, NoFdIsNone DEF SIGIOHandler, Inv, NothingUnbound, TypeOK
  <2>2. CASE call.pc = "await" /\ answer = NoAnswer
    <3>1. status = "PLAYING" /\ call.method = "TEARDOWN"
      BY <2>1, <2>2, <1>a
    <3>2. /\ call'.pc = "stop" /\ inbox' = {[r EXCEPT !.live = FALSE] : r \in inbox}
          /\ UNCHANGED <<rtp_client, udp, status, session_id, effects, answer,
                         srv_status, srv_session, srv_playing, streams>>
      BY <1>1, <2>1, <2>2, <3>1 DEF SIGIOHandler, Resume, CloseConnection, AfterAnswer
    <3>3. \A r \in inbox : r.method = "TEARDOWN" /\ r.session <= streams
      BY <3>1 DEF Inv, OwnRequest
    <3>4. \A r \in inbox' : r.method = "TEARDOWN" /\ r.session <= streams
      BY <3>2, <3>3 DEF Message
    <3> QED BY <2>2, <3>1, <3>2, <3>4
  <2>3. CASE ~ (call.pc = "await" /\ answer = NoAnswer)
    BY <1>1, <2>1, <2>3 DEF SIGIOHandler, Resume
  <2> QED BY <2>2, <2>3
<1>2. ASSUME NEW r \in inbox, Serve(r) PROVE InOrder'
  <2>1. UNCHANGED <<status, session_id, rtp_client, call, udp>>
    BY <1>2 DEF Serve
  <2>2. r.live => ~ Answered /\ call.pc = "await" /\ r.method = call.method /\ r.session = session_id
    BY DEF Inv, OwnRequest
  <2>3. CASE Accepts(r) /\ r.method = "SETUP"
    <3>1. r.live /\ status = "INIT" /\ srv_status = "INIT"
      BY <2>2, <2>3, <1>2, <1>a, Served
    <3>2. /\ streams' = streams + 1 /\ srv_status' = "READY" /\ srv_session' = streams'
          /\ srv_playing' = srv_playing /\ answer' = streams' /\ effects' = {}
          /\ inbox' = inbox \ {r}
      BY <2>3, <3>1, <1>2, Served
    <3>3. answer' # NoAnswer /\ answer' # Closed /\ streams' # 0
      BY <3>2 DEF NoAnswer, Closed
    <3>4. \A q \in inbox' : q.session <= streams' /\ q.session # streams'
      BY <3>2 DEF Message
    <3>a. ServerInOrder'
      BY <3>1, <3>2, <3>3
    <3>5. OldRequests'
      <4>1. session_id' <= streams'
        BY <2>1, <3>2
      <4>2. \A q \in inbox' : ~ q.live => q.method = "TEARDOWN"
        BY <3>2
      <4> QED BY <3>4, <4>1, <4>2
    <3>6. Following' /\ Leading' /\ ReceiverLife'
      BY <2>1, <2>2, <2>3, <3>1, <3>2, <3>3 DEF StatusAfter
    <3> QED BY <3>a, <3>5, <3>6
  <2>4. CASE Accepts(r) /\ r.method = "PLAY"
    <3>1. r.live /\ status = "READY" /\ srv_status = "READY"
      BY <2>2, <2>4, <1>a
    <3>2. /\ streams' = streams /\ srv_status' = "PLAYING" /\ srv_session' = streams
          /\ srv_playing' = TRUE /\ answer' = streams /\ effects' = {} /\ inbox' = inbox \ {r}
      BY <2>4, <3>1, <1>2, Served
    <3> QED BY <2>1, <2>2, <2>4, <3>1, <3>2 DEF StatusAfter, NoAnswer, Closed
  <2>5. CASE Accepts(r) /\ r.method = "TEARDOWN"
    <3>1. /\ streams' = streams /\ srv_status' = "INIT" /\ srv_session' = 0
          /\ srv_playing' = FALSE /\ effects' = {} /\ inbox' = inbox \ {r}
          /\ srv_status # "INIT" /\ r.session = streams /\ streams # 0
      BY <2>5, <1>2, Served
    <3>2. CASE r.live
      <4>1. answer' = streams
        BY <2>5, <3>2, <1>2, Served
      <4> QED BY <2>1, <2>2, <2>5, <3>1, <3>2, <4>1 DEF StatusAfter, NoAnswer, Closed
    <3>3. CASE ~ r.live
      <4>1. answer' = answer /\ status = "PLAYING" /\ Stopped
        BY <2>5, <3>1, <3>3, <1>2, Served
      <4>2. ~ Answered
        <5>1. Answered => call.method = "TEARDOWN"
          BY <4>1, <1>a
        <5> QED BY <3>1, <5>1 DEF StatusAfter
      <4> QED BY <2>1, <3>1, <4>1, <4>2
    <3> QED BY <3>2, <3>3
  <2>6. CASE ~ Accepts(r)
    <3>1. /\ UNCHANGED <<streams, srv_status, srv_playing>> /\ effects' = {} /\ inbox' = inbox \ {r}
          /\ srv_session' = IF srv_status = "INIT" /\ r.method = "TEARDOWN"
                              THEN streams + 1 ELSE srv_session
      BY <2>6, <1>2, Served
    <3>2. CASE r.live
      <4>1. answer' = Closed
        BY <2>6, <3>2, <1>2, Served
      <4>2. status = "PLAYING" /\ srv_status = "INIT"
        BY <2>2, <2>6, <3>2, <1>2, <1>a, Served DEF Method
      <4> QED BY <2>1, <2>2, <3>1, <3>2, <4>1, <4>2
    <3>3. CASE ~ r.live
      <4>1. answer' = answer
        BY <3>3, <1>2, Served
      <4> QED BY <2>1, <3>1, <4>1
    <3> QED BY <3>2, <3>3
  <2>7. r.method \in Method
    BY DEF Message
  <2> QED BY <2>3, <2>4, <2>5, <2>6, <2>7 DEF Method
<1>3. CASE (\E m \in Method : Commit(m)) \/ EndOfStream \/ \E s \in 1 .. MaxStreams : Datagram(s)
  BY <1>3 DEF Commit, EndOfStream, Datagram
<1> QED BY <1>1, <1>2, <1>3 DEF ServerStep

LEMMA PromptStep == Inv /\ Prompt /\ [Next]_vars => Prompt'
<1> SUFFICES ASSUME Inv, Inv', Prompt, [Next]_vars, Without({"lateEffect"})
             PROVE  InOrder'
  BY SameNetwork, SafeStep DEF Prompt, Without
<1>1. CASE Next
  BY <1>1, OrderCall, OrderRest DEF Prompt, Next
<1>2. CASE UNCHANGED vars
  BY <1>2 DEF vars, stateVars, receiverVars, udpVars, serverVars, sessionVars, Prompt, InOrder,
              ServerInOrder, OldRequests, Following, Leading, ReceiverLife, Stopped, Answered
<1> QED BY <1>1, <1>2

(* Quiet waits leave the client and the server undisturbed.                *)
LEMMA CalmStep == Inv /\ Prompt /\ Calm /\ [Next]_vars => Calm'
<1> SUFFICES ASSUME Inv, Inv', InOrder, Undisturbed, [Next]_vars,
                    Without({"interrupts", "lateEffect"})
             PROVE  Undisturbed'
  BY SameNetwork, SafeStep DEF Prompt, Calm, Without
<1>0. /\ call \in Call /\ status \in {"INIT", "READY", "PLAYING"} /\ call.method \in Method
      /\ call.pc \in {"send", "await"} => call.method \in sensitive /\ call.fd \in tcp
      /\ tcp \subseteq Fd /\ udp \notin tcp
  BY NoFdIsNone DEF Inv, TypeOK, Call, ButtonsFit
<1>a. /\ status = "INIT" => sensitive = {"SETUP"}
      /\ status = "READY" => sensitive = {"PLAY", "TEARDOWN"}
      /\ status = "PLAYING" => sensitive = {"TEARDOWN"}
  BY DEF Inv, ButtonsFit
<1> USE <1>0 DEF Undisturbed, Answered, At, Call,
        stateVars, receiverVars, udpVars, serverVars, sessionVars
<1>1. ASSUME NEW m \in Method, Click(m) PROVE Undisturbed'
  BY <1>1 DEF Click
<1>2. CASE Send
  BY <1>2 DEF Send, NoAnswer, Closed
<1>3. CASE SendError
  BY <1>3 DEF SendError, NoCall
<1>4. CASE ReceiveAnswer
  <2>1. /\ Answered /\ srv_status = StatusAfter(call.method) /\ status' = srv_status
        /\ call' = AfterAnswer /\ tcp' = tcp \ {call.fd}
        /\ UNCHANGED <<udp, inbox, srv_status, async>>
    BY <1>4, AnswerValues DEF ReceiveAnswer, CloseConnection, Inv, TypeOK, InOrder, Leading
  <2>2. CASE call.method = "SETUP"
    BY <2>1, <2>2 DEF AfterAnswer, NoCall, StatusAfter
  <2>3. CASE call.method = "PLAY"
    <3>1. call'.pc = "bind" /\ status' = "PLAYING" /\ srv_status' = "PLAYING"
      BY <2>1, <2>3 DEF AfterAnswer, StatusAfter
    <3>2. call.fd \in FreeFds'
      BY <2>1 DEF FreeFds
    <3> QED BY <2>1, <3>1, <3>2
  <2>4. CASE call.method = "TEARDOWN"
    BY <2>1, <2>4 DEF AfterAnswer, StatusAfter
  <2> QED BY <2>2, <2>3, <2>4 DEF Method
<1>5. CASE Refused
  BY <1>5 DEF Refused
<1>6. CASE Bind
  <2>1. udp = NoFd /\ Min(FreeFds) # NoFd
    BY <1>6, NewNumber, NoFdIsNone DEF Bind, FreeFds, InOrder, ReceiverLife
  <2> QED BY <1>6, <2>1 DEF Bind
<1>7. CASE SetAsync
  <2>1. udp # NoFd
    BY <1>7 DEF SetAsync, Inv, ButtonsFit
  <2> QED BY <1>7, <2>1 DEF SetAsync, NoCall
<1>8. CASE StopRTPProgress
  BY <1>8 DEF StopRTPProgress, CloseReceiver, NoCall
<1>9. CASE SIGIOHandler
  <2>1. rtp_client \notin tcp /\ call.pc # "await"
    BY <1>9, NoFdIsNone DEF SIGIOHandler, Inv, TypeOK, InOrder, ReceiverLife
  <2> QED BY <1>9, <2>1 DEF SIGIOHandler, Resume, FreeFds
<1>10. ASSUME NEW r \in inbox, Serve(r) PROVE Undisturbed'
  <2>1. Without({"lateEffect"})
    BY DEF Without
  <2>2. /\ r.live /\ call.pc = "await" /\ ~ Answered
        /\ r.method = call.method /\ r.session = session_id
    BY DEF Inv, OwnRequest, InOrder, ReceiverLife
  <2>3. Accepts(r)
    BY <1>10, <1>a, <2>1, <2>2, Served DEF InOrder, Following, Method
  <2>4. answer' # NoAnswer /\ answer' # Closed /\ inbox' = inbox \ {r}
    <3>1. answer' = SessionFor(r.method) /\ inbox' = inbox \ {r}
      BY <1>10, <2>1, <2>2, <2>3, Served
    <3>2. SessionFor(r.method) \in {streams, streams + 1} /\ SessionFor(r.method) # 0
      <4>1. streams \in Nat
        BY ClientAssumption DEF Inv, TypeOK
      <4>2. CASE r.method = "SETUP"
        <5>1. SessionFor(r.method) = streams + 1
          BY <1>10, <2>1, <2>3, <4>2, Served
        <5> QED BY <4>1, <5>1
      <4>3. CASE r.method # "SETUP"
        BY <1>10, <2>1, <2>2, <2>3, <4>3, Served DEF Method, Accepts, InOrder, ServerInOrder
      <4> QED BY <4>2, <4>3
    <3>3. streams \in Nat
      BY ClientAssumption DEF Inv, TypeOK
    <3> QED BY <3>1, <3>2, <3>3 DEF NoAnswer, Closed
  <2> QED BY <1>10, <2>2, <2>4 DEF Serve, FreeFds
<1>11. CASE (\E m \in Method : Commit(m)) \/ EndOfStream
  BY <1>11 DEF Commit, EndOfStream, FreeFds, InOrder, ServerInOrder
<1>12. ASSUME NEW s \in 1 .. MaxStreams, Datagram(s) PROVE Undisturbed'
  BY <1>12 DEF Datagram, FreeFds, Without
<1>13. CASE UNCHANGED vars
  BY <1>13 DEF vars, FreeFds
<1> QED BY <1>1, <1>2, <1>3, <1>4, <1>5, <1>6, <1>7, <1>8, <1>9, <1>10, <1>11, <1>12, <1>13
        DEF Next, CallStep, ServerStep

(* What holds before a server that acts before it answers.                 *)
LEMMA InOrderAlways == Spec => [](Inv /\ Prompt /\ Calm)
<1>1. ASSUME Init PROVE Inv /\ Prompt /\ Calm
  <2>1. InOrder
    BY <1>1, ClientAssumption
    DEF Init, InOrder, ServerInOrder, OldRequests, Following, Leading, ReceiverLife, Answered, NoCall
  <2>2. Undisturbed
    BY <1>1 DEF Init, Undisturbed, NoCall
  <2> QED BY <1>1, <2>1, <2>2, SafeInit DEF Prompt, Calm
<1> QED BY <1>1, SafeStep, PromptStep, CalmStep, PTL DEF Spec

LEMMA QuietIsPrompt == Without({"interrupts", "lateEffect"}) => Without({"lateEffect"})
BY DEF Without

(* rtp_client never outlives its socket, interrupted waits and failing     *)
(* sends or not: the number it has is that of the RTP socket, so that the  *)
(* handler reads, and stopRTPProgress closes, no other.                    *)
THEOREM NamesItsSocket == Spec => []OwnDescriptor
<1>1. Prompt => OwnDescriptor
  BY DEF Prompt, InOrder, ReceiverLife, OwnDescriptor
<1> QED BY <1>1, InOrderAlways, PTL

(* So the handler never waits for the answer that the callback it          *)
(* interrupts is to read.                                                  *)
THEOREM NeverStuck == Spec => [](Without({"lateEffect"}) => call.pc # "stuck")
<1>1. Prompt => (Without({"lateEffect"}) => call.pc # "stuck")
  BY DEF Prompt, InOrder, ReceiverLife
<1> QED BY <1>1, InOrderAlways, PTL

(* The RTP port is free for the next PLAY whenever the client does not     *)
(* play: a TEARDOWN whose wait is interrupted stops the receiver too.      *)
THEOREM PortIsReleased == Spec => []PortReleased
<1>1. Prompt => PortReleased
  BY DEF Prompt, InOrder, ReceiverLife, PortReleased, Idle
<1> QED BY <1>1, InOrderAlways, PTL

(* Between callbacks client and server agree on the session, for any       *)
(* number of sessions and any sends that fail.                             *)
THEOREM AgreeIfPrompt == Spec => []AgreementIfPrompt
<1>1. ASSUME Inv, Prompt, Calm PROVE AgreementIfPrompt
  <2> SUFFICES ASSUME InOrder, Undisturbed, Idle
               PROVE  /\ status = srv_status
                      /\ status # "INIT" => session_id = srv_session
    BY <1>1, QuietIsPrompt DEF Prompt, Calm, AgreementIfPrompt, Agreement
  <2>1. ~ Answered
    BY DEF Idle, Answered
  <2>2. status \in {"INIT", "READY", "PLAYING"}
    BY <1>1 DEF Inv, TypeOK
  <2> QED BY <2>1, <2>2 DEF InOrder, Following, ServerInOrder, Undisturbed
<1> QED BY <1>1, InOrderAlways, PTL

(* A client that plays receives: its port is bound, datagrams raise SIGIO, *)
(* and the handler reads the socket they come to.                          *)
THEOREM ReceivesWhilePlaying == Spec => []ReceiverReady
<1>1. ASSUME Inv, Prompt, Calm PROVE ReceiverReady
  BY <1>1, QuietIsPrompt
  DEF Prompt, Calm, InOrder, ReceiverLife, Undisturbed, ReceiverReady, Idle
<1> QED BY <1>1, InOrderAlways, PTL

------------------------------------------------------------------------------
(* The server's part of a step is one of the session's, or none: only a    *)
(* request that is served and the end of the stream change it.             *)
LEMMA SessionStep ==
  ASSUME Inv, InOrder, [Next]_vars, Without({"lateEffect"})
  PROVE  Session!Next \/ UNCHANGED Session!vars
<1>1. ASSUME UNCHANGED <<srv_status, srv_session, srv_playing>>
      PROVE  UNCHANGED Session!vars
  BY <1>1 DEF Session!vars
<1>2. ASSUME NEW r \in inbox, Serve(r)
      PROVE  Session!Next \/ UNCHANGED Session!vars
  <2>1. r.method \in Method /\ streams \in 0 .. MaxStreams
    BY DEF Inv, TypeOK, Message
  <2>2. srv_status # "INIT" => srv_session = streams
    BY DEF InOrder, ServerInOrder
  <2>3. srv_playing => srv_status = "PLAYING"
    BY DEF InOrder, ServerInOrder
  <2>4. CASE Accepts(r) /\ r.method = "SETUP"
    <3>1. /\ srv_status = "INIT" /\ srv_status' = "READY" /\ srv_session' = streams + 1
          /\ srv_playing' = srv_playing
      BY <1>2, <2>4, Served
    <3>2. streams + 1 \in 1 .. MaxStreams + 1
      BY <2>1, ClientAssumption
    <3>3. Session!Setup
      BY <3>1, <3>2 DEF Session!Setup
    <3> QED BY <3>3 DEF Session!Next
  <2>5. CASE Accepts(r) /\ r.method = "PLAY"
    <3>1. /\ srv_status # "INIT" /\ srv_status' = "PLAYING" /\ srv_session' = streams
          /\ srv_playing' = TRUE
      BY <1>2, <2>5, Served
    <3>2. Session!Play
      BY <2>2, <3>1 DEF Session!Play
    <3> QED BY <3>2 DEF Session!Next
  <2>6. CASE Accepts(r) /\ r.method = "TEARDOWN"
    <3>1. srv_status # "INIT" /\ srv_status' = "INIT" /\ srv_playing' = FALSE
      BY <1>2, <2>6, Served
    <3>2. Session!Teardown
      BY <3>1 DEF Session!Teardown
    <3> QED BY <3>2 DEF Session!Next
  <2>7. CASE ~ Accepts(r)
    BY <1>2, <2>7, Served DEF Session!vars
  <2> QED BY <2>1, <2>4, <2>5, <2>6, <2>7 DEF Method
<1>3. CASE EndOfStream
  <2>1. Session!EndOfStream
    BY <1>3 DEF EndOfStream, Session!EndOfStream
  <2> QED BY <2>1 DEF Session!Next
<1>4. ASSUME NEW m \in Method, Commit(m) PROVE FALSE
  BY <1>4 DEF Commit, InOrder, ServerInOrder
<1>5. CASE \/ (\E m \in Method : Click(m)) \/ CallStep \/ SIGIOHandler
           \/ (\E s \in 1 .. MaxStreams : Datagram(s)) \/ UNCHANGED vars
  <2>1. UNCHANGED <<srv_status, srv_session, srv_playing>>
    BY <1>5 DEF CallStep, Click, Send, SendError, ReceiveAnswer, Refused, Bind, SetAsync,
                StopRTPProgress, SIGIOHandler, Datagram, vars, serverVars, sessionVars
  <2> QED BY <1>1, <2>1
<1> QED BY <1>2, <1>3, <1>4, <1>5 DEF Next, ServerStep

(* To its client the server is the session of RtspSession, whatever the    *)
(* client's sends, its waits and the network do: a request left behind by  *)
(* an interrupted wait is a step of it too, or changes nothing.            *)
THEOREM ServesSession == Spec => ServerIsSession
<1>1. ASSUME Inv, Prompt, [Next]_vars
      PROVE  [Without({"lateEffect"}) => Session!Next \/ UNCHANGED Session!vars]_vars
  BY <1>1, SessionStep DEF Prompt
<1> QED BY <1>1, InOrderAlways, PTL DEF Spec, ServerIsSession
==============================================================================
