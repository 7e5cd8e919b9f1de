-------------------------- MODULE ServerDescriptors --------------------------
(***************************************************************************)
(* The descriptor table of the server.  Listening socket, connections,     *)
(* video files and the socket of a packet take their numbers from one      *)
(* table, always the lowest that is free, and a number names whatever has  *)
(* it now.                                                                 *)
(*                                                                         *)
(* A request thread closes the number of its connection three times: by    *)
(* the fclose of the stream it answers on, by close, and by the fclose of  *)
(* the stream it reads from.  In between the number may have been given    *)
(* away.  What a thread then does to another's descriptor is part of the   *)
(* model; what it reads there is taken to be anything.                     *)
(***************************************************************************)
EXTENDS Integers, Sequences, FiniteSetsExt, SequencesExt

CONSTANTS
  Fd,            \* descriptor numbers
  Thread,        \* request threads that can exist at the same time
  Handlers,      \* executions of catchAlarm that can be in progress
  AddressLists,  \* what getaddrinfo may give for the listening socket
  Spacing        \* the values of apart to be checked

ASSUME DescriptorAssumption ==
  /\ Fd \subseteq Nat
  /\ Thread \cap Handlers = {}
  /\ AddressLists \subseteq Seq({"no socket", "no bind", "good"}) \ {<<>>}
  /\ Spacing \subseteq BOOLEAN

VARIABLES
  apart,          \* never changes: do requests come one at a time, and does
                  \* a handler run to its end before other code does?
  addresses,      \* never changes: the addresses of the listening socket
  tried,          \* number of them tried, all once there is a listener
  server_socket,
  owner,          \* owner[n]: what has the number n
  proc,           \* the threads and handlers: step, connection, file or socket
  streaming,      \* is the RTP timer armed?
  up              \* FALSE once the process has faulted

setupVars == <<apart, addresses, tried, server_socket>>
vars == <<setupVars, owner, proc, streaming, up>>

NoFd == -1
Free == <<>>
Listener == <<"listen">>
Connection(t) == <<"connection", t>>
VideoOf(p) == <<"video", p>>
PacketSocket(h) == <<"packet", h>>

Kinds == {Free, Listener} \cup ({"connection", "video", "packet"} \X (Thread \cup Handlers))

NoWork == [pc |-> "idle", conn |-> NoFd, other |-> NoFd, method |-> "none"]

(* Each value is of its kind.                                              *)
TypeOK ==
  /\ apart \in Spacing
  /\ addresses \in AddressLists
  /\ tried \in 0 .. Len(addresses)
  /\ server_socket \in Fd \cup {NoFd}
  /\ owner \in [Fd -> Kinds]
  /\ proc \in [Thread \cup Handlers ->
       [pc : {"idle", "read", "open", "scan", "answer", "close", "fclose",
              "build", "socket", "send"},
        conn : Fd \cup {NoFd}, other : Fd \cup {NoFd},
        method : {"none", "SETUP", "PLAY", "TEARDOWN"}]]
  /\ streaming \in BOOLEAN
  /\ up \in BOOLEAN

Init ==
  /\ apart \in Spacing
  /\ addresses \in AddressLists
  /\ tried = 0
  /\ server_socket = NoFd
  /\ owner = [n \in Fd |-> Free]
  /\ proc = [p \in Thread \cup Handlers |-> NoWork]
  /\ streaming = FALSE
  /\ up = TRUE

FreeFds == {n \in Fd : owner[n] = Free}

(* open, socket and accept                                                 *)
Take(n, what) ==
  /\ n \in FreeFds
  /\ n = Min(FreeFds)
  /\ owner' = [owner EXCEPT ![n] = what]

(* close, which fails without harm on a number that is free                *)
Release(n) == owner' = [owner EXCEPT ![n] = Free]

Idle(P) == \A p \in P : proc[p].pc = "idle"

(* A call that gives no descriptor is reported by perror and its result is *)
(* used all the same: the next library call faults on a NULL stream.       *)
Fault ==
  /\ up' = FALSE
  /\ UNCHANGED <<setupVars, owner, proc, streaming>>

------------------------------------------------------------------------------
(* Seeded fault: the loop is entered once more after the last address.     *)
TryAddress_again ==
  /\ tried <= Len(addresses)
  /\ addresses[1] # "good"
  /\ server_socket' = NoFd
  /\ tried' = tried + 1
  /\ UNCHANGED <<apart, addresses, owner, proc, streaming, up>>

(* setupServerTCPSocket.  The loop goes through the addresses but uses the *)
(* first one each time, and keeps the number of a socket it has closed.    *)
TryAddress ==
  /\ tried < Len(addresses)
  /\ IF addresses[1] = "no socket"
       THEN server_socket' = NoFd /\ owner' = owner
       ELSE \E n \in Fd :
              /\ n = Min(FreeFds) /\ server_socket' = n
              /\ IF addresses[1] = "good" THEN Take(n, Listener) ELSE owner' = owner
  /\ tried' = IF addresses[1] = "good" THEN Len(addresses) ELSE tried + 1
  /\ UNCHANGED <<apart, addresses, proc, streaming, up>>

Started == tried = Len(addresses)

Listening == server_socket # NoFd /\ owner[server_socket] = Listener

(* The main thread: accept, and a thread for the connection.               *)
Accept(t) ==
  /\ up /\ Started /\ Listening
  /\ proc[t].pc = "idle"
  /\ apart => Idle(Thread \cup Handlers)
  /\ \E n \in Fd :
       /\ Take(n, Connection(t))
       /\ proc' = [proc EXCEPT ![t] = [NoWork EXCEPT !.pc = "read", !.conn = n]]
  /\ UNCHANGED <<setupVars, streaming, up>>

(* accept fails.  The thread it starts all the same reads a NULL stream.   *)
AcceptFails ==
  /\ up /\ Started
  /\ ~ Listening \/ FreeFds = {}
  /\ apart => Idle(Thread \cup Handlers)
  /\ \E t \in Thread : proc[t].pc = "idle"
  /\ Fault

------------------------------------------------------------------------------
(* A request thread.                                                       *)

At(t, pc) ==
  /\ up
  /\ proc[t].pc = pc
  /\ apart => Idle(Handlers)

Goto(p, pc) == proc' = [proc EXCEPT ![p].pc = pc, ![p].other = NoFd]

(* The stream the thread opens on its number, and what it reads there.     *)
Read(t) ==
  /\ At(t, "read")
  /\ owner[proc[t].conn] # Free
  /\ \E m \in {"SETUP", "PLAY", "TEARDOWN", "refused"} :
       proc' = [proc EXCEPT ![t].method = IF m = "refused" THEN "none" ELSE m,
                            ![t].pc = CASE m = "SETUP" -> "open"
                                        [] m = "refused" -> "close"
                                        [] OTHER -> "answer"]
  /\ UNCHANGED <<setupVars, owner, streaming, up>>

(* fdopen fails on a number that is free, and any connection may end       *)
(* without a request: then syntaxChecking gives the NULL of fgets to       *)
(* regexec.                                                                *)
ReadFails(t) ==
  /\ At(t, "read")
  /\ Fault

OpenVideo(t) ==
  /\ At(t, "open")
  /\ \E n \in Fd :
       /\ Take(n, VideoOf(t))
       /\ proc' = [proc EXCEPT ![t].pc = "scan", ![t].other = n]
  /\ UNCHANGED <<setupVars, streaming, up>>

(* Seeded fault: the video file stays open.                                *)
CloseVideo_leak(t) ==
  /\ At(t, "scan")
  /\ owner' = owner
  /\ Goto(t, "answer")
  /\ UNCHANGED <<setupVars, streaming, up>>

CloseVideo(t) ==
  /\ At(t, "scan")
  /\ Release(proc[t].other)
  /\ Goto(t, "answer")
  /\ UNCHANGED <<setupVars, streaming, up>>

Writable(n) == owner[n] # Free /\ Head(owner[n]) # "video"

(* constructResponseMessage, whose fclose is the first of the three; then  *)
(* PLAY and TEARDOWN take effect.                                          *)
Answer(t) ==
  /\ At(t, "answer")
  /\ Writable(proc[t].conn)
  /\ Release(proc[t].conn)
  /\ streaming' = CASE proc[t].method = "PLAY" -> TRUE
                    [] proc[t].method = "TEARDOWN" -> FALSE
                    [] OTHER -> streaming
  /\ proc' = [proc EXCEPT ![t].pc = "close", ![t].method = "none"]
  /\ UNCHANGED <<setupVars, up>>

AnswerFails(t) ==
  /\ At(t, "answer")
  /\ ~ Writable(proc[t].conn)
  /\ Fault

(* Seeded fault: nothing is closed after respondClientRequest.             *)
Close_forgotten(t) ==
  /\ At(t, "close")
  /\ owner' = owner
  /\ proc' = [proc EXCEPT ![t] = NoWork]
  /\ UNCHANGED <<setupVars, streaming, up>>

Close(t) ==
  /\ At(t, "close")
  /\ Release(proc[t].conn)
  /\ Goto(t, "fclose")
  /\ UNCHANGED <<setupVars, streaming, up>>

(* Seeded fault: the listening socket is closed instead.                   *)
CloseStream_listener(t) ==
  /\ At(t, "fclose")
  /\ Release(server_socket)
  /\ proc' = [proc EXCEPT ![t] = NoWork]
  /\ UNCHANGED <<setupVars, streaming, up>>

CloseStream(t) ==
  /\ At(t, "fclose")
  /\ Release(proc[t].conn)
  /\ proc' = [proc EXCEPT ![t] = NoWork]
  /\ UNCHANGED <<setupVars, streaming, up>>

NoDescriptorLeft(p) ==
  /\ up
  /\ proc[p].pc \in {"open", "socket"}
  /\ apart /\ p \in Thread => Idle(Handlers)
  /\ FreeFds = {}
  /\ Fault

ThreadStep(t) ==
  \/ Read(t)
  \/ ReadFails(t)
  \/ OpenVideo(t)
  \/ CloseVideo(t)
  \/ Answer(t)
  \/ AnswerFails(t)
  \/ Close(t)
  \/ CloseStream(t)
  \/ NoDescriptorLeft(t)

------------------------------------------------------------------------------
(* The handler of the timer, between other code or in the middle of it.    *)

MayRun(h) == up /\ (apart => Idle(Handlers \ {h}))

(* constructRTPPacket opens the file.                                      *)
OpenFrame(h) ==
  /\ MayRun(h) /\ streaming
  /\ proc[h].pc = "idle"
  /\ \E n \in Fd :
       /\ Take(n, VideoOf(h))
       /\ proc' = [proc EXCEPT ![h].pc = "build", ![h].other = n]
  /\ UNCHANGED <<setupVars, streaming, up>>

CloseFrame(h) ==
  /\ MayRun(h)
  /\ proc[h].pc = "build"
  /\ Release(proc[h].other)
  /\ Goto(h, "socket")
  /\ UNCHANGED <<setupVars, streaming, up>>

(* setupServerUDPSocket: rtp_address is one numeric address.               *)
OpenSocket(h) ==
  /\ MayRun(h)
  /\ proc[h].pc = "socket"
  /\ \E n \in Fd :
       /\ Take(n, PacketSocket(h))
       /\ proc' = [proc EXCEPT ![h].pc = "send", ![h].other = n]
  /\ UNCHANGED <<setupVars, streaming, up>>

(* Seeded fault: the socket of a packet stays open.                        *)
CloseSocket_leak(h) ==
  /\ MayRun(h)
  /\ proc[h].pc = "send"
  /\ owner' = owner
  /\ proc' = [proc EXCEPT ![h] = NoWork]
  /\ UNCHANGED <<setupVars, streaming, up>>

CloseSocket(h) ==
  /\ MayRun(h)
  /\ proc[h].pc = "send"
  /\ Release(proc[h].other)
  /\ proc' = [proc EXCEPT ![h] = NoWork]
  /\ UNCHANGED <<setupVars, streaming, up>>

(* The last frame has been sent.                                           *)
EndOfStream(h) ==
  /\ MayRun(h) /\ streaming
  /\ proc[h].pc = "idle"
  /\ streaming' = FALSE
  /\ UNCHANGED <<setupVars, owner, proc, up>>

(* fopen of the file finds no number free.                                 *)
OpenFrameFails(h) ==
  /\ MayRun(h) /\ streaming
  /\ proc[h].pc = "idle"
  /\ FreeFds = {}
  /\ Fault

HandlerStep(h) ==
  \/ OpenFrame(h)
  \/ OpenFrameFails(h)
  \/ CloseFrame(h)
  \/ OpenSocket(h)
  \/ CloseSocket(h)
  \/ EndOfStream(h)
  \/ NoDescriptorLeft(h)

Next ==
  \/ TryAddress
  \/ AcceptFails
  \/ \E t \in Thread : Accept(t) \/ ThreadStep(t)
  \/ \E h \in Handlers : HandlerStep(h)

Spec == Init /\ [][Next]_vars

(* Threads and handlers are scheduled.  Handlers delay a thread but do not *)
(* starve it: they run once in 70 ms.  No connection has to come.          *)
FairSpec ==
  /\ Spec
  /\ \A t \in Thread : SF_vars(ThreadStep(t))
  /\ \A h \in Handlers : WF_vars(HandlerStep(h))

------------------------------------------------------------------------------
GivenUpByOwner(n) ==
  Len(owner[n]) = 2 /\ proc'[owner[n][2]] # proc[owner[n][2]]

NoneTakenAway == \A n \in Fd : owner[n] \notin {Free, owner'[n]} => GivenUpByOwner(n)

(* A descriptor is closed by the thread or handler it belongs to: no step  *)
(* of another takes its number away, and none closes the listener.         *)
OwnDescriptors == [][NoneTakenAway]_vars

(* The three closes are harmless as long as requests come apart and a      *)
(* handler is not interleaved with other code.                             *)
OwnDescriptorsApart == [][apart => NoneTakenAway]_vars

(* Whatever the interleaving, and whoever's descriptor is closed, none is  *)
(* lost: each open one belongs to a thread or handler that still has its   *)
(* number and a close of it to come.                                       *)
HasCloser(n) ==
  LET p == owner[n][2] IN
  /\ Head(owner[n]) = "connection" =>
       proc[p].conn = n /\ proc[p].pc \in {"read", "open", "scan", "answer", "close"}
  /\ Head(owner[n]) = "video" => proc[p].other = n /\ proc[p].pc \in {"scan", "build"}
  /\ Head(owner[n]) = "packet" => proc[p].other = n /\ proc[p].pc = "send"

NoLeak == \A n \in Fd : owner[n] \notin {Free, Listener} => HasCloser(n)

(* Four numbers are enough for any number of requests and packets, for the *)
(* listener, a connection, its video file, and one of the handler's: main  *)
(* can accept, one is free whenever a thread or a handler that has none of *)
(* its own may open a file or a socket, and a request can be answered.     *)
NeverRunsOut ==
  apart /\ Cardinality(Fd) >= 4 /\ addresses[1] = "good" =>
    /\ Started => Listening
    /\ (\A h \in Handlers : proc[h].pc \in {"idle", "socket"}) => FreeFds # {}
    /\ \A t \in Thread : proc[t].pc = "answer" => Writable(proc[t].conn)

(* The client of each connection sees its end.                             *)
ConnectionEnds ==
  \A t \in Thread :
    (apart /\ \E n \in Fd : owner[n] = Connection(t))
      ~> (~ up \/ \A n \in Fd : owner[n] # Connection(t))
==============================================================================
