------------------------ MODULE ServerDescriptorsProofs ----------------------
(***************************************************************************)
(* Theorems about ServerDescriptors, for all numbers of threads, handlers  *)
(* and descriptors.                                                        *)
(***************************************************************************)
EXTENDS ServerDescriptors, FiniteSetTheorems, SequenceTheorems, TLAPS

Worker == Thread \cup Handlers

(* Who has a number can be told from its owner.                            *)
LEMMA KindsDiffer ==
  ASSUME NEW p, NEW q
  PROVE  /\ Connection(p) \notin {Free, Listener, VideoOf(q), PacketSocket(q)}
         /\ VideoOf(p) \notin {Free, Listener, PacketSocket(q)}
         /\ PacketSocket(p) \notin {Free, Listener}
         /\ Connection(p) = Connection(q) => p = q
         /\ VideoOf(p) = VideoOf(q) => p = q
         /\ PacketSocket(p) = PacketSocket(q) => p = q
         /\ Free # Listener
BY DEF Connection, VideoOf, PacketSocket, Free, Listener

(* Nothing else owns a number.                                             *)
LEMMA KindsCovered ==
  ASSUME NEW k \in Kinds
  PROVE  \/ k \in {Free, Listener}
         \/ \E p \in Worker : k \in {Connection(p), VideoOf(p), PacketSocket(p)}
BY DEF Kinds, Worker, Connection, VideoOf, PacketSocket, Free, Listener

(* All of these are values owner may have.                                 *)
LEMMA KindsTyped ==
  /\ Free \in Kinds /\ Listener \in Kinds
  /\ \A p \in Worker : {Connection(p), VideoOf(p), PacketSocket(p)} \subseteq Kinds
BY DEF Kinds, Worker, Connection, VideoOf, PacketSocket, Free, Listener

(* The worker in an owner is its second part.                              *)
LEMMA KindParts ==
  ASSUME NEW p
  PROVE  /\ Head(Connection(p)) = "connection" /\ Connection(p)[2] = p /\ Len(Connection(p)) = 2
         /\ Head(VideoOf(p)) = "video" /\ VideoOf(p)[2] = p /\ Len(VideoOf(p)) = 2
         /\ Head(PacketSocket(p)) = "packet" /\ PacketSocket(p)[2] = p /\ Len(PacketSocket(p)) = 2
         /\ Len(Free) = 0 /\ Len(Listener) = 1
BY DEF Connection, VideoOf, PacketSocket, Free, Listener

------------------------------------------------------------------------------
(* The inductive invariant.                                                *)

(* Nothing is open or runs before there is a listening socket.             *)
QuietStart ==
  ~ Started => (\A n \in Fd : owner[n] = Free) /\ Idle(Worker) /\ ~ streaming

(* NoLeak, for each kind of descriptor.                                    *)
HeldBy(n, p) ==
  /\ owner[n] = Connection(p) =>
       proc[p].conn = n /\ proc[p].pc \in {"read", "open", "scan", "answer", "close"}
  /\ owner[n] = VideoOf(p) => proc[p].other = n /\ proc[p].pc \in {"scan", "build"}
  /\ owner[n] = PacketSocket(p) => proc[p].other = n /\ proc[p].pc = "send"

AllHeld == \A n \in Fd, p \in Worker : HeldBy(n, p)

(* A request thread that runs has a connection's number.                   *)
Connected == \A t \in Thread : proc[t].pc # "idle" => proc[t].conn \in Fd

(* Apart, one thread and one handler run at most ...                       *)
AtMostOne(P) == \A p, q \in P : proc[p].pc # "idle" /\ proc[q].pc # "idle" => p = q

(* ... a worker still has what it will close, until the first of the three *)
(* closes, and the other two never find the listener.                      *)
Holds(p) ==
  /\ p \in Thread /\ proc[p].pc \in {"read", "open", "scan", "answer"} =>
       owner[proc[p].conn] = Connection(p)
  /\ p \in Thread /\ proc[p].pc \in {"close", "fclose"} => owner[proc[p].conn] # Listener
  /\ proc[p].pc \in {"scan", "build"} =>
       proc[p].other \in Fd /\ owner[proc[p].other] = VideoOf(p)
  /\ proc[p].pc = "send" =>
       proc[p].other \in Fd /\ owner[proc[p].other] = PacketSocket(p)

InOrder ==
  apart => AtMostOne(Thread) /\ AtMostOne(Handlers) /\ \A p \in Worker : Holds(p)

Inv == TypeOK /\ QuietStart /\ AllHeld /\ Connected /\ InOrder

------------------------------------------------------------------------------
(* Type correctness.                                                       *)

(* The records of the threads and handlers after a change of one of them.  *)
Work ==
  [pc : {"idle", "read", "open", "scan", "answer", "close", "fclose", "build", "socket", "send"},
   conn : Fd \cup {NoFd}, other : Fd \cup {NoFd},
   method : {"none", "SETUP", "PLAY", "TEARDOWN"}]

(* A sequence has a length ...                                             *)
LEMMA LengthIsNat ==
  ASSUME NEW S, NEW s \in Seq(S)
  PROVE  Len(s) \in Nat
OBVIOUS

(* ... and so has each list of addresses.                                  *)
LEMMA ListsHaveLength ==
  ASSUME addresses \in AddressLists
  PROVE  Len(addresses) \in Nat
<1>1. addresses \in Seq({"no socket", "no bind", "good"})
  BY DescriptorAssumption
<1> QED BY <1>1, LengthIsNat

(* main starts with values of their kinds.                                 *)
LEMMA TypeInit == Init => TypeOK
<1> SUFFICES ASSUME Init PROVE TypeOK
  OBVIOUS
<1>1. Len(addresses) \in Nat
  BY ListsHaveLength DEF Init
<1>2. tried \in 0 .. Len(addresses)
  BY <1>1 DEF Init
<1>3. owner \in [Fd -> Kinds]
  BY KindsTyped DEF Init
<1>4. proc \in [Worker -> Work]
  BY DEF Init, Work, Worker, NoWork
<1> QED BY <1>2, <1>3, <1>4 DEF Init, TypeOK, Work, Worker

(* Each step of the server gives values of their kinds.                    *)
LEMMA TypeNext ==
  ASSUME TypeOK, Next
  PROVE  TypeOK'
<1>0. /\ owner \in [Fd -> Kinds] /\ proc \in [Worker -> Work]
      /\ apart \in Spacing /\ addresses \in AddressLists
      /\ tried \in 0 .. Len(addresses) /\ server_socket \in Fd \cup {NoFd}
      /\ streaming \in BOOLEAN /\ up \in BOOLEAN
  BY DEF TypeOK, Worker, Work
<1> SUFFICES /\ owner' \in [Fd -> Kinds] /\ proc' \in [Worker -> Work]
             /\ apart' \in Spacing /\ addresses' \in AddressLists
             /\ tried' \in 0 .. Len(addresses') /\ server_socket' \in Fd \cup {NoFd}
             /\ streaming' \in BOOLEAN /\ up' \in BOOLEAN
  BY DEF TypeOK, Worker, Work
<1> USE DEF setupVars
<1>1. CASE TryAddress
  <2>1. owner' \in [Fd -> Kinds]
    BY <1>0, <1>1, KindsTyped DEF TryAddress, Take
  <2>2. tried' \in 0 .. Len(addresses)
    <3>1. tried < Len(addresses) /\ tried' \in {Len(addresses), tried + 1}
      BY <1>1 DEF TryAddress
    <3> QED BY <1>0, <3>1, ListsHaveLength
  <2>3. server_socket' \in Fd \cup {NoFd}
    BY <1>1 DEF TryAddress
  <2> QED BY <1>0, <1>1, <2>1, <2>2, <2>3 DEF TryAddress
<1>2. CASE Fault
  BY <1>0, <1>2 DEF Fault
<1>3. ASSUME NEW n \in Fd, NEW k \in Kinds
      PROVE  /\ Take(n, k) => owner' \in [Fd -> Kinds]
             /\ Release(n) => owner' \in [Fd -> Kinds]
  BY <1>0, KindsTyped DEF Take, Release
<1>4. ASSUME NEW t \in Thread, Accept(t) \/ ThreadStep(t), ~ Fault
      PROVE  /\ owner' \in [Fd -> Kinds] /\ proc' \in [Worker -> Work]
             /\ UNCHANGED <<setupVars, up>> /\ streaming' \in BOOLEAN
  <2>0. t \in Worker /\ proc[t] \in Work
    BY <1>0 DEF Worker
  <2>1. CASE Accept(t)
    <3>1. PICK n \in Fd : /\ Take(n, Connection(t))
                         /\ proc' = [proc EXCEPT ![t] = [NoWork EXCEPT !.pc = "read", !.conn = n]]
      BY <2>1 DEF Accept
    <3>2. owner' \in [Fd -> Kinds]
      BY <2>0, <3>1, <1>3, KindsTyped
    <3>3. proc' \in [Worker -> Work]
      BY <1>0, <2>0, <3>1 DEF Work, NoWork
    <3>4. UNCHANGED <<setupVars, up, streaming>>
      BY <2>1 DEF Accept
    <3> QED BY <1>0, <3>2, <3>3, <3>4
  <2>2. CASE Read(t)
    <3>1. PICK r \in {"none", "SETUP", "PLAY", "TEARDOWN"}, pc \in {"open", "close", "answer"} :
            proc' = [proc EXCEPT ![t].method = r, ![t].pc = pc]
      BY <2>2 DEF Read
    <3>2. proc' \in [Worker -> Work]
      BY <1>0, <2>0, <3>1 DEF Work
    <3> QED BY <1>0, <2>2, <3>2 DEF Read
  <2>3. CASE OpenVideo(t)
    <3>1. PICK n \in Fd : /\ Take(n, VideoOf(t))
                         /\ proc' = [proc EXCEPT ![t].pc = "scan", ![t].other = n]
      BY <2>3 DEF OpenVideo
    <3>2. owner' \in [Fd -> Kinds]
      BY <2>0, <3>1, <1>3, KindsTyped
    <3>3. proc' \in [Worker -> Work]
      BY <1>0, <2>0, <3>1 DEF Work, NoWork
    <3>4. UNCHANGED <<setupVars, up, streaming>>
      BY <2>3 DEF OpenVideo
    <3> QED BY <1>0, <3>2, <3>3, <3>4
  <2>4. CASE CloseVideo(t)
    BY <1>0, <2>0, <2>4, KindsTyped DEF CloseVideo, Release, Goto, Work
  <2>5. CASE Answer(t)
    BY <1>0, <2>0, <2>5, KindsTyped DEF Answer, Release, Work
  <2>6. CASE Close(t)
    BY <1>0, <2>0, <2>6, KindsTyped DEF Close, Release, Goto, Work
  <2>7. CASE CloseStream(t)
    BY <1>0, <2>0, <2>7, KindsTyped DEF CloseStream, Release, NoWork, Work
  <2> QED BY <1>4, <2>1, <2>2, <2>3, <2>4, <2>5, <2>6, <2>7
          DEF ThreadStep, ReadFails, AnswerFails, NoDescriptorLeft
<1>5. ASSUME NEW h \in Handlers, HandlerStep(h), ~ Fault
      PROVE  /\ owner' \in [Fd -> Kinds] /\ proc' \in [Worker -> Work]
             /\ UNCHANGED <<setupVars, up>> /\ streaming' \in BOOLEAN
  <2>0. h \in Worker /\ proc[h] \in Work
    BY <1>0 DEF Worker
  <2>1. CASE OpenFrame(h)
    <3>1. PICK n \in Fd : /\ Take(n, VideoOf(h))
                         /\ proc' = [proc EXCEPT ![h].pc = "build", ![h].other = n]
      BY <2>1 DEF OpenFrame
    <3>2. owner' \in [Fd -> Kinds]
      BY <2>0, <3>1, <1>3, KindsTyped
    <3>3. proc' \in [Worker -> Work]
      BY <1>0, <2>0, <3>1 DEF Work, NoWork
    <3>4. UNCHANGED <<setupVars, up, streaming>>
      BY <2>1 DEF OpenFrame
    <3> QED BY <1>0, <3>2, <3>3, <3>4
  <2>2. CASE CloseFrame(h)
    BY <1>0, <2>0, <2>2, KindsTyped DEF CloseFrame, Release, Goto, Work
  <2>3. CASE OpenSocket(h)
    <3>1. PICK n \in Fd : /\ Take(n, PacketSocket(h))
                         /\ proc' = [proc EXCEPT ![h].pc = "send", ![h].other = n]
      BY <2>3 DEF OpenSocket
    <3>2. owner' \in [Fd -> Kinds]
      BY <2>0, <3>1, <1>3, KindsTyped
    <3>3. proc' \in [Worker -> Work]
      BY <1>0, <2>0, <3>1 DEF Work, NoWork
    <3>4. UNCHANGED <<setupVars, up, streaming>>
      BY <2>3 DEF OpenSocket
    <3> QED BY <1>0, <3>2, <3>3, <3>4
  <2>4. CASE CloseSocket(h)
    BY <1>0, <2>0, <2>4, KindsTyped DEF CloseSocket, Release, NoWork, Work
  <2>5. CASE EndOfStream(h)
    BY <1>0, <2>5 DEF EndOfStream
  <2> QED BY <1>5, <2>1, <2>2, <2>3, <2>4, <2>5 DEF HandlerStep, OpenFrameFails, NoDescriptorLeft
<1> QED BY <1>0, <1>1, <1>2, <1>4, <1>5 DEF Next, AcceptFails

------------------------------------------------------------------------------
(* Nothing is left open.                                                   *)

(* A worker that changes its own record, gives numbers up and takes some   *)
(* for itself disturbs no other.                                           *)
LEMMA HeldStep ==
  ASSUME AllHeld, NEW p \in Worker,
         \A q \in Worker \ {p} : proc'[q] = proc[q],
         \A m \in Fd : owner'[m] \in {owner[m], Free, Connection(p), VideoOf(p), PacketSocket(p)},
         \A m \in Fd : HeldBy(m, p)'
  PROVE  AllHeld'
<1> SUFFICES ASSUME NEW m \in Fd, NEW q \in Worker \ {p}
             PROVE  HeldBy(m, q)'
  BY DEF AllHeld
<1>1. HeldBy(m, q) /\ proc'[q] = proc[q]
  BY DEF AllHeld
<1>2. owner'[m] # owner[m] => owner'[m] \notin {Connection(q), VideoOf(q), PacketSocket(q)}
  BY KindsDiffer
<1> QED BY <1>1, <1>2 DEF HeldBy

(* So does a step that changes neither owners nor records.                 *)
LEMMA HeldUnchanged ==
  ASSUME AllHeld, UNCHANGED <<owner, proc>>
  PROVE  AllHeld'
BY DEF AllHeld, HeldBy

(* What a request thread opens it holds until it closes it.                *)
LEMMA ThreadHeld ==
  ASSUME TypeOK, AllHeld, NEW t \in Thread, Accept(t) \/ ThreadStep(t)
  PROVE  AllHeld'
<1>0. t \in Worker /\ proc \in [Worker -> Work] /\ proc[t] \in Work /\ owner \in [Fd -> Kinds]
  BY DEF TypeOK, Worker, Work
<1>1. \A m \in Fd : HeldBy(m, t)
  BY <1>0 DEF AllHeld
<1>2. CASE Accept(t)
  <2>1. PICK n \in Fd : /\ owner' = [owner EXCEPT ![n] = Connection(t)]
                        /\ proc' = [proc EXCEPT ![t] = [NoWork EXCEPT !.pc = "read", !.conn = n]]
    BY <1>2 DEF Accept, Take
  <2>2. proc[t].pc = "idle" /\ proc'[t].pc = "read" /\ proc'[t].conn = n
    BY <1>0, <1>2, <2>1 DEF Accept, NoWork
  <2>3. \A m \in Fd : HeldBy(m, t)'
    BY <1>0, <1>1, <2>1, <2>2, KindsDiffer DEF HeldBy
  <2> QED BY <1>0, <2>1, <2>3, HeldStep
<1>3. CASE Read(t)
  <2>1. PICK r \in {"none", "SETUP", "PLAY", "TEARDOWN"}, pc \in {"open", "close", "answer"} :
          proc' = [proc EXCEPT ![t].method = r, ![t].pc = pc]
    BY <1>3 DEF Read
  <2>2. /\ proc[t].pc = "read" /\ proc'[t].pc \in {"open", "close", "answer"}
        /\ proc'[t].conn = proc[t].conn /\ owner' = owner
    BY <1>0, <1>3, <2>1 DEF Read, At, Work
  <2>3. \A m \in Fd : HeldBy(m, t)'
    BY <1>1, <2>2 DEF HeldBy
  <2> QED BY <1>0, <2>1, <2>2, <2>3, HeldStep
<1>4. CASE OpenVideo(t)
  <2>1. PICK n \in Fd : /\ owner' = [owner EXCEPT ![n] = VideoOf(t)]
                        /\ proc' = [proc EXCEPT ![t].pc = "scan", ![t].other = n]
    BY <1>4 DEF OpenVideo, Take
  <2>2. /\ proc[t].pc = "open" /\ proc'[t].pc = "scan"
        /\ proc'[t].conn = proc[t].conn /\ proc'[t].other = n
    BY <1>0, <1>4, <2>1 DEF OpenVideo, At, Work
  <2>3. \A m \in Fd : HeldBy(m, t)'
    BY <1>0, <1>1, <2>1, <2>2, KindsDiffer DEF HeldBy
  <2> QED BY <1>0, <2>1, <2>3, HeldStep
<1>5. CASE CloseVideo(t)
  <2>1. /\ owner' = [owner EXCEPT ![proc[t].other] = Free]
        /\ proc' = [proc EXCEPT ![t].pc = "answer", ![t].other = NoFd]
    BY <1>5 DEF CloseVideo, Release, Goto
  <2>2. proc[t].pc = "scan" /\ proc'[t].pc = "answer" /\ proc'[t].conn = proc[t].conn
    BY <1>0, <1>5, <2>1 DEF CloseVideo, At, Work
  <2>3. \A m \in Fd : HeldBy(m, t)'
    BY <1>0, <1>1, <2>1, <2>2, KindsDiffer DEF HeldBy
  <2> QED BY <1>0, <2>1, <2>3, HeldStep
<1>6. CASE Answer(t)
  <2>1. /\ owner' = [owner EXCEPT ![proc[t].conn] = Free]
        /\ proc' = [proc EXCEPT ![t].pc = "close", ![t].method = "none"]
    BY <1>6 DEF Answer, Release
  <2>2. proc[t].pc = "answer" /\ proc'[t].pc = "close" /\ proc'[t].conn = proc[t].conn
    BY <1>0, <1>6, <2>1 DEF Answer, At, Work
  <2>3. \A m \in Fd : HeldBy(m, t)'
    BY <1>0, <1>1, <2>1, <2>2, KindsDiffer DEF HeldBy
  <2> QED BY <1>0, <2>1, <2>3, HeldStep
<1>7. CASE Close(t)
  <2>1. /\ owner' = [owner EXCEPT ![proc[t].conn] = Free]
        /\ proc' = [proc EXCEPT ![t].pc = "fclose", ![t].other = NoFd]
    BY <1>7 DEF Close, Release, Goto
  <2>2. proc[t].pc = "close"
    BY <1>7 DEF Close, At
  <2>3. \A m \in Fd : HeldBy(m, t)'
    BY <1>0, <1>1, <2>1, <2>2, KindsDiffer DEF HeldBy
  <2> QED BY <1>0, <2>1, <2>3, HeldStep
<1>8. CASE CloseStream(t)
  <2>1. /\ owner' = [owner EXCEPT ![proc[t].conn] = Free]
        /\ proc' = [proc EXCEPT ![t] = NoWork]
    BY <1>8 DEF CloseStream, Release
  <2>2. proc[t].pc = "fclose"
    BY <1>8 DEF CloseStream, At
  <2>3. \A m \in Fd : HeldBy(m, t)'
    BY <1>0, <1>1, <2>1, <2>2, KindsDiffer DEF HeldBy
  <2> QED BY <1>0, <2>1, <2>3, HeldStep
<1>9. CASE Fault
  BY <1>9, HeldUnchanged DEF Fault
<1> QED BY <1>2, <1>3, <1>4, <1>5, <1>6, <1>7, <1>8, <1>9
        DEF ThreadStep, ReadFails, AnswerFails, NoDescriptorLeft

(* What catchAlarm opens it holds until it closes it.                      *)
LEMMA HandlerHeld ==
  ASSUME TypeOK, AllHeld, NEW h \in Handlers, HandlerStep(h)
  PROVE  AllHeld'
<1>0. h \in Worker /\ proc \in [Worker -> Work] /\ proc[h] \in Work /\ owner \in [Fd -> Kinds]
  BY DEF TypeOK, Worker, Work
<1>1. \A m \in Fd : HeldBy(m, h)
  BY <1>0 DEF AllHeld
<1>2. CASE OpenFrame(h)
  <2>1. PICK n \in Fd : /\ owner' = [owner EXCEPT ![n] = VideoOf(h)]
                        /\ proc' = [proc EXCEPT ![h].pc = "build", ![h].other = n]
    BY <1>2 DEF OpenFrame, Take
  <2>2. proc[h].pc = "idle" /\ proc'[h].pc = "build" /\ proc'[h].other = n
    BY <1>0, <1>2, <2>1 DEF OpenFrame, Work
  <2>3. \A m \in Fd : HeldBy(m, h)'
    BY <1>0, <1>1, <2>1, <2>2, KindsDiffer DEF HeldBy
  <2> QED BY <1>0, <2>1, <2>3, HeldStep
<1>3. CASE CloseFrame(h)
  <2>1. /\ owner' = [owner EXCEPT ![proc[h].other] = Free]
        /\ proc' = [proc EXCEPT ![h].pc = "socket", ![h].other = NoFd]
    BY <1>3 DEF CloseFrame, Release, Goto
  <2>2. proc[h].pc = "build"
    BY <1>3 DEF CloseFrame
  <2>3. \A m \in Fd : HeldBy(m, h)'
    BY <1>0, <1>1, <2>1, <2>2, KindsDiffer DEF HeldBy
  <2> QED BY <1>0, <2>1, <2>3, HeldStep
<1>4. CASE OpenSocket(h)
  <2>1. PICK n \in Fd : /\ owner' = [owner EXCEPT ![n] = PacketSocket(h)]
                        /\ proc' = [proc EXCEPT ![h].pc = "send", ![h].other = n]
    BY <1>4 DEF OpenSocket, Take
  <2>2. proc[h].pc = "socket" /\ proc'[h].pc = "send" /\ proc'[h].other = n
    BY <1>0, <1>4, <2>1 DEF OpenSocket, Work
  <2>3. \A m \in Fd : HeldBy(m, h)'
    BY <1>0, <1>1, <2>1, <2>2, KindsDiffer DEF HeldBy
  <2> QED BY <1>0, <2>1, <2>3, HeldStep
<1>5. CASE CloseSocket(h)
  <2>1. /\ owner' = [owner EXCEPT ![proc[h].other] = Free]
        /\ proc' = [proc EXCEPT ![h] = NoWork]
    BY <1>5 DEF CloseSocket, Release
  <2>2. proc[h].pc = "send"
    BY <1>5 DEF CloseSocket
  <2>3. \A m \in Fd : HeldBy(m, h)'
    BY <1>0, <1>1, <2>1, <2>2, KindsDiffer DEF HeldBy
  <2> QED BY <1>0, <2>1, <2>3, HeldStep
<1>6. CASE EndOfStream(h)
  BY <1>6, HeldUnchanged DEF EndOfStream
<1>7. CASE Fault
  BY <1>7, HeldUnchanged DEF Fault
<1> QED BY <1>2, <1>3, <1>4, <1>5, <1>6, <1>7
        DEF HandlerStep, OpenFrameFails, NoDescriptorLeft

(* What is held has a closer: AllHeld is NoLeak, kind by kind.             *)
LEMMA HeldIsNoLeak ==
  ASSUME TypeOK, AllHeld
  PROVE  NoLeak
<1> SUFFICES ASSUME NEW n \in Fd, owner[n] \notin {Free, Listener}
             PROVE  HasCloser(n)
  BY DEF NoLeak
<1>1. owner[n] \in Kinds
  BY DEF TypeOK
<1>2. PICK p \in Worker : owner[n] \in {Connection(p), VideoOf(p), PacketSocket(p)}
  BY <1>1, KindsCovered
<1>3. HeldBy(n, p)
  BY DEF AllHeld
<1>4. owner[n][2] = p
  BY <1>2, KindParts
<1>5. CASE owner[n] = Connection(p)
  BY <1>3, <1>4, <1>5, KindParts DEF HasCloser, HeldBy
<1>6. CASE owner[n] = VideoOf(p)
  BY <1>3, <1>4, <1>6, KindParts DEF HasCloser, HeldBy
<1>7. CASE owner[n] = PacketSocket(p)
  BY <1>3, <1>4, <1>7, KindParts DEF HasCloser, HeldBy
<1> QED BY <1>2, <1>5, <1>6, <1>7

------------------------------------------------------------------------------
(* The start, and the threads' connections.                                *)
(* The loop of setupServerTCPSocket ends.                                  *)
LEMMA StartedTriesNone ==
  ASSUME TypeOK, Started
  PROVE  ~ TryAddress
<1>1. ~ (tried < Len(addresses))
  BY ListsHaveLength DEF Started, TypeOK
<1> QED BY <1>1 DEF TryAddress

(* Only that loop changes what concerns the listening socket.              *)
LEMMA SetupUnchanged ==
  ASSUME Next, ~ TryAddress
  PROVE  UNCHANGED setupVars
<1>1. ASSUME NEW t \in Thread, Accept(t) \/ ThreadStep(t)
      PROVE  UNCHANGED setupVars
  <2>1. CASE Accept(t) \/ Read(t) \/ OpenVideo(t) \/ CloseVideo(t)
    BY <2>1 DEF Accept, Read, OpenVideo, CloseVideo
  <2>2. CASE Answer(t) \/ Close(t) \/ CloseStream(t) \/ Fault
    BY <2>2 DEF Answer, Close, CloseStream, Fault
  <2> QED BY <1>1, <2>1, <2>2 DEF ThreadStep, ReadFails, AnswerFails, NoDescriptorLeft
<1>2. ASSUME NEW h \in Handlers, HandlerStep(h)
      PROVE  UNCHANGED setupVars
  <2>1. CASE OpenFrame(h) \/ CloseFrame(h) \/ OpenSocket(h)
    BY <2>1 DEF OpenFrame, CloseFrame, OpenSocket
  <2>2. CASE CloseSocket(h) \/ EndOfStream(h) \/ Fault
    BY <2>2 DEF CloseSocket, EndOfStream, Fault
  <2> QED BY <1>2, <2>1, <2>2 DEF HandlerStep, OpenFrameFails, NoDescriptorLeft
<1> QED BY <1>1, <1>2 DEF Next, AcceptFails, Fault

(* Whether requests come apart does not change in a behaviour.             *)
LEMMA ApartIsFixed ==
  ASSUME Next
  PROVE  apart' = apart
<1>1. CASE TryAddress
  BY <1>1 DEF TryAddress
<1> QED BY <1>1, SetupUnchanged DEF setupVars

(* Threads and handlers begin after setupServerTCPSocket.                  *)
LEMMA QuietNext ==
  ASSUME TypeOK, QuietStart, Next
  PROVE  QuietStart'
<1>1. CASE Started
  <2>1. ~ TryAddress
    BY <1>1, StartedTriesNone
  <2>2. UNCHANGED <<addresses, tried>>
    BY <2>1, SetupUnchanged DEF setupVars
  <2> QED BY <1>1, <2>2 DEF QuietStart, Started
<1>2. CASE ~ Started
  <2>1. (\A n \in Fd : owner[n] = Free) /\ (\A p \in Worker : proc[p].pc = "idle") /\ ~ streaming
    BY <1>2 DEF QuietStart, Idle
  <2>2. \A t \in Thread : ~ Accept(t) /\ ~ ThreadStep(t)
    BY <1>2, <2>1 DEF Worker, Accept, ThreadStep, At, Read, ReadFails, OpenVideo, CloseVideo,
                      Answer, AnswerFails, Close, CloseStream, NoDescriptorLeft
  <2>3. \A h \in Handlers : ~ HandlerStep(h)
    BY <2>1 DEF Worker, HandlerStep, OpenFrame, OpenFrameFails, CloseFrame, OpenSocket,
                CloseSocket, EndOfStream, NoDescriptorLeft
  <2>4. TryAddress
    BY <1>2, <2>2, <2>3 DEF Next, AcceptFails
  <2>5. CASE addresses[1] = "good"
    BY <2>4, <2>5 DEF TryAddress, QuietStart, Started
  <2>6. CASE addresses[1] # "good"
    BY <2>1, <2>4, <2>6 DEF TryAddress, QuietStart, Idle
  <2> QED BY <2>5, <2>6
<1> QED BY <1>1, <1>2

(* A thread keeps the number accept gave it until it ends.                 *)
LEMMA ConnectedNext ==
  ASSUME TypeOK, Connected, Next
  PROVE  Connected'
<1>0. proc \in [Worker -> Work] /\ Thread \subseteq Worker /\ Handlers \subseteq Worker
      /\ Thread \cap Handlers = {}
  BY DescriptorAssumption DEF TypeOK, Worker, Work
<1>1. CASE UNCHANGED proc
  BY <1>1 DEF Connected
<1>2. ASSUME NEW t \in Thread, Accept(t)
      PROVE  Connected'
  <2>1. PICK n \in Fd : proc' = [proc EXCEPT ![t] = [NoWork EXCEPT !.pc = "read", !.conn = n]]
    BY <1>2 DEF Accept
  <2> QED BY <1>0, <2>1 DEF Connected, NoWork
<1>3. ASSUME NEW t \in Thread, ThreadStep(t), proc' # proc
      PROVE  Connected'
  <2>1. proc[t].pc # "idle" /\ proc[t] \in Work
    BY <1>0, <1>3 DEF ThreadStep, At, Read, ReadFails, OpenVideo, CloseVideo, Answer, AnswerFails,
                Close, CloseStream, NoDescriptorLeft, Fault
  <2>2. CASE CloseStream(t)
    BY <1>0, <2>2 DEF CloseStream, Connected, NoWork
  <2>3. ASSUME \A u \in Thread \ {t} : proc'[u] = proc[u], proc'[t].conn = proc[t].conn
        PROVE  Connected'
    BY <2>1, <2>3 DEF Connected
  <2>4. CASE Read(t)
    <3>1. PICK r \in {"none", "SETUP", "PLAY", "TEARDOWN"}, pc \in {"open", "close", "answer"} :
            proc' = [proc EXCEPT ![t].method = r, ![t].pc = pc]
      BY <2>4 DEF Read
    <3> QED BY <1>0, <2>1, <2>3, <3>1 DEF Work
  <2>5. CASE OpenVideo(t)
    <3>1. PICK n \in Fd : proc' = [proc EXCEPT ![t].pc = "scan", ![t].other = n]
      BY <2>5 DEF OpenVideo
    <3> QED BY <1>0, <2>1, <2>3, <3>1 DEF Work
  <2>6. CASE CloseVideo(t)
    BY <1>0, <2>1, <2>3, <2>6 DEF CloseVideo, Goto, Work
  <2>7. CASE Answer(t)
    BY <1>0, <2>1, <2>3, <2>7 DEF Answer, Work
  <2>8. CASE Close(t)
    BY <1>0, <2>1, <2>3, <2>8 DEF Close, Goto, Work
  <2> QED BY <1>3, <2>2, <2>4, <2>5, <2>6, <2>7, <2>8
          DEF ThreadStep, ReadFails, AnswerFails, NoDescriptorLeft, Fault
<1>4. ASSUME NEW h \in Handlers, HandlerStep(h), proc' # proc
      PROVE  Connected'
  <2>1. \A t \in Thread : proc'[t] = proc[t]
    BY <1>0, <1>4 DEF HandlerStep, OpenFrame, OpenFrameFails, CloseFrame, OpenSocket, CloseSocket,
                EndOfStream, NoDescriptorLeft, Fault, Goto
  <2> QED BY <2>1 DEF Connected
<1>5. CASE TryAddress \/ AcceptFails
  BY <1>1, <1>5 DEF TryAddress, AcceptFails, Fault
<1> QED BY <1>1, <1>2, <1>3, <1>4, <1>5 DEF Next

------------------------------------------------------------------------------
(* Order, when requests come apart and handlers run in one piece.          *)
(* A step that changes neither owners nor records keeps the order.         *)
LEMMA InOrderUnchanged ==
  ASSUME InOrder, UNCHANGED <<apart, owner, proc>>
  PROVE  InOrder'
BY DEF InOrder, AtMostOne, Holds

(* Who does not run has nothing to hold.                                   *)
LEMMA IdleHolds ==
  ASSUME NEW p, proc[p].pc = "idle"
  PROVE  Holds(p)
BY DEF Holds

(* A thread that runs is alone.                                            *)
LEMMA ThreadInOrder ==
  ASSUME TypeOK, Connected, InOrder, apart, NEW t \in Thread, Accept(t) \/ ThreadStep(t)
  PROVE  InOrder'
<1>0. /\ t \in Worker /\ proc \in [Worker -> Work] /\ proc[t] \in Work
      /\ owner \in [Fd -> Kinds] /\ t \notin Handlers
      /\ Thread \subseteq Worker /\ Handlers \subseteq Worker
  BY DescriptorAssumption DEF TypeOK, Worker, Work
<1>1. Holds(t) /\ AtMostOne(Thread) /\ (proc[t].pc # "idle" => proc[t].conn \in Fd)
  BY <1>0 DEF InOrder, Connected
<1>2. CASE Fault
  BY <1>2, InOrderUnchanged DEF Fault, setupVars
<1>3. ASSUME ~ Fault
      PROVE  \A q \in Worker \ {t} : proc[q].pc = "idle"
  <2>1. CASE Accept(t)
    BY <2>1 DEF Accept, Idle, Worker
  <2>2. CASE ThreadStep(t)
    <3>1. proc[t].pc # "idle" /\ Idle(Handlers)
      BY <1>3, <2>2 DEF ThreadStep, At, Read, ReadFails, OpenVideo, CloseVideo, Answer,
                        AnswerFails, Close, CloseStream, NoDescriptorLeft
    <3> QED BY <1>0, <1>1, <3>1 DEF AtMostOne, Idle, Worker
  <2> QED BY <2>1, <2>2
<1>4. ASSUME ~ Fault, \A q \in Worker \ {t} : proc'[q] = proc[q], UNCHANGED apart, Holds(t)'
      PROVE  InOrder'
  <2>1. \A q \in Worker \ {t} : proc'[q].pc = "idle"
    BY <1>3, <1>4
  <2>2. \A q \in Worker : Holds(q)'
    BY <1>4, <2>1 DEF Holds
  <2>3. AtMostOne(Thread)' /\ AtMostOne(Handlers)'
    BY <1>0, <2>1 DEF AtMostOne
  <2> QED BY <2>2, <2>3 DEF InOrder
<1> SUFFICES ASSUME ~ Fault
             PROVE  InOrder'
  BY <1>2
<1>5. CASE Accept(t)
  <2>1. PICK n \in Fd : /\ owner' = [owner EXCEPT ![n] = Connection(t)]
                        /\ proc' = [proc EXCEPT ![t] = [NoWork EXCEPT !.pc = "read", !.conn = n]]
    BY <1>5 DEF Accept, Take
  <2>2. proc'[t].pc = "read" /\ proc'[t].conn = n
    BY <1>0, <2>1 DEF NoWork
  <2>3. Holds(t)' /\ UNCHANGED apart
    BY <1>0, <1>5, <2>1, <2>2 DEF Holds, Accept, setupVars
  <2> QED BY <1>0, <1>4, <2>1, <2>3
<1>6. CASE Read(t)
  <2>1. PICK r \in {"none", "SETUP", "PLAY", "TEARDOWN"}, pc \in {"open", "close", "answer"} :
          proc' = [proc EXCEPT ![t].method = r, ![t].pc = pc]
    BY <1>6 DEF Read
  <2>2. /\ proc[t].pc = "read" /\ proc'[t].pc \in {"open", "close", "answer"}
        /\ proc'[t].conn = proc[t].conn /\ owner' = owner /\ UNCHANGED apart
    BY <1>0, <1>6, <2>1 DEF Read, At, Work, setupVars
  <2>3. Holds(t)'
    BY <1>1, <2>2, KindsDiffer DEF Holds
  <2> QED BY <1>0, <1>4, <2>1, <2>2, <2>3
<1>7. CASE OpenVideo(t)
  <2>1. PICK n \in Fd : /\ owner[n] = Free /\ owner' = [owner EXCEPT ![n] = VideoOf(t)]
                        /\ proc' = [proc EXCEPT ![t].pc = "scan", ![t].other = n]
    BY <1>7 DEF OpenVideo, Take, FreeFds
  <2>2. /\ proc[t].pc = "open" /\ proc'[t].pc = "scan" /\ UNCHANGED apart
        /\ proc'[t].conn = proc[t].conn /\ proc'[t].other = n
    BY <1>0, <1>7, <2>1 DEF OpenVideo, At, Work, setupVars
  <2>3. Holds(t)'
    BY <1>0, <1>1, <2>1, <2>2, KindsDiffer DEF Holds
  <2> QED BY <1>0, <1>4, <2>1, <2>2, <2>3
<1>8. CASE CloseVideo(t)
  <2>1. /\ owner' = [owner EXCEPT ![proc[t].other] = Free] /\ UNCHANGED apart
        /\ proc' = [proc EXCEPT ![t].pc = "answer", ![t].other = NoFd]
    BY <1>8 DEF CloseVideo, Release, Goto, setupVars
  <2>2. proc[t].pc = "scan" /\ proc'[t].pc = "answer" /\ proc'[t].conn = proc[t].conn
    BY <1>0, <1>8, <2>1 DEF CloseVideo, At, Work
  <2>3. Holds(t)'
    BY <1>0, <1>1, <2>1, <2>2, KindsDiffer DEF Holds
  <2> QED BY <1>0, <1>4, <2>1, <2>3
<1>9. CASE Answer(t)
  <2>1. /\ owner' = [owner EXCEPT ![proc[t].conn] = Free] /\ UNCHANGED apart
        /\ proc' = [proc EXCEPT ![t].pc = "close", ![t].method = "none"]
    BY <1>9 DEF Answer, Release, setupVars
  <2>2. proc[t].pc = "answer" /\ proc'[t].pc = "close" /\ proc'[t].conn = proc[t].conn
    BY <1>0, <1>9, <2>1 DEF Answer, At, Work
  <2>3. Holds(t)'
    BY <1>0, <1>1, <2>1, <2>2, KindsDiffer DEF Holds
  <2> QED BY <1>0, <1>4, <2>1, <2>3
<1>10. CASE Close(t)
  <2>1. /\ owner' = [owner EXCEPT ![proc[t].conn] = Free] /\ UNCHANGED apart
        /\ proc' = [proc EXCEPT ![t].pc = "fclose", ![t].other = NoFd]
    BY <1>10 DEF Close, Release, Goto, setupVars
  <2>2. proc[t].pc = "close" /\ proc'[t].pc = "fclose" /\ proc'[t].conn = proc[t].conn
    BY <1>0, <1>10, <2>1 DEF Close, At, Work
  <2>3. Holds(t)'
    BY <1>0, <1>1, <2>1, <2>2, KindsDiffer DEF Holds
  <2> QED BY <1>0, <1>4, <2>1, <2>3
<1>11. CASE CloseStream(t)
  <2>1. proc' = [proc EXCEPT ![t] = NoWork] /\ UNCHANGED apart
    BY <1>11 DEF CloseStream, setupVars
  <2>2. Holds(t)'
    BY <1>0, <2>1 DEF Holds, NoWork
  <2> QED BY <1>0, <1>4, <2>1, <2>2
<1> QED BY <1>5, <1>6, <1>7, <1>8, <1>9, <1>10, <1>11
        DEF ThreadStep, ReadFails, AnswerFails, NoDescriptorLeft

(* A handler that runs is the only one, and takes only free numbers.       *)
LEMMA HandlerInOrder ==
  ASSUME TypeOK, Connected, InOrder, apart, NEW h \in Handlers, HandlerStep(h)
  PROVE  InOrder'
<1>0. /\ h \in Worker /\ proc \in [Worker -> Work] /\ proc[h] \in Work
      /\ owner \in [Fd -> Kinds] /\ h \notin Thread
      /\ Thread \subseteq Worker /\ Handlers \subseteq Worker
  BY DescriptorAssumption DEF TypeOK, Worker, Work
<1>1. Holds(h) /\ AtMostOne(Thread)
  BY <1>0 DEF InOrder
<1>2. CASE UNCHANGED <<apart, owner, proc>>
  BY <1>2, InOrderUnchanged
<1>3. ASSUME MayRun(h), UNCHANGED apart,
             \A q \in Worker \ {h} : proc'[q] = proc[q],
             \A m \in Fd : \/ owner'[m] = owner[m]
                           \/ owner[m] = Free /\ owner'[m] \in {VideoOf(h), PacketSocket(h)}
                           \/ owner[m] \in {VideoOf(h), PacketSocket(h)} /\ owner'[m] = Free,
             Holds(h)'
      PROVE  InOrder'
  <2>1. \A q \in Handlers \ {h} : proc[q].pc = "idle"
    BY <1>3 DEF MayRun, Idle
  <2>2. AtMostOne(Thread)' /\ AtMostOne(Handlers)'
    BY <1>0, <1>1, <1>3, <2>1 DEF AtMostOne
  <2>3. ASSUME NEW q \in Worker
        PROVE  Holds(q)'
    <3>1. CASE q = h
      BY <1>3, <3>1
    <3>2. CASE q # h /\ q \notin Thread
      BY <1>3, <2>1, <3>2 DEF Holds, Worker
    <3>3. CASE q \in Thread
      <4>1. Holds(q) /\ proc'[q] = proc[q] /\ (proc[q].pc # "idle" => proc[q].conn \in Fd)
        BY <1>0, <1>3, <3>3 DEF InOrder, Connected
      <4> QED BY <1>0, <1>3, <3>3, <4>1, KindsDiffer DEF Holds
    <3> QED BY <3>1, <3>2, <3>3
  <2> QED BY <2>2, <2>3 DEF InOrder
<1>4. CASE OpenFrame(h)
  <2>1. PICK n \in Fd : /\ owner[n] = Free /\ owner' = [owner EXCEPT ![n] = VideoOf(h)]
                        /\ proc' = [proc EXCEPT ![h].pc = "build", ![h].other = n]
    BY <1>4 DEF OpenFrame, Take, FreeFds
  <2>2. /\ proc'[h].pc = "build" /\ proc'[h].other = n
        /\ MayRun(h) /\ UNCHANGED apart
    BY <1>0, <1>4, <2>1 DEF OpenFrame, Work, setupVars
  <2>3. Holds(h)'
    BY <1>0, <2>1, <2>2 DEF Holds
  <2> QED BY <1>0, <1>3, <2>1, <2>2, <2>3
<1>5. CASE CloseFrame(h)
  <2>1. /\ owner' = [owner EXCEPT ![proc[h].other] = Free]
        /\ proc' = [proc EXCEPT ![h].pc = "socket", ![h].other = NoFd]
        /\ MayRun(h) /\ UNCHANGED apart
    BY <1>5 DEF CloseFrame, Release, Goto, setupVars
  <2>2. proc[h].pc = "build" /\ proc'[h].pc = "socket"
    BY <1>0, <1>5, <2>1 DEF CloseFrame, Work
  <2>3. owner[proc[h].other] = VideoOf(h) /\ Holds(h)'
    BY <1>0, <1>1, <2>2 DEF Holds
  <2> QED BY <1>0, <1>3, <2>1, <2>3
<1>6. CASE OpenSocket(h)
  <2>1. PICK n \in Fd : /\ owner[n] = Free /\ owner' = [owner EXCEPT ![n] = PacketSocket(h)]
                        /\ proc' = [proc EXCEPT ![h].pc = "send", ![h].other = n]
    BY <1>6 DEF OpenSocket, Take, FreeFds
  <2>2. /\ proc'[h].pc = "send" /\ proc'[h].other = n
        /\ MayRun(h) /\ UNCHANGED apart
    BY <1>0, <1>6, <2>1 DEF OpenSocket, Work, setupVars
  <2>3. Holds(h)'
    BY <1>0, <2>1, <2>2 DEF Holds
  <2> QED BY <1>0, <1>3, <2>1, <2>2, <2>3
<1>7. CASE CloseSocket(h)
  <2>1. /\ owner' = [owner EXCEPT ![proc[h].other] = Free]
        /\ proc' = [proc EXCEPT ![h] = NoWork]
        /\ MayRun(h) /\ UNCHANGED apart /\ proc[h].pc = "send"
    BY <1>7 DEF CloseSocket, Release, setupVars
  <2>2. owner[proc[h].other] = PacketSocket(h) /\ Holds(h)'
    BY <1>0, <1>1, <2>1 DEF Holds, NoWork
  <2> QED BY <1>0, <1>3, <2>1, <2>2
<1> QED BY <1>2, <1>4, <1>5, <1>6, <1>7
        DEF HandlerStep, OpenFrameFails, NoDescriptorLeft, EndOfStream, Fault, setupVars

------------------------------------------------------------------------------
(* The invariant holds at the start and is preserved by every step.        *)
(* main starts in the invariant.                                           *)
LEMMA InvInit == Init => Inv
<1> SUFFICES ASSUME Init PROVE Inv
  OBVIOUS
<1>1. TypeOK
  BY TypeInit
<1>2. \A p \in Worker : proc[p].pc = "idle"
  BY DEF Init, Worker, NoWork
<1>3. \A n \in Fd : owner[n] = Free
  BY DEF Init
<1>4. QuietStart /\ Connected
  BY <1>2, <1>3 DEF QuietStart, Connected, Idle, Init, Worker
<1>5. AllHeld
  BY <1>3, KindsDiffer DEF AllHeld, HeldBy
<1>6. InOrder
  BY <1>2, IdleHolds DEF InOrder, AtMostOne, Worker
<1> QED BY <1>1, <1>4, <1>5, <1>6 DEF Inv

(* Each step of the server keeps the invariant.                            *)
LEMMA InvNext ==
  ASSUME Inv, [Next]_vars
  PROVE  Inv'
<1> USE DEF Inv
<1>1. CASE UNCHANGED vars
  BY <1>1 DEF vars, setupVars, TypeOK, QuietStart, Started, Idle, AllHeld, HeldBy, Connected,
              InOrder, AtMostOne, Holds
<1>2. CASE Next
  <2>1. TypeOK' /\ QuietStart' /\ Connected'
    BY <1>2, TypeNext, QuietNext, ConnectedNext
  <2>2. CASE TryAddress
    <3>1. ~ Started /\ UNCHANGED <<apart, proc>>
      BY <2>2, StartedTriesNone DEF TryAddress
    <3>2. \A p \in Worker : proc'[p].pc = "idle"
      BY <3>1 DEF QuietStart, Idle
    <3>3. InOrder'
      BY <3>2 DEF InOrder, AtMostOne, Holds, Worker
    <3>4. \A n \in Fd : owner'[n] \in {Free, Listener}
      BY <2>2, <3>1 DEF QuietStart, TryAddress, Take, TypeOK
    <3>5. AllHeld'
      BY <3>4, KindsDiffer DEF AllHeld, HeldBy
    <3> QED BY <2>1, <3>3, <3>5
  <2>3. CASE AcceptFails
    BY <2>1, <2>3, HeldUnchanged, InOrderUnchanged DEF AcceptFails, Fault, setupVars
  <2>4. ASSUME NEW t \in Thread, Accept(t) \/ ThreadStep(t)
        PROVE  Inv'
    <3>1. AllHeld'
      BY <2>4, ThreadHeld
    <3>2. apart' = apart
      BY <2>4, <1>2, ApartIsFixed
    <3>3. InOrder'
      BY <2>4, <3>2, ThreadInOrder DEF InOrder
    <3> QED BY <2>1, <3>1, <3>3
  <2>5. ASSUME NEW h \in Handlers, HandlerStep(h)
        PROVE  Inv'
    <3>1. AllHeld'
      BY <2>5, HandlerHeld
    <3>2. apart' = apart
      BY <2>5, <1>2, ApartIsFixed
    <3>3. InOrder'
      BY <2>5, <3>2, HandlerInOrder DEF InOrder
    <3> QED BY <2>1, <3>1, <3>3
  <2> QED BY <1>2, <2>2, <2>3, <2>4, <2>5 DEF Next
<1> QED BY <1>1, <1>2

(* The invariant holds in every reachable state.                           *)
THEOREM Invariance == Spec => []Inv
<1>1. Init => Inv
  BY InvInit
<1>2. Inv /\ [Next]_vars => Inv'
  BY InvNext
<1> QED BY <1>1, <1>2, PTL DEF Spec

(* Every variable of the descriptor table keeps its type: no number is     *)
(* given to what is no thread or handler, whatever is closed by whom.      *)
THEOREM TypeCorrect == Spec => []TypeOK
<1>1. Inv => TypeOK
  BY DEF Inv
<1> QED BY <1>1, Invariance, PTL

(* No descriptor is lost, in any interleaving of handleClientRequest and   *)
(* catchAlarm: whoever has one still has its number and a close to come.   *)
THEOREM NothingLeaks == Spec => []NoLeak
<1>1. Inv => NoLeak
  BY HeldIsNoLeak DEF Inv
<1> QED BY <1>1, Invariance, PTL

------------------------------------------------------------------------------
(* The three closes of handleClientRequest and constructResponseMessage    *)
(* take no descriptor from another, if requests come apart and handlers    *)
(* run in one piece.                                                       *)

(* What p gives up itself, in a step that changes its own record.          *)
LEMMA GivenUp ==
  ASSUME NEW n \in Fd, NEW p, proc'[p] # proc[p],
         owner[n] \in {Connection(p), VideoOf(p), PacketSocket(p)}
  PROVE  GivenUpByOwner(n)
BY KindParts DEF GivenUpByOwner

(* A request thread closes what it holds, or what is free.                 *)
LEMMA ThreadClosesOwn ==
  ASSUME Inv, apart, NEW t \in Thread, Accept(t) \/ ThreadStep(t)
  PROVE  NoneTakenAway
<1>0. /\ t \in Worker /\ proc \in [Worker -> Work] /\ proc[t] \in Work
      /\ owner \in [Fd -> Kinds] /\ Holds(t)
      /\ (proc[t].pc # "idle" => proc[t].conn \in Fd)
  BY DEF Inv, TypeOK, Worker, Work, InOrder, Connected
<1> SUFFICES ASSUME NEW n \in Fd, owner[n] # Free, owner'[n] # owner[n]
             PROVE  GivenUpByOwner(n)
  BY DEF NoneTakenAway
<1>1. CASE CloseVideo(t)
  <2>1. /\ proc[t].pc = "scan" /\ n = proc[t].other
        /\ proc' = [proc EXCEPT ![t].pc = "answer", ![t].other = NoFd]
    BY <1>0, <1>1 DEF CloseVideo, At, Release, Goto
  <2>2. owner[n] = VideoOf(t) /\ proc'[t] # proc[t]
    BY <1>0, <2>1 DEF Holds, Work
  <2> QED BY <2>2, GivenUp
<1>2. CASE Answer(t)
  <2>1. /\ proc[t].pc = "answer" /\ n = proc[t].conn
        /\ proc' = [proc EXCEPT ![t].pc = "close", ![t].method = "none"]
    BY <1>0, <1>2 DEF Answer, At, Release
  <2>2. owner[n] = Connection(t) /\ proc'[t] # proc[t]
    BY <1>0, <2>1 DEF Holds, Work
  <2> QED BY <2>2, GivenUp
<1>3. CASE Close(t) \/ CloseStream(t)
  <2>1. /\ proc[t].pc \in {"close", "fclose"} /\ n = proc[t].conn /\ Idle(Handlers)
        /\ proc'[t] # proc[t]
    BY <1>0, <1>3 DEF Close, CloseStream, At, Release, Goto, NoWork, Work
  <2>2. owner[n] # Listener /\ owner[n] \in Kinds
    BY <1>0, <2>1 DEF Holds
  <2>3. PICK p \in Worker : owner[n] \in {Connection(p), VideoOf(p), PacketSocket(p)}
    BY <2>2, KindsCovered
  <2>4. proc[p].pc # "idle"
    BY <2>3 DEF Inv, AllHeld, HeldBy
  <2>5. p = t
    BY <2>1, <2>4 DEF Inv, InOrder, AtMostOne, Idle, Worker
  <2> QED BY <2>1, <2>3, <2>5, GivenUp
<1>4. CASE Accept(t) \/ OpenVideo(t)
  BY <1>0, <1>4 DEF Accept, OpenVideo, Take, FreeFds
<1>5. CASE Read(t) \/ Fault
  BY <1>5 DEF Read, Fault
<1> QED BY <1>1, <1>2, <1>3, <1>4, <1>5
        DEF ThreadStep, ReadFails, AnswerFails, NoDescriptorLeft

(* catchAlarm closes what it holds.                                        *)
LEMMA HandlerClosesOwn ==
  ASSUME Inv, apart, NEW h \in Handlers, HandlerStep(h)
  PROVE  NoneTakenAway
<1>0. /\ h \in Worker /\ proc \in [Worker -> Work] /\ proc[h] \in Work
      /\ owner \in [Fd -> Kinds] /\ Holds(h)
  BY DEF Inv, TypeOK, Worker, Work, InOrder
<1> SUFFICES ASSUME NEW n \in Fd, owner[n] # Free, owner'[n] # owner[n]
             PROVE  GivenUpByOwner(n)
  BY DEF NoneTakenAway
<1>1. CASE CloseFrame(h)
  <2>1. /\ proc[h].pc = "build" /\ n = proc[h].other
        /\ proc' = [proc EXCEPT ![h].pc = "socket", ![h].other = NoFd]
    BY <1>0, <1>1 DEF CloseFrame, Release, Goto
  <2>2. owner[n] = VideoOf(h) /\ proc'[h] # proc[h]
    BY <1>0, <2>1 DEF Holds, Work
  <2> QED BY <2>2, GivenUp
<1>2. CASE CloseSocket(h)
  <2>1. /\ proc[h].pc = "send" /\ n = proc[h].other
        /\ proc' = [proc EXCEPT ![h] = NoWork]
    BY <1>0, <1>2 DEF CloseSocket, Release
  <2>2. owner[n] = PacketSocket(h) /\ proc'[h] # proc[h]
    BY <1>0, <2>1 DEF Holds, NoWork
  <2> QED BY <2>2, GivenUp
<1>3. CASE OpenFrame(h) \/ OpenSocket(h)
  BY <1>0, <1>3 DEF OpenFrame, OpenSocket, Take, FreeFds
<1>4. CASE EndOfStream(h) \/ Fault
  BY <1>4 DEF EndOfStream, Fault
<1> QED BY <1>1, <1>2, <1>3, <1>4 DEF HandlerStep, OpenFrameFails, NoDescriptorLeft

(* So no step of the server takes a descriptor away.                       *)
LEMMA NoneTakenNext ==
  ASSUME Inv, Next, apart
  PROVE  NoneTakenAway
<1>1. CASE TryAddress
  <2>1. ~ Started
    BY <1>1, StartedTriesNone DEF Inv
  <2> QED BY <2>1 DEF Inv, QuietStart, NoneTakenAway
<1>2. CASE AcceptFails
  BY <1>2 DEF AcceptFails, Fault, NoneTakenAway
<1> QED BY <1>1, <1>2, ThreadClosesOwn, HandlerClosesOwn DEF Next

(* A descriptor changes hands only by a step of whom it belongs to.        *)
THEOREM ClosesOwn == Spec => OwnDescriptorsApart
<1>1. ASSUME UNCHANGED vars
      PROVE  NoneTakenAway
  BY <1>1 DEF vars, NoneTakenAway
<1>2. Inv /\ [Next]_vars => [apart => NoneTakenAway]_vars
  BY <1>1, NoneTakenNext
<1> QED BY <1>2, Invariance, PTL DEF Spec, OwnDescriptorsApart

------------------------------------------------------------------------------
(* Four numbers are enough.                                                *)

(* catchAlarm goes through its own steps.                                  *)
HandlersHandle ==
  \A h \in Handlers : proc[h].pc \in {"idle", "build", "socket", "send"}

(* The one listener is the socket main accepts on.                         *)
OneListener == \A n \in Fd : owner[n] = Listener => n = server_socket

(* What a good first address gives, as long as requests come apart.        *)
Served ==
  apart /\ addresses[1] = "good" =>
    /\ Started => Listening
    /\ OneListener
    /\ HandlersHandle

(* Three numbers of four leave one.                                        *)
LEMMA FourthNumber ==
  ASSUME Cardinality(Fd) >= 4, NEW a, NEW b, NEW c
  PROVE  \E n \in Fd : n \notin {a, b, c}
<1>1. IsFiniteSet({a}) /\ Cardinality({a}) = 1
  BY FS_Singleton
<1>2. IsFiniteSet({a} \cup {b}) /\ Cardinality({a} \cup {b}) \in {1, 2}
  BY <1>1, FS_AddElement
<1>3. IsFiniteSet(({a} \cup {b}) \cup {c}) /\ Cardinality(({a} \cup {b}) \cup {c}) \in {1, 2, 3}
  BY <1>2, FS_AddElement
<1>4. ({a} \cup {b}) \cup {c} = {a, b, c}
  OBVIOUS
<1>5. SUFFICES ASSUME Fd \subseteq {a, b, c}
               PROVE  FALSE
  OBVIOUS
<1>6. IsFiniteSet({a, b, c}) /\ Cardinality({a, b, c}) \in {1, 2, 3}
  BY <1>3, <1>4
<1>7. Cardinality(Fd) <= Cardinality({a, b, c}) /\ IsFiniteSet(Fd)
  BY <1>5, <1>6, FS_Subset
<1>8. Cardinality(Fd) \in Nat
  BY <1>7, FS_CardinalityType
<1> QED BY <1>6, <1>7, <1>8

(* So a number is free if the threads and handlers have two between them.  *)
LEMMA NumberLeft ==
  ASSUME TypeOK, OneListener, Cardinality(Fd) >= 4, NEW a, NEW b,
         \A n \in Fd, p \in Worker :
           owner[n] \in {Connection(p), VideoOf(p), PacketSocket(p)} => n \in {a, b}
  PROVE  FreeFds # {}
<1>1. PICK n \in Fd : n \notin {server_socket, a, b}
  BY FourthNumber
<1>2. owner[n] \in Kinds /\ owner[n] # Listener
  BY <1>1 DEF TypeOK, OneListener
<1>3. owner[n] = Free
  BY <1>1, <1>2, KindsCovered
<1> QED BY <1>3 DEF FreeFds

(* Of the request threads, the one that runs has two at most.              *)
LEMMA ThreadHasTwo ==
  ASSUME Inv, apart
  PROVE  \E a, b : \A n \in Fd, t \in Thread :
           owner[n] \in {Connection(t), VideoOf(t), PacketSocket(t)} => n \in {a, b}
<1>1. ASSUME NEW n \in Fd, NEW t \in Thread,
             owner[n] \in {Connection(t), VideoOf(t), PacketSocket(t)}
      PROVE  proc[t].pc # "idle" /\ n \in {proc[t].conn, proc[t].other}
  BY <1>1 DEF Inv, AllHeld, HeldBy, Worker
<1>2. CASE \E t \in Thread : proc[t].pc # "idle"
  <2>1. PICK t \in Thread : proc[t].pc # "idle"
    BY <1>2
  <2>2. \A u \in Thread : proc[u].pc # "idle" => u = t
    BY <2>1 DEF Inv, InOrder, AtMostOne
  <2> WITNESS proc[t].conn, proc[t].other
  <2> QED BY <1>1, <2>2
<1>3. CASE ~ \E t \in Thread : proc[t].pc # "idle"
  BY <1>1, <1>3
<1> QED BY <1>2, <1>3

(* catchAlarm holds nothing before it opens the file and the socket.       *)
LEMMA HandlersHoldNone ==
  ASSUME Inv, HandlersHandle, \A h \in Handlers : proc[h].pc \notin {"build", "send"},
         NEW n \in Fd, NEW h \in Handlers
  PROVE  owner[n] \notin {Connection(h), VideoOf(h), PacketSocket(h)}
BY DEF Inv, AllHeld, HeldBy, Worker, HandlersHandle

(* Where no handler holds a number there is one for whoever is next.       *)
LEMMA NumberForAll ==
  ASSUME Inv, OneListener, HandlersHandle, apart, Cardinality(Fd) >= 4,
         \A h \in Handlers : proc[h].pc \in {"idle", "socket"}
  PROVE  FreeFds # {}
<1>1. \A h \in Handlers : proc[h].pc \notin {"build", "send"}
  OBVIOUS
<1>2. PICK a, b : \A n \in Fd, t \in Thread :
        owner[n] \in {Connection(t), VideoOf(t), PacketSocket(t)} => n \in {a, b}
  BY ThreadHasTwo
<1>3. \A n \in Fd, q \in Worker :
        owner[n] \in {Connection(q), VideoOf(q), PacketSocket(q)} => n \in {a, b}
  BY <1>1, <1>2, HandlersHoldNone DEF Worker
<1> QED BY <1>3, NumberLeft DEF Inv

(* A thread that is to answer still has its own connection.                *)
LEMMA CanAnswer ==
  ASSUME Inv, apart, NEW t \in Thread, proc[t].pc = "answer"
  PROVE  Writable(proc[t].conn)
<1>1. t \in Worker /\ Holds(t)
  BY DEF Worker, Inv, InOrder
<1>2. owner[proc[t].conn] = Connection(t)
  BY <1>1 DEF Holds
<1> QED BY <1>2, KindsDiffer, KindParts DEF Writable

(* Nobody becomes a listener after setupServerTCPSocket.                   *)
LEMMA NoNewListener ==
  ASSUME TypeOK, Next, ~ TryAddress, NEW n \in Fd, owner'[n] = Listener
  PROVE  owner[n] = Listener
<1>0. owner \in [Fd -> Kinds]
  BY DEF TypeOK
<1>1. ASSUME NEW m, Release(m)
      PROVE  owner[n] = Listener
  BY <1>0, <1>1, KindsDiffer DEF Release
<1>2. ASSUME NEW m, NEW p, Take(m, Connection(p)) \/ Take(m, VideoOf(p)) \/ Take(m, PacketSocket(p))
      PROVE  owner[n] = Listener
  BY <1>0, <1>2, KindsDiffer DEF Take
<1>3. ASSUME NEW t \in Thread, Accept(t) \/ ThreadStep(t)
      PROVE  owner[n] = Listener
  <2>1. CASE Accept(t) \/ OpenVideo(t)
    BY <1>2, <2>1 DEF Accept, OpenVideo
  <2>2. CASE CloseVideo(t) \/ Answer(t) \/ Close(t) \/ CloseStream(t)
    BY <1>1, <2>2 DEF CloseVideo, Answer, Close, CloseStream
  <2>3. CASE Read(t) \/ Fault
    BY <2>3 DEF Read, Fault
  <2> QED BY <1>3, <2>1, <2>2, <2>3 DEF ThreadStep, ReadFails, AnswerFails, NoDescriptorLeft
<1>4. ASSUME NEW h \in Handlers, HandlerStep(h)
      PROVE  owner[n] = Listener
  <2>1. CASE OpenFrame(h) \/ OpenSocket(h)
    BY <1>2, <2>1 DEF OpenFrame, OpenSocket
  <2>2. CASE CloseFrame(h) \/ CloseSocket(h)
    BY <1>1, <2>2 DEF CloseFrame, CloseSocket
  <2>3. CASE EndOfStream(h) \/ Fault
    BY <2>3 DEF EndOfStream, Fault
  <2> QED BY <1>4, <2>1, <2>2, <2>3 DEF HandlerStep, OpenFrameFails, NoDescriptorLeft
<1> QED BY <1>3, <1>4 DEF Next, AcceptFails, Fault

(* Each step of catchAlarm leads to another of its own.                    *)
LEMMA HandlersHandleNext ==
  ASSUME TypeOK, HandlersHandle, Next
  PROVE  HandlersHandle'
<1>0. proc \in [Worker -> Work] /\ Handlers \subseteq Worker /\ Thread \cap Handlers = {}
  BY DescriptorAssumption DEF TypeOK, Worker, Work
<1>1. CASE UNCHANGED proc
  BY <1>1 DEF HandlersHandle
<1>2. ASSUME NEW t \in Thread, Accept(t) \/ ThreadStep(t)
      PROVE  HandlersHandle'
  <2>1. \A h \in Handlers : proc'[h] = proc[h]
    BY <1>0, <1>2 DEF Accept, ThreadStep, Read, ReadFails, OpenVideo, CloseVideo, Answer,
                AnswerFails, Close, CloseStream, NoDescriptorLeft, Fault, Goto
  <2> QED BY <2>1 DEF HandlersHandle
<1>3. ASSUME NEW h \in Handlers, HandlerStep(h)
      PROVE  HandlersHandle'
  <2>0. proc[h] \in Work
    BY <1>0
  <2>1. CASE OpenFrame(h) \/ OpenSocket(h)
    BY <1>0, <2>0, <2>1 DEF OpenFrame, OpenSocket, HandlersHandle, Work
  <2>2. CASE CloseFrame(h) \/ CloseSocket(h)
    BY <1>0, <2>0, <2>2 DEF CloseFrame, CloseSocket, Goto, NoWork, HandlersHandle, Work
  <2> QED BY <1>1, <1>3, <2>1, <2>2 DEF HandlerStep, OpenFrameFails, NoDescriptorLeft, EndOfStream, Fault
<1> QED BY <1>1, <1>2, <1>3 DEF Next, TryAddress, AcceptFails, Fault

(* main starts Served: nothing is tried, and nothing runs.                 *)
LEMMA ServedInit == Init => Served
<1> SUFFICES ASSUME Init PROVE Served
  OBVIOUS
<1>1. ~ Started
  <2>1. addresses \in Seq({"no socket", "no bind", "good"}) \ {<<>>}
    BY DescriptorAssumption DEF Init
  <2>2. Len(addresses) # 0
    BY <2>1, EmptySeq
  <2> QED BY <2>2 DEF Init, Started
<1>2. OneListener /\ HandlersHandle
  BY KindsDiffer DEF Init, OneListener, HandlersHandle, NoWork
<1> QED BY <1>1, <1>2 DEF Served

(* Every step keeps it so.                                                 *)
LEMMA ServedNext ==
  ASSUME Inv, Served, [Next]_vars
  PROVE  Served'
<1>1. CASE UNCHANGED vars
  BY <1>1 DEF vars, setupVars, Served, Started, Listening, OneListener, HandlersHandle
<1>2. CASE Next
  <2>0. apart' = apart /\ addresses' = addresses
    <3>1. CASE TryAddress
      BY <3>1 DEF TryAddress
    <3> QED BY <1>2, <3>1, SetupUnchanged DEF setupVars
  <2> SUFFICES ASSUME apart, addresses[1] = "good"
               PROVE  /\ Started' => Listening'
                      /\ OneListener'
                      /\ HandlersHandle'
    BY <2>0 DEF Served
  <2>1. (Started => Listening) /\ OneListener /\ HandlersHandle
    BY DEF Served
  <2>2. HandlersHandle'
    BY <1>2, <2>1, HandlersHandleNext DEF Inv
  <2>4. CASE TryAddress
    <3>1. \A n \in Fd : owner[n] = Free
      BY <2>4, StartedTriesNone DEF Inv, QuietStart
    <3>2. PICK n \in Fd : server_socket' = n /\ owner' = [owner EXCEPT ![n] = Listener]
      BY <2>4 DEF TryAddress, Take
    <3>3. OneListener'
      BY <3>1, <3>2, KindsDiffer DEF OneListener, Inv, TypeOK
    <3>4. Listening'
      <4>0. n \in Nat
        BY DescriptorAssumption
      <4>1. n # NoFd
        BY <4>0 DEF NoFd
      <4>2. owner'[n] = Listener
        BY <3>2 DEF Inv, TypeOK
      <4> QED BY <3>2, <4>1, <4>2 DEF Listening
    <3> QED BY <2>2, <3>3, <3>4
  <2>5. CASE ~ TryAddress
    <3>1. UNCHANGED setupVars
      BY <1>2, <2>5, SetupUnchanged
    <3>2. OneListener'
      BY <1>2, <2>1, <2>5, <3>1, NoNewListener DEF OneListener, Inv, setupVars
    <3>3. ASSUME Started'
          PROVE  Listening'
      <4>1. Listening
        BY <2>1, <3>1, <3>3 DEF Started, setupVars
      <4>2. server_socket \in Fd
        BY <4>1 DEF Listening, Inv, TypeOK
      <4>3. Len(owner[server_socket]) # 2 /\ owner[server_socket] # Free
        BY <4>1, KindParts, KindsDiffer DEF Listening
      <4>4. owner'[server_socket] = owner[server_socket]
        BY <1>2, <4>2, <4>3, NoneTakenNext DEF NoneTakenAway, GivenUpByOwner
      <4> QED BY <3>1, <4>1, <4>4 DEF Listening, setupVars
    <3> QED BY <2>2, <3>2, <3>3
  <2> QED BY <2>4, <2>5
<1> QED BY <1>1, <1>2

(* Both together hold in every reachable state.                            *)
LEMMA AlwaysServed == Spec => [](Inv /\ Served)
<1>1. Init => Served
  BY ServedInit
<1>2. Inv /\ Served /\ [Next]_vars => Served'
  BY ServedNext
<1> QED BY <1>1, <1>2, Invariance, PTL DEF Spec

(* Four numbers serve any number of requests, packets and threads: if they *)
(* come apart, and the first address is good, no accept, fopen, socket or  *)
(* fdopen of the server fails for want of a descriptor.                    *)
THEOREM FourAreEnough == Spec => []NeverRunsOut
<1>1. ASSUME Inv, Served, apart, Cardinality(Fd) >= 4, addresses[1] = "good"
      PROVE  /\ Started => Listening
             /\ (\A h \in Handlers : proc[h].pc \in {"idle", "socket"}) => FreeFds # {}
             /\ \A t \in Thread : proc[t].pc = "answer" => Writable(proc[t].conn)
  BY <1>1, NumberForAll, CanAnswer DEF Served
<1>2. Inv /\ Served => NeverRunsOut
  BY <1>1 DEF NeverRunsOut
<1> QED BY <1>2, AlwaysServed, PTL

(* The socket of setupServerTCPSocket is never closed, nor is its number   *)
(* given to another, by any of the closes of handleClientRequest: main can *)
(* always accept.                                                          *)
THEOREM StaysOpen == Spec => [](apart /\ addresses[1] = "good" /\ Started => Listening)
<1>1. Served => (apart /\ addresses[1] = "good" /\ Started => Listening)
  BY DEF Served
<1> QED BY <1>1, AlwaysServed, PTL

==============================================================================
