----------------------------- MODULE RtspDialogue ----------------------------
(***************************************************************************)
(* Client and server as they read each other's messages: the requests the  *)
(* client writes, the checks and the parsing of the server, its answers    *)
(* and what the client makes of them.  One request at a time, without      *)
(* streams: RtspServer and RtspClient have the concurrency.                *)
(***************************************************************************)
EXTENDS RtspText

CONSTANTS
  Existing,   \* the names of the files and directories stat finds on the server
  Cases,      \* the client's RTP port, the name the user gives for the file,
              \* and the weekday on which it was modified
  SessionId,  \* the numbers getRandomNumber may return
  MaxCseq     \* bound on the requests a client makes

PortNumbers == 1 .. 65535
BASIC_NUMBER == 10000000
MOD_NUMBER == 89999999
RandomNumbers == BASIC_NUMBER .. BASIC_NUMBER + MOD_NUMBER - 1

ASSUME DialogueAssumption ==
  /\ Cases \subseteq PortNumbers \X Seq(STRING) \X DOMAIN DayLength
  /\ SessionId \subseteq RandomNumbers
  /\ MaxCseq \in Nat

UrlOf(name) == <<"rtsp://", "host", ":", "service", "/">> \o name

(* The file the server looks for.                                          *)
Path(url) == PathBelowCurrentDirectory(DecodeURL(url))

(* Each name the user gives is one of an existing file, and none is with a *)
(* letter more.                                                            *)
ASSUME NamesAssumption ==
  \A c \in Cases : Path(UrlOf(c[2])) \in Existing /\ Path(Append(UrlOf(c[2]), "x")) \notin Existing

VARIABLES
  port, video, day,  \* never change: one of the cases
  client,   \* status, session_id, cseq_number, server_rtp_port
  server,   \* the global variables of Server.h
  request,  \* the request on its way or being answered
  answer,   \* the lines of the answer on its way, none if it was refused
  turn      \* "send", "serve" or "receive"

fixed == <<port, video, day>>
vars == <<fixed, client, server, request, answer, turn>>

NUMBER_SIZE == 5         \* the server's
CLIENT_NUMBER_SIZE == 4  \* the client's NUMBER_SIZE
SERVER_RTP_PORT == 30000
PROTOCOL_TYPE == <<"rtp/udp">>

(* initServer                                                              *)
InitServer ==
  [status |-> "INIT", session_id |-> 0, protocol_type |-> <<>>, protocol_method |-> <<>>,
   client_rtp_port |-> 0, client_rtcp_port |-> 0, server_rtp_port |-> SERVER_RTP_PORT,
   range_start |-> 0, range_end |-> -1]

(* initClient                                                              *)
InitClient == [status |-> "INIT", session_id |-> 0, cseq_number |-> 0, server_rtp_port |-> 0]

NoRequest == [kind |-> "none", method |-> "none", url |-> <<>>, lines |-> <<>>]

(* Each value is of its kind.                                              *)
TypeOK ==
  /\ <<port, video, day>> \in Cases
  /\ client \in [status : {"INIT", "READY", "PLAYING"}, session_id : SessionId \cup {0},
                 cseq_number : 0 .. MaxCseq, server_rtp_port : {0, SERVER_RTP_PORT}]
  /\ server.status \in {"INIT", "READY", "PLAYING"}
  /\ server.session_id \in SessionId \cup {0}
  /\ server.client_rtp_port \in PortNumbers \cup {0}
  /\ turn \in {"send", "serve", "receive"}

Init ==
  /\ \E c \in Cases : port = c[1] /\ video = c[2] /\ day = c[3]
  /\ client = InitClient
  /\ server = InitServer
  /\ request = NoRequest
  /\ answer = <<>>
  /\ turn = "send"

------------------------------------------------------------------------------
(* Requests.                                                               *)

Line(name, value) == <<name, ":", " ">> \o value \o <<CRLF>>

Transport(protocol) ==
  <<protocol, ";", " ", "Compression", ";", " ", "client_port", "=">> \o Decimal[port]
    \o <<";", " ", "mode", "=", "PLAY">>

UserAgent == Line("User-Agent", <<"Networks", ":", " ", "client">>)

(* The lines of the three callbacks' requests.                             *)
Lines(m, cseq) ==
  <<Line("CSeq", Decimal[cseq]),
    IF m = "SETUP" THEN Line("Transport", Transport("RTP/UDP"))
                   ELSE Line("Session", Decimal[client.session_id]),
    UserAgent>>

Url == UrlOf(video)

Sensitive(m) ==
  CASE m = "SETUP" -> client.status = "INIT"
    [] m = "PLAY" -> client.status = "READY"
    [] m = "TEARDOWN" -> client.status # "INIT"

Ask(kind, m, url, lines) ==
  /\ turn = "send"
  /\ request' = [kind |-> kind, method |-> m, url |-> url, lines |-> lines]
  /\ turn' = "serve"
  /\ UNCHANGED <<fixed, server, answer>>

(* The cseq number is increased before it is sent: 0 is never sent.        *)
NextLines(m) == Lines(m, client.cseq_number + 1)

NextRequest(kind, m, url, lines) ==
  /\ Sensitive(m)
  /\ client.cseq_number < MaxCseq
  /\ client' = [client EXCEPT !.cseq_number = @ + 1]
  /\ Ask(kind, m, url, lines)

(* Seeded fault: it is increased after.                                    *)
SendRequest_oldCseq(m) ==
  /\ Sensitive(m)
  /\ client.cseq_number < MaxCseq
  /\ client' = [client EXCEPT !.cseq_number = @ + 1]
  /\ Ask("good", m, Url, Lines(m, client.cseq_number))

(* The client of this repository.                                          *)
SendRequest(m) == NextRequest("good", m, Url, NextLines(m))

Ranges == {<<"npt", "=", "3">>, <<"npt", "=", "3", "-">>, <<"npt", "=", "0", "-", "7">>}

(* Another client program may write its lines in another order, escape the *)
(* slashes of its URL, or ask for a range.                                 *)
SendVariant(m) ==
  \E r \in Ranges :
    NextRequest("good", m, [i \in DOMAIN Url |-> IF i > 5 /\ Url[i] = "/" THEN "%2F" ELSE Url[i]],
                Reverse(NextLines(m) \o <<Line("Range", r)>>))

(* ... or for the file only if it was modified.                            *)
SendIfModified(m) ==
  \E i \in 1 .. 3, d \in {day, "Sunday"} :
    NextRequest(IF d = day THEN "unmodified" ELSE "good", m, Url,
                Append(NextLines(m), Line("If-Modified-Since", <<Formats[i], d>>)))

(* Requests the server does not accept.  Some ask, in any request, for a   *)
(* transport it does not have.                                             *)
Defects ==
  LET cseq == Line("CSeq", <<"1">>)
      session == Line("Session", Decimal[client.session_id])
      other == Line("Session", <<"9", "9">>)
      transport == Line("Transport", Transport("RTP/UDP"))
      tcp == Line("Transport", Transport("RTP/TCP"))
      none == Line("Transport", <<>>)
  IN [method : {"SETUP"}, url : {Url},
      lines : {<<transport>>, <<cseq>>, <<cseq, tcp>>, <<none, cseq>>, <<transport, cseq, other>>,
               <<transport, <<"CSeq", " ", "1", CRLF>>>>,
               <<Line("CSeq", <<"yesterday">>), transport>>}]
     \cup [method : {"PLAY", "TEARDOWN"}, url : {Url},
           lines : {<<session>>, <<cseq>>, <<cseq, other>>, <<other, cseq, cseq>>,
                    <<cseq, session, tcp>>, <<none, cseq, session>>, <<tcp, cseq, other>>,
                    <<cseq, session, Line("Range", <<"npt", "=", "-">>)>>,
                    <<cseq, session, Line("If-Modified-Since", <<"yesterday">>)>>}]
     \cup [method : {"SETUP", "PLAY", "TEARDOWN"}, url : {Append(Url, "x")},
           lines : {<<cseq, session, transport>>}]
     \cup [method : {"OPTIONS"}, url : {Url}, lines : {<<cseq, session>>}]
     \cup IF server.status = "INIT"
            THEN [method : {"PLAY"}, url : {Url}, lines : {<<cseq, session>>}]
            ELSE [method : {"SETUP"}, url : {Url}, lines : {<<cseq, transport>>, <<cseq, tcp>>}]

SendDefective ==
  \E d \in Defects :
    /\ Ask("defective", d.method, d.url, d.lines)
    /\ UNCHANGED client

------------------------------------------------------------------------------
(* The server.                                                             *)

(* The regular expressions, on tokens.  A value is blank or has two        *)
(* characters at least, of which the last is none.                         *)
HeaderLine(line) ==
  LET s == SkipBlanks(line)
      value == SubSeq(s, 3, Len(s) - 1)
  IN /\ Len(s) > 2 /\ s[1] # ":" /\ s[2] = ":" /\ Last(s) = CRLF
     /\ value # <<>> => ToSet(value) = {" "} \/ (Len(value) > 1 /\ Last(value) # " ")

RangeFormat(value) ==
  LET number == SubSeq(value, 3, Len(value))
      i == SelectInSeq(number, LAMBDA c : c \notin ToSet(Digit))
  IN /\ IsPrefix(<<"npt", "=">>, value)
     /\ number # <<>> /\ i # 1
     /\ i # 0 => number[i] = "-" /\ ToSet(SubSeq(number, i + 1, Len(number))) \subseteq ToSet(Digit)

TimeFormat(value) == Len(value) = 2 /\ value[1] \in ToSet(Formats)

(* Seeded fault: the method is not tested against the status.              *)
MethodIsNotValidInState_never(m) == FALSE

MethodIsNotValidInState(m) ==
  IF server.status = "INIT" THEN m = "PLAY" ELSE m = "SETUP"

(* The checks of respondClientRequest before the server's state is read,   *)
(* and that of the status.                                                 *)
Refused(q, h) ==
  \/ \E i \in DOMAIN q.lines : ~ HeaderLine(q.lines[i])
  \/ ~ FieldExists(h, "cseq")
  \/ q.method # "SETUP" /\ ~ FieldExists(h, "session")
  \/ q.method = "SETUP" /\ ~ FieldExists(h, "transport")
  \/ FieldExists(h, "range") /\ ~ RangeFormat(Field(h, "range"))
  \/ FieldExists(h, "if-modified-since") /\ ~ TimeFormat(Field(h, "if-modified-since"))
  \/ Path(q.url) \notin Existing
  \/ MethodIsNotValidInState(q.method)

(* Seeded fault: the port is taken to be the last of the parts.            *)
RtpPort_last(value) == Atoi(Value(Part(value, ";", 4), "="))

RtpPort(value) == Atoi(Value(Part(value, ";", 3), "="))

ReadTransport(s, value) ==
  [s EXCEPT !.protocol_type = Part(value, ";", 1),
            !.protocol_method = Part(value, ";", 2),
            !.client_rtp_port = RtpPort(value),
            !.client_rtcp_port = RtpPort(value) + 1]

(* "npt=a-b" or "npt=a-", or "npt=b", which leaves the start as it was.    *)
ReadRange(s, value) ==
  IF "-" \in ToSet(value)
    THEN [s EXCEPT !.range_start = Atoi(Value(value, "=")),
                   !.range_end = IF Last(value) = "-" THEN -1 ELSE Atoi(Value(value, "-"))]
    ELSE [s EXCEPT !.range_end = Atoi(Value(value, "="))]

(* getRTSPInfo's loop: of several lines of a name the last one counts ...  *)
LastField(header, name) ==
  LET i == SelectLastInSeq(header, LAMBDA f : f.name = <<name>>)
  IN IF i = 0 THEN <<>> ELSE header[i].value

(* ... and the first session id that is not the server's ends it.          *)
WrongSession(header, session) ==
  SelectInSeq(header, LAMBDA f : f.name = <<"session">> /\ Atoi(f.value) # session)

(* Seeded fault: the loop goes on, and a later cseq number counts.         *)
CseqNumber_goOn(header, session) ==
  Atoi(LastField(SubSeq(header, WrongSession(header, session) + 1, Len(header)), "cseq"))

(* The cseq number, 0 if the session is not the server's.                  *)
CseqNumber(header, session) ==
  IF WrongSession(header, session) # 0 THEN 0 ELSE Atoi(LastField(header, "cseq"))

(* What the loop has written into the server's variables when it ends.     *)
ReadFields(s, read) ==
  LET t == IF FieldExists(read, "transport") THEN ReadTransport(s, LastField(read, "transport")) ELSE s
  IN IF FieldExists(read, "range") THEN ReadRange(t, LastField(read, "range")) ELSE t

FieldsRead(header, session) ==
  IF WrongSession(header, session) = 0 THEN header
  ELSE SubSeq(header, 1, WrongSession(header, session) - 1)

(* getRTSPInfo: the server's variables afterwards and the cseq number.     *)
GetRTSPInfo(header, session) ==
  [server |-> ReadFields([server EXCEPT !.session_id = session], FieldsRead(header, session)),
   cseq |-> CseqNumber(header, session)]

(* Seeded fault: the answer does not name the session.                     *)
Answer_noSession(m, s, cseq) ==
  <<<<"RTSP/1.0", " ", "200", " ", "OK", CRLF>>, Line("Cseq", Decimal[cseq]),
    Line("Last-Modified", <<Formats[1], day>>)>>

(* constructResponseMessage: the entity of SETUP follows a blank line, the *)
(* other answers end with their header lines.                              *)
Answer(m, s, cseq) ==
  <<<<"RTSP/1.0", " ", "200", " ", "OK", CRLF>>,
    Line("Cseq", Decimal[cseq]),
    Line("Session", Decimal[s.session_id])>>
  \o (IF m = "SETUP"
        THEN <<Line("Transport", s.protocol_type \o <<";", " ">> \o s.protocol_method
                 \o <<";", " ", "client_port", "=">> \o Decimal[s.client_rtp_port]
                 \o <<";", " ", "server_port", "=">> \o Decimal[s.server_rtp_port]
                 \o <<";", " ", "mode", "=", "PLAY">>)>>
        ELSE <<>>)
  \o <<Line("Server", <<"Networks", ":", " ", "server">>),
       Line("Last-Modified", ConvertTimeFormat(day, 1))>>
  \o (IF m = "SETUP"
        THEN <<Line("Content-Type", <<"text/plain">>), <<CRLF>>, <<"frame_number", "=", "2", CRLF>>>>
        ELSE <<>>)

StatusAfter(m) == CASE m = "SETUP" -> "READY" [] m = "PLAY" -> "PLAYING" [] m = "TEARDOWN" -> "INIT"

(* sendOK: a method that is none of the three gets no answer.              *)
SendOK(m, s, cseq) ==
  IF m \notin {"SETUP", "PLAY", "TEARDOWN"} THEN [server |-> s, answer |-> <<>>]
  ELSE [server |-> IF m = "TEARDOWN" THEN InitServer ELSE [s EXCEPT !.status = StatusAfter(m)],
        answer |-> Answer(m, s, cseq)]

(* The checks of respondClientRequest after that.                          *)
AlsoRefused(header, info) ==
  \/ info.cseq = 0
  \/ info.server.protocol_type # PROTOCOL_TYPE
  \/ /\ FieldExists(header, "if-modified-since")
     /\ CompareModifiedTime(day, Field(header, "if-modified-since"))

Outcome(q, header, info) ==
  IF Refused(q, header) THEN [server |-> server, answer |-> <<>>]
  ELSE IF AlsoRefused(header, info) THEN [server |-> info.server, answer |-> <<>>]
  ELSE SendOK(q.method, info.server, info.cseq)

(* respondClientRequest, in a session that getRTSPInfo opens if there is   *)
(* none.                                                                   *)
Sessions == IF server.session_id = 0 THEN SessionId ELSE {server.session_id}
Respond(q, header, session) == Outcome(q, header, GetRTSPInfo(header, session))

Serve ==
  /\ turn = "serve"
  /\ \E session \in Sessions :
       LET response == Respond(request, Parsed(request.lines), session) IN
       server' = response.server /\ answer' = response.answer
  /\ turn' = "receive"
  /\ UNCHANGED <<fixed, client, request>>

------------------------------------------------------------------------------
(* The client reads the answer: handleServerResponse.                      *)

(* getHeaderLines ends at a blank line or at the end of the answer.        *)
HeaderOf(lines) == Parsed(Before(Tail(lines), {<<CRLF>>}))

(* Seeded fault: the wrong part of the Transport line is taken.            *)
ServerPort_third(value) == Atoi(Value(Part(value, ";", CLIENT_NUMBER_SIZE - 1), "="))

(* The loop over the parts counts to NUMBER_SIZE, which happens to be the  *)
(* place of the server's port.                                             *)
ServerPort(value) == Atoi(Value(Part(value, ";", CLIENT_NUMBER_SIZE), "="))

Receive ==
  /\ turn = "receive"
  /\ turn' = "send"
  /\ LET h == HeaderOf(answer) IN
     client' = IF answer = <<>> THEN client ELSE
       [client EXCEPT
          !.status = StatusAfter(request.method),
          !.session_id = IF FieldExists(h, "session") THEN Atoi(Field(h, "session")) ELSE @,
          !.server_rtp_port =
             IF FieldExists(h, "transport") THEN ServerPort(Field(h, "transport")) ELSE @]
  /\ request' = NoRequest
  /\ answer' = <<>>
  /\ UNCHANGED <<fixed, server>>

Next ==
  \/ \E m \in {"SETUP", "PLAY", "TEARDOWN"} : SendRequest(m) \/ SendVariant(m) \/ SendIfModified(m)
  \/ SendDefective
  \/ Serve
  \/ Receive

Spec == Init /\ [][Next]_vars

------------------------------------------------------------------------------
Accepted == answer # <<>>

(* The transport of an open session is not the one supported: a request    *)
(* that was refused has named another, and the server refuses every request*)
(* that has no Transport line of its own from then on.                     *)
Locked == server.status # "INIT" /\ server.protocol_type # PROTOCOL_TYPE

(* Each request of the client, and of a program that writes the same in    *)
(* another form, passes the twelve checks in every state it is made in,    *)
(* unless another program's request has locked the session.                *)
GoodRequestsAnswered ==
  turn = "receive" /\ request.kind = "good" /\ ~ Locked => Accepted

(* None of the Defects is answered, in any state: a missing or malformed   *)
(* line, a CSeq that is no number, a session or transport other than the   *)
(* server's, a file that does not exist, a method of another state.        *)
DefectsRefused == turn = "receive" /\ request.kind = "defective" => ~ Accepted

(* What a refused request leaves of an open session: its state and its id, *)
(* and, although getRTSPInfo writes as it reads, its transport if the      *)
(* request is a SETUP or has no Transport line.                            *)
RefusalIsHarmless ==
  [][turn = "serve" /\ server.status # "INIT" /\ answer' = <<>> =>
       /\ \A v \in {"status", "session_id", "server_rtp_port"} : server'[v] = server[v]
       /\ request.method = "SETUP" \/ ~ FieldExists(Parsed(request.lines), "transport") =>
            \A v \in {"protocol_type", "protocol_method", "client_rtp_port", "client_rtcp_port"} :
              server'[v] = server[v]]_vars

(* The server sends to the port the client receives on: of every transport *)
(* it supports the Transport line is understood, and its own itoa, to      *)
(* which catchAlarm gives the port, writes the digits into the buffer it   *)
(* has.                                                                    *)
TransportUnderstood ==
  server.status # "INIT" /\ ~ Locked =>
    /\ server.client_rtp_port = port /\ server.client_rtcp_port = port + 1
    /\ server.protocol_method = <<"compression">>
    /\ Itoa(server.client_rtp_port) = Decimal[port]
    /\ Len(Itoa(server.client_rtp_port)) + 1 <= NUMBER_SIZE + 1

(* Client and server have the same session and port after each answer.     *)
ViewsAgree ==
  turn = "send" =>
    /\ client.status = server.status
    /\ client.status # "INIT" =>
         client.session_id = server.session_id /\ client.server_rtp_port = server.server_rtp_port

(* The order of the header lines decides neither whether a request is      *)
(* accepted nor what an accepted one does.                                 *)
Effect(response) == IF response.answer = <<>> THEN [answer |-> <<>>] ELSE response

OrderIsIrrelevant ==
  turn = "serve" =>
    \A session \in Sessions, p \in Bijection(DOMAIN request.lines, DOMAIN request.lines) :
      Effect(Respond(request, Parsed([i \in DOMAIN request.lines |-> request.lines[p[i]]]), session))
        = Effect(Respond(request, Parsed(request.lines), session))

(* A file that was not modified is not sent again, if the request gives   *)
(* its time in the first or the last of the three formats.                 *)
UnmodifiedIsRefused ==
  turn = "receive" /\ request.kind = "unmodified"
    /\ Field(Parsed(request.lines), "if-modified-since")[1] # "rfc850" => ~ Accepted

(* A text has the room it needs: the client's itoa gives its receiver the  *)
(* digits of the port in NUMBER_SIZE bytes and an end, and                 *)
(* convertTimeFormat writes the file's time in each of the three formats.  *)
TextsFit ==
  turn = "serve" /\ client.status = "PLAYING" /\ request.kind = "unmodified" =>
    /\ Len(Itoa(port)) + 1 <= CLIENT_NUMBER_SIZE + 1
    /\ \A i \in 1 .. 3 : ConvertTimeFormat(day, i) = <<Formats[i], day>>
==============================================================================
