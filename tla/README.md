# A verification of Video_Streaming

Video_Streaming is an RTSP/RTP video server (`server/`) and a GTK client
(`client/`), about 2500 lines of C. The server keeps **one** session and **one**
stream in global variables, serves each RTSP connection in a thread of its own
without any lock, and sends the video from a `SIGALRM` handler. This directory
models the parts of it that keep state, checks them with TLC and proves the
central results with TLAPS.

All paths below are relative to the repository.

## Inventory

| part | state | operations | what makes it correct |
|---|---|---|---|
| **RTP sender** `server/RTPPacketUtility.c`, `setTimer` of `TimeUtility.c` | `video_file_name`, `next_frame_start`, `frame_number` (16 bits), `frame_total` (32 bits), `ssrc`, the interval timer | `getVideoInfo` (SETUP), `startRTPProgress` (PLAY), `closeVideoStream` (TEARDOWN), `catchAlarm` (every 70 ms) | all frames of the file, in order, each under its own number; the stream ends, rewinds and can be played again; a new session starts at frame 0 |
| **RTSP server** `MainFunction.c`, `HandleRequestUtility.c`, `SendUtility.c`, `initServer`, `methodIsNotValidInState` | `status`, `session_id`, `protocol_type`, `client_rtp_port`, `rtp_address`; one thread per connection | accept, check, `getRTSPInfo`, `sendOK`, close | SETUP only in INIT, PLAY and TEARDOWN only with the session's id; a session keeps its id, can be ended, and streams only between PLAY and TEARDOWN, to one host; each connection is answered or closed |
| **Sockets and addresses** `ServerUtility.c`, `AddressUtility.c`, the closes of `handleClientRequest` and `constructResponseMessage` | the descriptor table of the process | address loop, accept, open and close of connections, files and packet sockets | a usable address is found (the loop does not: it tries the first one each time); each descriptor is closed by its owner, none is lost, the table never fills up |
| **Headers, strings, times** `StringUtility.c`, `compareModifiedTime`, the checks of `respondClientRequest` | transport, range, session | parsing, validation, conversion | each well-formed request is understood in whatever form it comes, each defective one refused without harm; a port or a time survives the way through text |
| **RTSP client** `CallbackUtility.c`, `HandleUtility.c`, `ClientUtility.c`, `StringUtility.c` | `status`, `session_id`, `cseq_number`, server port, the sensitivity of three buttons | one callback per button, each a connection, a request and an answer read to the end of the connection | between callbacks the client's view of the session is the server's; every callback returns and leaves no connection open |
| **RTP receiver** `client/RTPPacketUtility.c` | UDP socket, `ssrc`, picture | `startRTPProgress`, `stopRTPProgress`, `SIGIOHandler` | it runs exactly while the client plays, on a socket of its own, and shows only packets of the current stream |
| **User interface** `LayoutUtility.c` | widgets | - | - |

How the parts meet: a client's request arrives on a TCP connection; the accept
loop stores its host in `rtp_address` and starts a thread; the thread reads the
shared variables, answers, **closes the connection and only then** changes the
status; PLAY arms the timer, whose handler runs in any thread of the process and
reads and writes the same variables; packets leave by UDP to `rtp_address`.

The hard behaviours, with their lines, are the `hazards` of `PROJECT.json`:
handlers interleaved with requests, requests interleaved with each other, the
gap between answer and effect, a signal that interrupts a wait for an answer,
descriptors used after they were closed, a 16 bit number compared with a 32 bit count,
state left over from one session to the next, and liveness of streams and
connections.

## Modules

| module | models |
|---|---|
| `VideoFile` | a video file as the table of its frame offsets, and what `fread` and `atoi` give at any position, image bytes and the end of the file included |
| `RtpSender` | the static variables of `server/RTPPacketUtility.c` and every operation on them; no next-state relation of its own |
| `RtpPlayback` | `RtpSender` driven by one caller that performs SETUP, PLAY and TEARDOWN one after the other |
| `FrameStream` | what a receiver may rely on: the abstract specification `RtpPlayback` implements |
| `RtspServer` | `RtpSender` driven by request threads, with session, status and transport, the accept loop and the clients' half of a connection |
| `RtspSession` | what an RTSP client may rely on: the abstract specification `RtspServer` implements when requests do not overlap |
| `RtspClient` | the client's callbacks and RTP receiver, their sockets and SIGIO, with as much of server and network as they can tell; its server implements `RtspSession` too |
| `ServerDescriptors` | the server's descriptor table: the listening socket, the connections with their three closes, video files, packet sockets |
| `RtspText` | the conversions of both `StringUtility.c` and of `server/TimeUtility.c`, on sequences of tokens |
| `RtspDialogue` | requests, checks, parsing, answers and their reading: client and server as they understand each other |
| `RtpSenderProofs` | what the operations of `RtpSender` do to a file's position and to types: lemmas for the next two |
| `RtpPlaybackProofs`, `RtspServerProofs` | theorems about `RtpPlayback` and `RtspServer` |
| `RtspClientProofs`, `ServerDescriptorsProofs` | theorems about `RtspClient` and `ServerDescriptors` |
| `RtspTextProofs` | theorems about the conversions of `RtspText` |
| `RtspDialogueProofs` | theorems about `RtspDialogue`: what client and server read in each other's messages |
| `RtspRequestsProofs` | theorems about `RtspDialogue`: which requests the server answers |
| `MCPlayback`, `MCServer`, `MCDescriptors`, `MCDialogue` | values of the constants for TLC |

### Steps

A step ends where the code makes a system call, blocks or is otherwise likely
to be overtaken. `catchAlarm` goes through

    idle -> test -> rewind -> idle
            test -> open -> length -> header -> socket -> send -> count -> idle

`test` compares the frame number; `Finish` disarms the timer and `Rewind` resets the
variables. `open` is the `fopen` of `constructRTPPacket`, `length` its `fseek` and `fread`,
`header` is `setRTPPacketHeader` with the offset the packet is built at, `socket` is
`setupServerUDPSocket`, `send` is `sendto`, and `count` the increment after the socket is closed.
`getVideoInfo` is a step per length field read. A request thread goes through

    request -> session -> (newid) -> headers -> (scan ...) -> respond
            -> commit (-> start) | stop -> reset

`respond` is `constructResponseMessage`, which closes the connection; `commit`
is the assignment of the status; `start` arms the timer; `stop` and `reset` are
the two halves of `closeVideoStream`. In `RtpPlayback` the last two pairs are one
action each: between their halves only handler steps can come, and each commutes
with one of the halves.

`sigfillset` in `main` blocks signals in the thread that runs the handler, not
in the others, so two handlers may be in progress. `Handlers` are those that can
be, `Overlap` says whether a handler's steps are interleaved with other code.
`Overlap = FALSE` is the system as its author sees it: a handler is one
uninterrupted call. `OnlyPlayingStreams` and `StreamEnds` hold with overlap too: the first is proved
for it, the second is checked with it in the run `server`.

A callback of `RtspClient` goes through

    idle -> send -> await -> (bind -> async) | stop -> idle

with the steps after `await` those of PLAY and TEARDOWN; they follow a refused
request too. `SIGIOHandler` is one step, since all signals are blocked in it;
it may come between any two steps of a callback, and does before the next one
once a datagram has raised the signal. `call.pc = "stuck"` is a handler that
does not return. A button can be clicked when it is sensitive and no callback
runs: the error dialogs are modal, the menu has no items and the tool bar is
hidden. What the server does to a request is one step (`Serve`), or two when it
takes effect late (`Commit`). A refused request is a connection closed without
an answer, as `respondClientRequest` does it. Lost datagrams need no action:
no datagram has to come. `network`,
a variable that never changes, says what disturbs a behaviour: `sendFails`, `interrupts`
(datagrams during the wait for an answer), `lateEffect` and `lateDatagrams` (of streams
played before). `Networks` is the set of its values in a run; each property says what it needs
to be absent, and is checked with the others present. Three more such variables:

* `environment` of `RtspServer`. `apart`: a connection is accepted only after the threads of those
  before have ended. `inet`: every connection is of AF_INET, the one family whose host
  `printSocketAddress` stores. `plain`: requests have the lines the client program gives them. Without it a PLAY, a
  TEARDOWN or an OPTIONS may have a Transport line, which `getRTSPInfo` takes over before the request is
  refused or answered (`OtherTransport`), and any request may be refused after that (`RefuseHeaders`).
* `apart` of `ServerDescriptors`: the same, and a handler runs to its end before other code does. `Spacing` are
  the values a run has.
* `kept` of `RtpPlayback`: the memory `video_file_name` points to, the `url` of the SETUP thread that has
  ended, is left as it was. Without it the handler may find there any file or none (`NamesHeld`).

A step of `ServerDescriptors` is a call that takes or gives up a number. What a
thread reads on a number that is no longer its own is taken to be anything: a
request, an end without one, a stream that cannot be opened. `AddressLists` are
the address lists `getaddrinfo` may give.

`RtspDialogue` is one request at a time in three turns: the client sends, the server
serves (`respondClientRequest` from the checks to the status), the client receives.
A text is a sequence of tokens: words and separators are
one token each, digits one token per digit, so that `splitNameAndValue`, `atoi` and `itoa` work
on them as on characters. Besides the client of this repository
(`SendRequest`) there is one that writes its lines in another order, escapes its URL
and asks for ranges (`SendVariant`), one that asks for modified files only
(`SendIfModified`), and one whose requests no server should accept
(`SendDefective`). The client's port, the name the user gives for the video and the
weekday of the file are fixed at the start, one of `Cases`; the name is any that
`pathBelowCurrentDirectory` takes to a file that exists (`NamesAssumption`). `Existing` are the files and
directories `stat` finds; a request for any of them passes that check. A refused PLAY or
TEARDOWN may have named another transport: then the session is `Locked`, every later request without a Transport line is
refused, and the properties about good requests and the transport say nothing of it.

Undefined behaviour is a choice: `atoi` of bytes that are no length field gives
any of `GarbageLen`; a file name that is gone is any file's, another request's url left at the same place
of the stack, or none; an empty address leaves `setupServerUDPSocket`'s list uninitialised, which is an
earlier one, one without a host, or no list at all; a missing request line faults (`up` becomes FALSE and nothing happens
any more). The address list `setupServerUDPSocket` frees is still used for `sendto`: what the
allocator writes into it are its first 16 bytes, which are not read again, and nothing is
allocated in between, so it is taken to be intact.

A request that is refused before `getRTSPInfo` (syntax, missing fields, missing
file) has changed nothing and is the request `malformed`; one refused after it
for its transport is a SETUP with another of `Transports`, and a request refused by
`compareModifiedTime` ends in the same way. `none` is a connection closed without a
request, `OPTIONS` any other method. A packet's `Send` writes the host it was resolved to back into
`rtp_address`, over what a connection or a TEARDOWN has put there since (`target`).

## Runs

| run | shows | bounds |
|---|---|---|
| `playback` | frame count, fresh sessions, streams end; if the file name is kept, offset and number in step, no fault, refinement of `FrameStream` | a file of two and one of three frames, one frame empty; two handlers; numbers modulo 4, more than the frames of any file; both values of `kept`; unbounded sessions. 3768 states |
| `playback_wrap` (violation) | a file of as many frames as there are numbers never ends | numbers modulo 2 stand for 2^16, two frames for 65536 |
| `playback_race` (violation) | a handler outlives `closeVideoStream` and spoils the next session | two interleaved handlers; one file of two frames; numbers modulo 16, which no interleaving reaches (else the file offset, which never wraps, would make the state space infinite) |
| `server` | requests apart: session, status and stream implement `RtspSession`, a session can always be ended, out of INIT what PLAY needs is there. Overlapping ones too: every connection is answered or closed, every stream ends | two clients, two threads, an interleaved handler; apart, from the client program, 5 connections: enough for two sessions and a request of the other client in each state; apart, with any lines and address families, 3: enough for a session and a request refused in it; overlapping, from the client program, 3: a SETUP, a PLAY and one that overlaps them; overlapping, with any lines and families, 2. Two session ids, so that ids can be equal by chance; two protocols. 205577 states |
| `server_two_setups` (violation) | two SETUPs take effect | 3 connections |
| `client` | agreement of client and server, the receiver's life, port and descriptor, the right stream, no leak, every callback returns, no datagram is left behind, the server is a session; each in every network that does not hold what the property excludes | three descriptors: one for the receiver, one for the connection, and one that a failed send leaks; two streams, the least for one to disturb the next; two buffered datagrams, so that a queue can mix two streams; three networks, in which each property meets all the disturbances it does not exclude. 12360 states |
| `client_interrupt` (violation) | a TEARDOWN whose wait is interrupted leaves the client in PLAYING | the same |
| `client_hang` (violation) | a SIGIO handler that reads a callback's connection never returns | the same |
| `descriptors` | no descriptor is lost in any interleaving; apart, each is closed by its owner, four are enough and every connection ends | four numbers: listener, connection, video, and one of the handler's; two threads, one handler; address lists of up to two addresses. 60402 states |
| `descriptors_reuse` (violation) | a thread closes the connection of another | overlapping requests, the same |
| `dialogue` | good requests in every form are answered, unless the session is locked, and leave client and server with the same session and ports; those of `Defects` are refused, and leave an open session what `RefusalIsHarmless` says; the order of lines does not matter; an unmodified file is recognised in two formats | 3 requests of the client, so that each session has SETUP, PLAY and TEARDOWN, and any number of defective ones; ports of one and five digits, the greatest included; a plain name and one with `..` and doubled slashes; weekdays whose rfc850 text fits and does not; three existing names. 57236 states |
| `dialogue_buffers` (violation) | the client's port and a Wednesday's rfc850 text are longer than their buffers | the client's only port, 25000, and the longest name of a day |

The seven violation runs are the `findings` of `PROJECT.json`; `dialogue_buffers` shows two of them.

Deadlock is not checked where the process may fault or the bound on connections
or on streams is used up; in `playback` and `dialogue` it is. `CallbackEnds` says of the client
and `ConnectionEnds` of the server what a check of deadlock would.

### Fairness

`FairSpec` assumes weak fairness of each handler (the kernel delivers the signal of an
expired timer and schedules the thread it interrupts) and, in `RtspServer`,
of each request thread (threads are scheduled and their calls return). In
`RtspClient` the handler and the server are weakly fair and the steps of a
callback strongly fair: each signal suspends the callback, but signals come
once a frame and a callback's step takes far less. In `ServerDescriptors`
handlers are weakly and threads strongly fair, for the same reason. Nothing is assumed of
clicks or clients: they may stop making requests at any time. Liveness
properties admit a fault of the process.

### Seeded faults

Operators named `X_fault` before a definition `X` change it the way a plausible slip would:
a reset forgotten, an end test off by one, a connection left open. Each
property of a passing run is violated by at least one of them (`mutants` in
`PROJECT.json`).

## Proofs

Every theorem holds for all values of the constants: files, frame tables, number widths, clients,
threads, handlers, descriptors, networks. The assumptions on constants are named in the
modules that declare them and evaluated by the runs. What a theorem needs beyond them is
in its statement: `ASSUME`, or the premise of the property (`apart`, `Without(...)`).

### Playback

`RtpSenderProofs` has what both drivers of the sender need: what reading at a frame's start
gives (`FrameStarts`, `LengthsRead`, from `VideoFile`'s assumption that a frame is a length
field and its bytes), and that a handler's step and a scan keep the types of `RtpSender`.

`RtpPlaybackProofs`, in three layers:

* With or without overlap: `TypeCorrect`, and `TimerOnlyInPlaying` (`OnlyPlayingStreams`), which is not
  inductive: it needs that the status stays INIT while a file is scanned.
* If `Overlap = FALSE`, for files of **any** length, also those whose number wraps:
  `CountIsRight`, `StartsFresh` and `HandlerHasFile`. Their invariant is `SessionInv`: only one
  handler runs and only while the timer is armed or just disarmed, the file is open exactly out of INIT, a
  scan stands at the start of a frame and has counted those before it. `HandlerHasFile` (`NeverFaults`) has the
  premise `kept`: where the dead stack was written over, the handler may find no file at all.
* If in addition every file has fewer frames than `SeqMod` (`VideosFit`): `OffsetFollowsNumber` (`InSync`),
  `PlaybackSafe` (`PlaybackInv`, which is `SessionInv` with `InSync` and that a handler past its test has a
  frame to send), and `PlaybackStreams`: playback implements `FrameStream`. What they say of the file the
  handler reads has the premise `kept` too.

`playback_race` and `playback_wrap` are what happens without the two conditions.

### Server

`RtspServerProofs`:

* In every interleaving of any number of threads and handlers: `TypeCorrect`. It needs where a
  thread may be with its request (`StepFits`).
* If requests come apart, with handlers interleaved all the same: `PlayIsPrepared` (`ReadyToPlay`),
  `TimerOnlyInPlaying`, `SomeoneCanEnd` (`SessionCanBeEnded`), `SetupApart`, and `ImplementsSession`: the server
  implements `RtspSession`. The invariant is `Apart`: one thread runs; what it tested on
  its way still holds where it uses it (`Progress`); out of INIT everything a handler uses is there (`SessionComplete`): `PlayIsPrepared` says which part of it needs `plain`
  and which `inet`.
  `server_two_setups` is what happens without `apart`: `SetupApart` is the property it violates.

### Client

`RtspClientProofs`, each theorem with the disturbances it admits:

* In every network: `TypeCorrect` and `StartsFresh` (`FreshReceiver`), from `Inv`, which ties the buttons to
  the status, the connection to the request under way (`OwnRequest`) and says what remains
  when the socket is closed.
* `NothingLeaks` (`NoLeak`): unless a send fails, from `OneConnection`.
* `ShowsCurrentStream` (`TunedIn`): unless datagrams are late, from `Tuned`: while a SETUP may be served, the
  receiver has no socket or has lost it for good.
* If the server acts before it answers, with interrupted waits and failing sends: `NamesItsSocket`
  (`OwnDescriptor`), `NeverStuck`, `PortIsReleased` (`PortReleased`), and `ServesSession`: the server implements
  `RtspSession`. The invariant is `Prompt`: before the answer the server is where the client is,
  or has ended a session that the client has given up (`Following`); after it, it is where
  the answer will take the client (`Leading`); a request left behind by an interrupted wait is a
  TEARDOWN of an old session (`OldRequests`).
* If in addition no wait is interrupted: `AgreeIfPrompt` (`AgreementIfPrompt`) and `ReceivesWhilePlaying`
  (`ReceiverReady`), from `Calm`.

`client_interrupt` and `client_hang` are what happens with the disturbances excluded.

### Descriptors

`ServerDescriptorsProofs`:

* In every interleaving, although threads do close each other's descriptors in some: `TypeCorrect` and
  `NothingLeaks` (`NoLeak`). The latter is proved kind by kind (`AllHeld`): a step changes the record of one
  worker and gives numbers only to that worker or to nobody, so no other's is disturbed.
* If requests come apart: `ClosesOwn` (`OwnDescriptorsApart`). It needs why the second and
  third close are harmless (`InOrder`): one thread and one handler run at most, a
  worker has what it will close until it closes it, and after the first close the number is
  free or its own, never the listener's. `descriptors_reuse` is what happens without `apart`.
* If also the first address is good: `StaysOpen` (main can always accept) and `FourAreEnough`
  (`NeverRunsOut`). The invariant `Served` says that the listener has one number; a thread has two at
  most and a handler that wants one has none, so three are taken when a fourth is asked for.
  The address loop uses the first address each time, so without a good one there is no listener.

### Text

`RtspTextProofs` proves, for every number, however long:

* `ItoaIsDecimal`: the two loops of `itoa` (the greatest power of ten, then a digit for each) write the
  decimal form, as `printf` does.
* `NumbersSurvive`: `atoi` of what `itoa` wrote, at the end of a text or before a token that is no digit, is the
  number.
* `PortsFit`: five digits and the end are enough for every port. `ClientNumbersFit`: the client's buffer has room for
  the numbers below 10000 and for no other, so not for the client's only port, 25000 (`dialogue_buffers`).

These are inductions. The library's induction theorems cannot be instantiated by the installed
provers, but `WFMin` can: a set of numbers without a least counterexample is all of them (`Induction`). That
`Decimal`, `Power`, `Digits` and `Number` are functions at all, and satisfy their defining equations,
follows the same way (`Recursion`: a function on the smaller arguments extends to the next).

### Dialogue

`RtspDialogueProofs` follows the messages token by token through `splitNameAndValue` and `atoi`, for every port, name of the file, weekday and session number:

* A text is cut at its first separator, whatever follows it (`CutAt`, `SplitAt`); so
  the Transport line of a request gives its protocol, its method and its port (`TransportIsRead`), the
  one of an answer the server's port (`AnswerTransportIsRead`), and a line its name (`NameOfLine`).
* Each line of each request, good or defective, asks for the client's transport, the same with another protocol, an
  empty one or none (`OKLines`). What `getRTSPInfo` makes of such lines, whether it
  ends early or not, is `InfoIsRead`; what the client finds in an answer is `AnswerIsRead`.
* The invariant `Inv` says of the server that it knows no transport or one that a request asked for (`TransportKnown`) and out
  of INIT has an id (`Open`); of both that they agree, or that the answer on its way
  tells the client what it needs to agree (`Tells`).
* From it: `TypeCorrect`, `PortIsUnderstood` (`TransportUnderstood`), `SameView` (`ViewsAgree`) and `RefusalLeavesSession`
  (`RefusalIsHarmless`): an open session refuses SETUP before `getRTSPInfo`, and of the other requests only a
  Transport line writes the transport.

`RtspRequestsProofs` then decides each of the twelve checks of `respondClientRequest`, for the same values and every name that
satisfies `NamesAssumption`. A request on its way is `Complete` (the client's, or the same in another order, with
escapes, a range or a time) or one of `Defects` (`RequestFormed`).

* No name has two values in the lines of a complete request, so what `fieldExist` finds and what `getRTSPInfo` assigns depends
  only on which lines there are (`SameFields`, `SameEffect`), although the loop of `getRTSPInfo` ends at a
  wrong session: `OrderOfLines` (`OrderIsIrrelevant`).
* A complete request has what every check looks for (`CompleteIsRead`) and is refused only by `compareModifiedTime`
  (`CompleteIsServed`) unless the session is locked: `GoodAnswered` (`GoodRequestsAnswered`) and `UnmodifiedRefused` (`UnmodifiedIsRefused`).
* In each defective one a check finds something `Wrong` (`DefectIs`, `WrongIsRefused`): `DefectiveRefused` (`DefectsRefused`), for
  the list `Defects` and no other request. That a URL with one more token at its end names no file that exists is
  the second half of `NamesAssumption`.

The three about answers follow from the inductive invariant `Served`: `Inv`, `RequestFormed` and the three themselves. `Inv` is needed
because a check compares a line with the server's state: that the session a
complete request names is the server's is what the agreement of both sides gives.

### Only model-checked

Liveness (`StreamEnds`, `Answered`, `ConnectionEnds`, `CallbackEnds` and the like), which the provers cannot reach.

## Plan

1. Done: `VideoFile`, `RtpSender`, `RtpPlayback` with `FrameStream`, their proofs;
   `RtspServer` with `RtspSession`; `RtspClient`, whose server is a `RtspSession` too;
   `ServerDescriptors`; `RtspText` and `RtspDialogue`.
2. Done: proofs of the safety properties and refinements of `RtpPlayback`, `RtspServer`, `RtspClient`,
   `ServerDescriptors` and `RtspDialogue`, and of the conversions of numbers.
3. `StreamingSystem`: `RtspClient`'s callbacks against `RtspServer` itself and a network that loses
   answers and datagrams. `RtspSession`, which both implement, stands between them
   meanwhile.

## Not modelled

* GTK layout and the picture file; logging; the command lines.
* The regular expressions but those of header lines, ranges and times, and of
  these only what tokens tell apart: the request line, the day and month names of a
  date. `RtspDialogue`'s requests have well-formed request lines.
* Locks inside the C library (the handler calls `malloc` and `fopen`), its static
  date buffers that threads share, memory exhaustion and leaks of memory.
* `range_start` and `range_end` are set as the code does, which never uses them.
* `sendNotModified`, which is never called.
* The lengths of `protocol_type` and `protocol_method`, 16 characters each (`Server.h`, 96-97): `strcpy` writes into them
  what a Transport line has. The lines of `RtspDialogue` fit.
* Requests that are answered for other existing files and directories: only `stat` is asked, and `Existing` says what it finds.
* Two clients at once in `RtspClient`, and both whole programs in one model.
