# A TLA+ model of dlms-transport

dlms-transport is a C++11 library that moves DLMS/COSEM bytes and datagrams over TCP, UDP,
serial lines and TLS, behind two small interfaces (`IByteStream`, `IDatagramTransport`) and
without exceptions: every call returns a `TransportStatus`. This directory holds TLA+ modules
that model the library, TLC configurations that check them on small instances, and proofs for
TLAPS. Paths are relative to the repository; `PROJECT.json` maps every definition to its lines.

Run a check with `tlc -config Streams.cfg Streams` and a proof with
`tlapm StreamsProofs.tla`. `PROJECT.json` lists which module each configuration belongs to.

## The system

| Component | State | Operations | Used by / uses |
|---|---|---|---|
| `IByteStream` (`byte_stream.hpp`) | contract | Open, Close, IsOpen, ReadSome, WriteAll | the contract of the four streams below |
| `TcpStreamTransport` | `open_`, `socket_` | the same | getaddrinfo, non-blocking sockets, select |
| `AcceptedTcpStream` (in `tcp_server_transport.cpp`) | `open_`, `socket_` | the same; Open never connects | made by the server's Accept |
| `SerialTransport` | `open_`, `handle_` | the same | one device node |
| `TlsStreamTransport` | `open_`, two borrowed pointers | the same | a lower `IByteStream` and an `ITlsStreamBackend` |
| `TcpServerTransport` | `open_`, `socket_`, `localPort_` | Open, Close, Accept, LocalPort | Accept is called on one thread, Close on another (its own test does so), with no lock |
| `IDatagramTransport` | contract | Open, Close, IsOpen, Send, Receive | |
| `UdpTransport` | `open_`, `socket_`, `remoteConfigured_`, `localPort_` | the same, LocalPort | |
| `ManualTransportEventLoop` | `nextToken_`, `registrations_` | Register, RegisterTimer, Unregister, SetReady, DispatchOnce | calls the application back, which calls the loop again |
| `FakeByteStream`, `FakeDatagramTransport`, `FakeTimerScheduler` | queues, flags | those of the interfaces | tests of library users |
| C API (`transport_c_api`) | a handle around a transport | create, destroy, and the calls | C applications |
| Mode E helpers (`iec62056_21_mode_e`) | none | parse, format, baud-rate codes | serial sign-on |
| `TransportStatus`, `ToString` | none | | every component; the C API by casts |
| `TimerScheduler` | none | MonotonicMilliseconds, SleepFor | the C API |
| serial port discovery, trace hooks, non-blocking interfaces | none | | |

What is hard in this code:

* **Sequences of system calls with an owner for each result.** Each Open walks an addrinfo list;
  a socket and the list have to be released on each of a dozen exits. UdpTransport's Open resolves,
  walks and frees a second list for each address of the first.
* **The world moves between two system calls.** Bytes, closes, resets, datagrams, ICMP errors and
  clients arrive or disappear between select and the call that select was for.
* **Partial results.** send and recv do a part of the work; a timeout falls in the middle.
* **Threads without locks.** Accept copies a descriptor number and uses it after a wait; Close
  frees the number; the process may give it to another socket.
* **What is left in the caller's variables.** The C API and the Mode E helpers write through pointers
  and references to variables that are uninitialised or served an earlier call; every early return
  must leave them harmless. Two status enumerations are kept equal only by hand.
* **Callbacks that re-enter.** DispatchOnce delivers a snapshot, and what it delivers to may have
  been changed by the callbacks before it.

What makes each component correct is stated as the properties below. The hazards, with the line at
which each bites and the properties that watch it, are listed in `PROJECT.json`.

## Modules

| Module | Models | EXTENDS / refines |
|---|---|---|
| `Transport` | status codes, results, bytes | |
| `ByteStream` | what a caller may rely on in `IByteStream` (abstract) | Transport |
| `Datagram` | what a caller may rely on in `IDatagramTransport` (abstract) | Transport |
| `TcpStream` | `TcpStreamTransport` | refines ByteStream |
| `AcceptedTcpStream` | `AcceptedTcpStream` | extends TcpStream, refines ByteStream |
| `Serial` | `SerialTransport` | extends TcpStream, refines ByteStream |
| `Streams` | the three of them side by side; the run's module | extends AcceptedTcpStream and Serial |
| `TlsStream` | `TlsStreamTransport` over any lower stream and backend | Transport |
| `TcpServer` | `TcpServerTransport` on three threads | Transport |
| `Udp` | `UdpTransport` | refines Datagram |
| `EventLoop`, `MCEventLoop` | `ManualTransportEventLoop` | |
| `Fakes` | `FakeByteStream` and `FakeDatagramTransport`, scripted by a test | refines ByteStream and Datagram |
| `CApi` | the C functions over the transports, and a C program's handle variables | Transport |
| `ModeE`, `MCModeE` | the Mode E helpers and a client that chains them | |
| `StreamsProofs`, `TlsStreamProofs`, `TcpServerProofs`, `UdpProofs`, `EventLoopProofs`, `FakesProofs`, `CApiProofs`, `ModeEProofs` | theorems | the module each is named after |

**How code becomes actions.** A call is split at its system calls (in `TlsStream`, at the calls to
the lower stream and the backend; in `TcpServer`, also at each load and store of a shared member).
`pc` names the next one. `CallX` is the entry of X up to its first system call, with all its early
returns; each system call is one action or, where the outcomes do different things, one action per
outcome; the code after it, up to the next one, belongs to that action. `Return(op, status, n)`
ends the call: `ret` holds the result and `pc` is `"idle"` again. In `Fakes` and `CApi`, whose code
makes no system call of its own, a call is one action. The peer, the network, a device
and other threads are actions of their own (marked external in the map), so they run between any
two system calls.

**The contracts.** `ByteStream` and `Datagram` say what every implementation promises: the real ones
and the doubles. A byte stream's peer may send any number of bytes at once, and a WriteAll that
returns a failure (WouldBlock included, which a double may be scripted to return) has sent a part of
its buffer or nothing. The statuses are those of the two headers; Open may also return `Timeout`, which
`tcp_stream_transport.hpp:41` adds. A stream that met an error may stay open until Close: the header
speaks of the peer's close only. `TcpStreamTransport::Open` has one status more than its header
(`OpenStatusDocumented` below), so `ImplementsByteStream` admits, besides the contract's steps, the one
step `OpenReportsWriteFailed`, and nothing else.

**The application under TLS.** The lower stream belongs to the application, so in `TlsStream` it may
open and close it between any two calls; `direct` records the sessions it opened while the TLS
stream was open.

**A C program.** In `CApi`, `handle` is the program's typed handle variables, uninitialised
(`garbage`) at first; `given` is those whose address some create function was given. The program
follows the conventions the API relies on: it passes to create a variable that holds no handle, uses a
variable only after that, whatever create returned, and forgets a handle it has destroyed. The
transports behind the handles answer with any status their interfaces and the models above allow.

**Mode E.** A message is a sequence of the characters the parser tells apart. The client calls the
helpers one after the other and goes on whatever status it got, with variables that may have served
another meter. `MeterSpeed`, `IsIdentification` and `OffersModeE` are the reference: the meter's side,
stated without the code's tables and index arithmetic.

**Data.** A byte written is the pair of its WriteAll's number and its index in the buffer, so that a
repeated, skipped or swapped byte shows. Bytes read are counted: TCP delivers them in order and the
code only passes them on. A datagram is a number, a size, and whether the remote sent it. Hosts,
ports and names are reduced to whether they pass the argument checks. Timeouts are the possibility
that select returns 0, except in `TcpServer`, which counts ticks because a test is about them.

**Correspondence, where the names differ from the code.** `live` is the set of descriptors the
object has open, as the operating system sees it; `resolved` says that an addrinfo list is
allocated; in Udp, `lists` and `localLists` count the allocated lists of the outer and the inner
loop of Open, `addresses` and `locals` what is left of each, and `bound` is the local of that name;
`conn`, `fin`, `soError`, `avail` and `wire` describe the TCP connection; `base`, `wid`, `arrived`,
`got`, `origin`, `age`, `overlapped`, `ids`, `armed`, `fired`, `owed`, `early`, `spoiled`, `direct`,
`scripts`, `started` and `cpp` are history variables, which guards read only to bound a run. In
`Serial`, `socket_` stands for `handle_`, `fin` for the hang-up and `avail` for the input queue. In
`TcpServer`, `pc` is the owner's thread and `apc` the acceptor's; `table` maps descriptor numbers to
sockets. In `EventLoop`, `frames` is the stack of DispatchOnce calls in progress; a C++
`std::function` destroyed while it runs may go on or crash (`crashed`).

**Undefined behaviour.** `TcpServer` reads `open_` and `socket_` unsynchronised; the model takes
each access as one atomic step in program order. `FD_SET(-1)`, which the race makes possible, may
end the process (`SelectCrashes`) or be harmless.

**Faulty variants.** Definitions commented "Faulty variant" are no part of a specification. Each is
a plausible mistake in the definition that follows it, and the property named with it in
`PROJECT.json` fails when it is put in its place.

## Runs

Passing runs:

| Run | Shows |
|---|---|
| `Streams` | for a client's, an accepted and a serial stream: `DescriptorsOwned`: every descriptor and addrinfo list has one owner at every step. `OpenOutcome`: Open's status agrees with `open_` and with a connection that was made. `ClosedMeansDrained`: data before the peer's close is delivered first. `WriteExact`: a buffer is sent once, in order, or a proper prefix of it. `ImplementsByteStream`: refinement of the contract, up to the client's `WriteFailed` from Open, over any number of sessions. `AcceptedIsOnce`: a closed accepted stream stays closed. `CallsReturn`: every call ends. |
| `TlsStream` | `HandshakeFirst`: the stream is open, and transfers, on a lower session without a successful handshake only if the application opened that session itself while the stream was open. `LowerReleased`: no lower session survives a Close or a failed Open, whichever status the handshake failed with. |
| `TcpServer` | calls racing in a process that reuses descriptor numbers: `DescriptorsOwned`: no leak and no close of someone else's number. `ConnectionIsOurs`: an Accept that no Close overlapped takes connections of this server only. `AcceptReturns`: every Accept ends. |
| `Udp` | `DescriptorsOwned`: one owner for the socket, the outer and each inner addrinfo list of Open. `DatagramsConserved`: received once, in order, or still queued; only those with a bad checksum (`spoiled`) go missing. `TooSmallIsTrue`: a datagram reported too large is, and stays. `WholeDatagrams`: unless the network corrupts datagrams, none is handed over in part. `ImplementsDatagram`: refinement of the contract on the same condition; in it a failed Send has sent nothing. `StrangersOnlyEarly`: an endpoint with a remote receives others' datagrams only if they came between bind and connect. |
| `EventLoop` | `DeliveredToOwner`: no event reaches another registration's callback. `TimerConservation`: each arming of a timer is pending, in exactly one snapshot, or fired. `ReadyIsServed`: nothing ready is starved. |
| `Fakes` | `ScriptPlayed`: what was handed over and what is still queued is what was scripted, in order, with datagram boundaries. `FakeImplementsByteStream`, `FakeImplementsDatagram`: code tested on a double, scripted with statuses that end no session, has met nothing the interface forbids. |
| `CApi` | `TranslationFaithful`: statuses, their names, parity and stop bits arrive as they were meant. `HandlesOwnTransports`: after any create, also a failed one on an uninitialised variable, the variable is null or a transport of its own; no transport is lost, and none that is gone keeps an OS handle. `NoStaleCount`: a read that failed or was refused leaves a count of 0. |
| `ModeE` | `IdentificationIsMeters`: the parser accepts exactly the identifications and leaves nothing of an earlier meter. `SpeedsAgree`: meter and client switch to the same speed, which the meter offered in mode E and the client asked for. |

Runs that end in a violation; each states what a document, a comment or a test of the repository
says, and TLC's trace is a behaviour of the code:

| Run | Disagreement |
|---|---|
| `TcpStreamSigPipe` | a write to a connection the peer closed and then aborted raises SIGPIPE; the requirements say status codes only. |
| `TcpStreamOpenStatus` | select fails while the last address is connecting, and Open returns `WriteFailed` (`tcp_stream_transport.cpp:233`); its header lists Ok, AlreadyOpen, InvalidArgument, Timeout and OpenFailed. |
| `UdpCorrupt` | select reports a datagram whose checksum turns out bad; FIONREAD says 0, and a larger datagram that arrives before recv is truncated and returned with Ok; the API document says boundaries are preserved. |
| `TcpServerUnblock` | on Linux close does not end a select on the descriptor, so Accept sleeps until its timeout; the test `CloseUnblocksAccept` expects its status within 2 of the 5 seconds. With `AcceptTimeout = 1` the trace is another: Close and a new listener between Accept's re-check and its accept, and Accept returns Ok with a connection, where the same test expects a failure. |

Smaller disagreements, seen in the models but without a run of their own: Accept returns
`WouldBlock` when the client leaves between select and accept (`tcp_server_transport.cpp:422`),
which the header does not list. The state diagram at `docs/architecture.md:157` closes a transport
on a fatal error too, but a connection whose reset was reported as `ReadFailed` or `WriteFailed`
stays open until Close (`tcp_stream_transport.cpp:302`), which `byte_stream.hpp` and hence the contract
leave open. `SerialTransport::Open` validates the line settings and never applies them, although `docs/00_transport_requirements.md:148` asks for it. After the lower stream
of a TLS stream closed itself, `IsOpen()` is false while Open returns `AlreadyOpen`
(`tls_stream_transport.cpp:54`); Close leads out. A `FakeByteStream` scripted to return
`ConnectionClosed` stays open, where `byte_stream.hpp:28` has the stream closed, so the run does not
script that status; the test plan lists a `FakeByteStream_peerClose` that does not exist. A double's
Close keeps what was scripted and captured, so a leftover is read in the next session.

### Bounds

* Descriptors: 2. The streams never hold more than one (`DescriptorsOwned`), and a second number is
  enough for a closed one to be told from a new one. In the server, 2 numbers make reuse the rule;
  the listener and one client fill the table.
* Addresses: 2 in TcpStream and Udp, so that an address fails after, and before, another (in Udp, in
  each local list too); 1 in the server, whose loop has no state that survives an iteration.
* Sizes: buffers of 0, 1 and 2 bytes: nothing, a transfer in one piece, and one that can be split.
  2 inbound bytes and 2 writes per session give a second transfer after a partial or failed one.
  Sessions are not bounded: the counters restart with each Open.
* Datagrams: one Send and 2 arrivals of 0 to 2 bytes and buffers of 0 to 2, so that "fits", "fits
  exactly", "does not fit" and "empty" all occur with another datagram behind. Networks that corrupt
  datagrams and networks that do not are both initial states.
* Server: 3 sockets ever created, enough for the listener, a foreign or a new listener on its
  number, and a client. With 4, the safety properties hold as well; the search with liveness then
  takes longer than is practical. `AcceptTimeout` is 1 tick, or the 5 seconds of the test in
  `TcpServerUnblock`.
* Event loop: 3 registrations, nesting 2, 2 calls per callback (enough to unregister and register
  anew), 2 armings per timer. One non-empty mask: the code treats bits alike.
* TLS: 3 lower sessions; the run covers a failed, a closed and a reopened one.
* Fakes: 2 scripted chunks or datagrams of 0 to 2 bytes and 2 captured writes, so that a chunk is read
  in two parts with another behind it. One failing status stands for those a test may script.
* C API: 2 handle variables of all pairs of types, 2 heap addresses, so that one address is reused by
  another transport.
* Mode E: every body of up to 7 characters over the marker's two, its digit and another code, which
  puts the marker at every position from the fifth on, twice, cut off, and before a wrong digit; rates
  0, 2 and 6 and one beyond each end.

Deadlock is checked in `CApi` and `Fakes`. Elsewhere it is not: an object may be destroyed, the
process killed, or a bound reached.

### Fairness

* `Streams`: weak fairness of the thread's own steps: a thread in a call is scheduled, and select,
  with a finite timeout, returns. Strong fairness of a send that accepts something (or fails on a
  broken connection): a socket that select again and again reports writable does not answer EAGAIN
  forever. The code retries without limit and relies on it (`tcp_stream_transport.cpp:336`); without
  it `CallsReturn` is false.
* `TcpServer`: weak fairness of the acceptor's thread, strong fairness of the clock. Nothing is
  assumed of clients or of the other threads.
* `EventLoop`: weak fairness of the loop's own steps and of DispatchOnce at top level: the
  application keeps calling it, as the interface intends, and callbacks return.

## Proofs

`StreamsProofs` proves of a client stream, for every set of descriptors and every bound, `Spec =>
[]TypeOK`, `[]DescriptorsOwned`, `[]OpenOutcome`, `[]ClosedMeansDrained` and `[]WriteExact`, from
`TcpStreamAssumption` alone (`kInvalidSocket` is no descriptor; the bounds are naturals, and
addresses and sizes not 0).

None of the five is inductive. `IInv` is their conjunction with:

* `OpenInv`: `finalStatus` is not Ok while addresses are still being tried, is a failure when the
  list is exhausted, the list is not exhausted while a candidate exists, and the connection of a
  candidate that passed the check is established. `OpenOutcome` needs it when Open returns, since the
  status is decided several steps earlier, possibly on another address.
* `ReadInv`: delivered and queued bytes add up to those that arrived unless a reset dropped some.
  `ClosedMeansDrained` needs it at the recv that finds the queue empty.
* `UseInv`: the socket calls of ReadSome and WriteAll are made on an open stream, which gives
  `DescriptorsOwned` at the close after the end of the stream.

`WriteExact` rests on the lemma `BytesJoin`: what was sent, continued with the next chunk, is
the buffer's longer prefix. The proof has one lemma per group of actions (Open's steps, entries,
reads, writes, the peer), one step per action in it, and under it one per conjunct the action can
disturb.

The same module proves `Spec => ImplementsByteStream`, step by step, that is, up to the one
undocumented status of Open. The mapping shows a session from
the return of Open to the close, and counts the bytes of a WriteAll only when it returns, so most
steps are stutters (`Unseen`), the returning ones are the contract's calls (`Refused`, `WriteReturns`
and the close, `DownEndsSession`), and the peer's are its environment. Besides `IInv` this needs
`SessionInv`: a session starts with nothing sent or delivered, a WriteAll at the socket has a number,
and only a reset discards bytes, which is what makes a `ConnectionClosed` with bytes missing a broken
connection in the contract's sense. `TcpKeepsContract` then says it without the exception:
`Spec /\ []OpenStatusDocumented => Stream!Spec`, where `Stream!Spec` is the contract itself.

The rest of the module carries all of this over to the other streams, again for every bound. A step
of an accepted stream or a serial line is a step of TcpStream or one of five of its own (`OwnStep`:
the accepted Open, the two outcomes of the serial Open, a read of nothing and a read that fails);
these keep `IInv` and `SessionInv` and are the contract's. Hence, for the specification the run
checks, `StreamsSpec => []` of the five invariants, `StreamsSpec => ImplementsByteStream`, and
`StreamsSpec => AcceptedIsOnce`. The last needs that an accepted stream never enters the connecting
steps of Open; so does `OthersKeepContract`, that accepted and serial streams refine `Stream!Spec`
without exception. `StreamsKeepContract` puts the three kinds together under
`[]OpenStatusDocumented`. The accepted stream's own specification has its theorems too.

`EventLoopProofs` proves `[]TypeOK`, `[]DeliveredToOwner` and `[]TimerConservation` for every number of
registrations, every nesting and every set of masks (`EventLoopAssumption`: masks are sets of events,
the bounds naturals). The argument is that tokens are never reused: `TokensFresh` says that a
registration's id is its token and that `nextToken_` is beyond all of them, and `SnapshotsOK` that a
token in a snapshot, on whatever level of the stack, was handed out and still means the registration
it was collected from, or none. `TimersOK` is the balance by token: armings = firings + the frames whose
snapshot holds the token + one if the expiry is still to be collected. It needs facts on the cardinality
of a set of frames when a frame is pushed, popped, or loses a token.

`UdpProofs` proves all six invariants of `Udp` and `Spec => ImplementsDatagram`, from
`UdpAssumption` (`kInvalidSocket` is no descriptor, the bounds are naturals, an addrinfo list is not
empty). `CallInv` and `SessionInv` say what holds at the steps of a call. `Ordered` (what was
received and what is queued have rising numbers) and `Lossless` (each number that arrived is
received, queued or `spoiled`) give `DatagramsConserved`. The step that needs an argument is the
kernel's checksum test, which drops datagrams up to the first good one: `LeastPosition` (by the
well-foundedness of <) gives that one, and what stands before it is spoiled. `WholeDatagrams`
depends on a value that is read in one system call and used in the next: `RecvInv` says that what
select and FIONREAD found still holds at recv, since only the object itself takes datagrams from the
front of the queue. On a network that corrupts datagrams it is false, which is what the run
`UdpCorrupt` shows.

`TcpServerProofs` proves `[]TypeOK`, `[]DescriptorsOwned` and `[]ConnectionIsOurs` for any number of
descriptors and sockets, with the owner's thread, the acceptor and the rest of the process
interleaved in every way (`TcpServerAssumption`). Descriptor numbers are reused, so the invariant
speaks of sockets, which have numbers of their own: `SocketsInv` (no two descriptors mean the same
socket, and a new one is none of the old), `HeldInv` (the socket behind each descriptor the server,
Accept or its caller holds), `OwnerInv` and `AcceptInv` (the two members and the locals at each
step), and `UndisturbedInv`: while no Close overlaps an Accept, the listener it copied is still the
server's. After a Close has overlapped, nothing of the kind holds, as `TcpServerUnblock` shows with a timeout of 1. A
crash (`FD_SET(-1)`) stops the process, and the invariant then says only that it has.

`TlsStreamProofs` proves `Spec => []TypeOK`, `[]HandshakeFirst` and `[]LowerReleased` for every number
of lower sessions, from `TlsStreamAssumption` (that number is a natural). The invariants speak of the
state between calls and of `open_`, so each needs what holds at the steps inside a call, `CallInv`:
`open_` is set while the backend reads, writes or closes and clear while Open runs; Open runs only
past the check of the configuration, which is what makes `lower_` non-null whenever Close reaches it;
an open lower stream has a session, so the one the handshake secures is not 0; and the status of a
failed handshake is kept until the lower stream is closed.

`CApiProofs` proves `[]HandlesOwnTransports`, `[]NoStaleCount` and `[]TranslationFaithful` for any
number of handle variables and a heap of any size, from `CApiAssumption` (a null and an uninitialised
handle are no objects and differ; the largest buffer is a natural). `HandlesOwnTransports` needs
`HeapOK` (the heap holds transports, with the settings they were created with) and `Uninitialised` (a
variable no create function was given still holds garbage: without it, an uninitialised variable might
alias a transport, and creating into it would lose that transport). `ResultInv`, for the other two,
adds that the number returned is `ToCStatus` of the C++ status behind it. The equality of the two
enumerations and of `dlms_transport_status_to_string` with them is proved once, over the
thirteen constants, in lemmas; the names are those of the cases of ToString, which are written down
apart from the two enumerations.

`FakesProofs` proves `[]ScriptPlayed` for scripts, chunks and buffers of any size
(`FakesAssumption`: the bounds are naturals), and that the two doubles implement the contracts of
the transports they stand for. `ScriptPlayed` compares what was delivered and what is still scripted
with everything scripted, so it is about `FlattenSeq`, a recursive function. The library's induction
theorems take a predicate, which the provers cannot instantiate; `NatInduct` and `SeqInduct` state
induction for a set, follow from the well-foundedness of < (`WFMin`), and are applied to the set of
lengths or sequences that have the property. With them `FlattenSeq` of an appended, a removed and a
shortened chunk is what it should be, and the rest is algebra of concatenation. The inductive
invariant adds `TypeOK` and `SessionOK`: what was delivered and captured before the session began is
a part of the whole. The refinements map the members to the contract's variables (`Delivered`,
`PeerSent`, `Sent`, `Inbox`, `Outbox`); a chunk that is read in two parts is two reads of the
contract, and setting the next status is a stutter. Both have a hypothesis, `ContractStatuses`: the
statuses a test scripts are among those that end no session. It is needed: a double scripted with
`ConnectionClosed` returns it and stays open, which no transport does. The refinement of
`ByteStream` also assumes that the model's bound on writes is not 0.

`ModeEProofs` proves `[]IdentificationIsMeters` and `[]SpeedsAgree` for messages of any length and
content and any requested rates (`ModeEAssumption`: messages are sequences of characters, requests
are integers). The code tests single characters and searches for the marker; the reference speaks of
the parts of a message (`SubSeq`) and of the first escape sequence. `Accepted` and `ModeESeen` show
the two equal: the marker the search returns is the least index (by well-foundedness,
`LeastExists`), and a message of five or six characters has CR or LF where the code of the baud rate
would be, so the parser's weaker check of the length accepts nothing more. `Speeds` computes the
doublings, `CodeSpeeds`, `Tables` and `KnownSpeed` compare them with the three tables of the
helpers. The invariant `IInv` says of each variable which helper computed it from which, and that
the parser's result does not depend on what it overwrites.

TLC checked each inductive invariant before it was proved; that of the server with 3
descriptors and 4 sockets.

Every invariant, every refinement and `AcceptedIsOnce` are proved. Only model-checked is liveness
(`CallsReturn`, `AcceptReturns`, `ReadyIsServed`): fairness and ENABLED are outside the prover's reach.

## Not modelled

* The Windows branches. They differ in names, in WSAStartup and, for the server, in that closing a
  socket ends a select on it.
* Lengths cast to `int`, `FD_SETSIZE`, and the wrap-around of `nextToken_`: see the hazards' notes.
* `localPort_`: written with `open_`, read by LocalPort only.
* Concurrent calls on one stream or UDP object, and two threads in Close of a server: nothing in the
  library or its tests does this.
* What the TLS backend does with bytes: it is supplied by the application; the library's own
  backend refuses everything.
* Running out of memory outside the C API, which is the only code that handles it. In particular, a
  `bad_alloc` at `tcp_server_transport.cpp:429` would leave the accepted descriptor without an owner.
* `FakeTimerScheduler`: a counter that is assigned and added to. `TimerScheduler`'s clock readings.
* Serial port discovery: one directory listing, filtered and sorted. Trace hooks and the
  non-blocking interfaces have no implementation in the library.

## Plan

Done: every component with logic of its own, the proofs of all their safety properties, and the
refinements of `ByteStream` and `Datagram` by the transports and by the doubles. Left:

1. Composition: the server's Accept handing over to AcceptedTcpStream. The two meet at one value, the
   descriptor, whose ownership each side proves for itself.
2. The Windows branches, as a variant of the outcomes of the system calls.
