----------------------------- MODULE TcpStream -----------------------------
(***************************************************************************)
(* TcpStreamTransport (tcp_stream_transport.cpp): one client object, used  *)
(* by one thread, against the operating system and a peer that act between *)
(* any two of its system calls.  A call is split at its system calls;      *)
(* `pc' says which one comes next.  Every system call is modelled with     *)
(* every outcome the code distinguishes.                                   *)
(*                                                                         *)
(* One connection is described at a time, that of the newest socket: the   *)
(* object never holds two (DescriptorsOwned).                              *)
(***************************************************************************)
EXTENDS Transport, FiniteSets

CONSTANTS
  Descriptors,      \* descriptors the operating system may hand out
  kInvalidSocket,   \* the value -1 of kInvalidSocket
  MaxAddresses,     \* longest list getaddrinfo returns
  MaxSize,          \* largest buffer passed to ReadSome or WriteAll
  MaxInbound,       \* bytes the peer sends in a session, at most
  MaxWrites,        \* WriteAll calls that reach the socket in a session, at most
  SigPipeIgnored    \* the process ignores SIGPIPE (the library never arranges it)

ASSUME TcpStreamAssumption ==
  /\ kInvalidSocket \notin Descriptors
  /\ MaxAddresses \in Nat \ {0}
  /\ MaxSize \in Nat \ {0}
  /\ MaxInbound \in Nat
  /\ MaxWrites \in Nat
  /\ SigPipeIgnored \in BOOLEAN

VARIABLES
  \* Members of the object.
  options_,     \* [valid: host and port were given, runtime: SocketRuntimeReady()]
  open_,
  socket_,
  \* The call in progress.
  pc,           \* the next system call, "idle" between calls
  addresses,    \* addrinfo entries from the current one to the end of the list
  resolved,     \* the addrinfo list is allocated
  candidate,    \* the socket Open is trying
  finalStatus,
  size,         \* outputSize or inputSize
  written,      \* bytes of the input passed to send so far
  ret,          \* result of the last completed call
  \* The operating system and the peer.
  live,         \* descriptors this object has open
  conn,         \* state of the newest socket's connection
  fin,          \* the peer has closed its side
  soError,      \* a socket error is pending: reported once, then cleared
  dropped,      \* unread bytes were discarded by a reset
  peerSent,     \* bytes that arrived on the connection
  avail,        \* of these, bytes still in the receive queue
  delivered,    \* of these, bytes handed to the caller by ReadSome
  wire,         \* bytes the socket accepted from send, in order
  \* History of the current or last WriteAll that reached the socket.
  wid,          \* its number within the session
  base          \* wire when it began

object == <<options_, open_, socket_>>
openCall == <<addresses, resolved, candidate, finalStatus>>
writeCall == <<written, wid, base>>
peer == <<conn, fin, soError, dropped, peerSent, avail>>
vars == <<object, openCall, pc, size, writeCall, ret, live, peer, delivered, wire>>

OpenSteps == {"getaddrinfo", "socket", "setNonBlocking", "connect",
              "connectWait", "checkConnected", "freeaddrinfo"}
ReadSteps == {"readWait", "recv"}
WriteSteps == {"writeWait", "send"}
\* "destroyed": the destructor has run.  "killed": SIGPIPE ended the process.
Steps == {"idle", "destroyed", "killed"} \cup OpenSteps \cup ReadSteps \cup WriteSteps

\* "none": no connect yet.  "refused": connect failed in the background.
\* "reset": the peer aborted an established connection.
ConnStates == {"none", "connecting", "refused", "established", "reset"}

Ops == {"none", "Open", "Close", "ReadSome", "WriteAll"}

FlagsOK ==
  /\ options_ \in [valid : BOOLEAN, runtime : BOOLEAN]
  /\ open_ \in BOOLEAN
  /\ resolved \in BOOLEAN
  /\ fin \in BOOLEAN
  /\ soError \in BOOLEAN
  /\ dropped \in BOOLEAN

ValuesOK ==
  /\ socket_ \in Descriptors \cup {kInvalidSocket}
  /\ pc \in Steps
  /\ addresses \in 0..MaxAddresses
  /\ candidate \in Descriptors \cup {kInvalidSocket}
  /\ finalStatus \in TransportStatus
  /\ size \in 0..MaxSize
  /\ written \in 0..MaxSize
  /\ ret \in [op : Ops, status : TransportStatus, n : 0..MaxSize]
  /\ live \in SUBSET Descriptors
  /\ conn \in ConnStates
  /\ peerSent \in 0..MaxInbound
  /\ avail \in 0..MaxInbound
  /\ delivered \in 0..MaxInbound
  /\ wire \in Seq(Byte)
  /\ wid \in 0..MaxWrites
  /\ base \in Seq(Byte)

\* The type invariant.
TypeOK == FlagsOK /\ ValuesOK

Init ==
  /\ options_ \in [valid : BOOLEAN, runtime : BOOLEAN]
  /\ open_ = FALSE
  /\ socket_ = kInvalidSocket
  /\ pc = "idle"
  /\ addresses = 0
  /\ resolved = FALSE
  /\ candidate = kInvalidSocket
  /\ finalStatus = "OpenFailed"
  /\ size = 0
  /\ written = 0
  /\ ret = NoResult
  /\ live = {}
  /\ conn = "none"
  /\ fin = FALSE
  /\ soError = FALSE
  /\ dropped = FALSE
  /\ peerSent = 0
  /\ avail = 0
  /\ delivered = 0
  /\ wire = <<>>
  /\ wid = 0
  /\ base = <<>>

-----------------------------------------------------------------------------
(* Open *)

\* A call that ends with this step.
Return(op, status, n) ==
  /\ ret' = Result(op, status, n)
  /\ pc' = "idle"

\* Faulty variant: Open forgets that the stream is open.
CallOpenTwice ==
  /\ pc = "idle"
  /\ pc' = "getaddrinfo"
  /\ UNCHANGED <<object, openCall, size, writeCall, ret, live, peer, delivered, wire>>

\* The early returns of Open, and getaddrinfo next when none is taken.
CallOpen ==
  /\ pc = "idle"
  /\ IF open_ THEN Return("Open", "AlreadyOpen", 0)
     ELSE IF ~options_.valid THEN Return("Open", "InvalidArgument", 0)
     ELSE IF ~options_.runtime THEN Return("Open", "OpenFailed", 0)
     ELSE pc' = "getaddrinfo" /\ UNCHANGED ret
  /\ UNCHANGED <<object, openCall, size, writeCall, live, peer, delivered, wire>>

Resolve ==
  /\ pc = "getaddrinfo"
  /\ \/ /\ Return("Open", "OpenFailed", 0)
        /\ UNCHANGED openCall
     \/ /\ addresses' \in 1..MaxAddresses
        /\ resolved' = TRUE
        /\ finalStatus' = "OpenFailed"
        /\ candidate' = kInvalidSocket
        /\ pc' = "socket"
        /\ UNCHANGED ret
  /\ UNCHANGED <<object, size, writeCall, live, peer, delivered, wire>>

\* Faulty variant: the loop does not stop at the end of the list.
NextAddressUnchecked ==
  /\ addresses' = addresses - 1
  /\ pc' = "socket"

\* Faulty variant: the loop retries the same address.
NextAddressStuck ==
  /\ addresses' = addresses
  /\ pc' = "socket"

\* On to the next address of the list, or out of the loop.
NextAddress ==
  /\ addresses' = addresses - 1
  /\ pc' = IF addresses = 1 THEN "freeaddrinfo" ELSE "socket"

\* socket() fails: `continue'.
SocketFails ==
  /\ pc = "socket"
  /\ NextAddress
  /\ UNCHANGED <<object, resolved, candidate, finalStatus, size, writeCall, ret,
                 live, peer, delivered, wire>>

\* socket() returns a new descriptor; its connection has no history.
CreateSocket ==
  /\ pc = "socket"
  /\ candidate' \in Descriptors \ live
  /\ live' = live \cup {candidate'}
  /\ conn' = "none"
  /\ fin' = FALSE /\ soError' = FALSE /\ dropped' = FALSE
  /\ peerSent' = 0 /\ avail' = 0 /\ delivered' = 0
  /\ wire' = <<>> /\ base' = <<>> /\ wid' = 0 /\ written' = 0
  /\ pc' = "setNonBlocking"
  /\ UNCHANGED <<object, addresses, resolved, finalStatus, size, ret>>

\* Faulty variant: `continue' without CloseNativeSocket.
GiveUpCandidateLeak ==
  /\ NextAddress
  /\ UNCHANGED <<object, candidate, live>>

\* CloseNativeSocket(candidate), then the next address.
GiveUpCandidate ==
  /\ live' = live \ {candidate}
  /\ NextAddress
  /\ UNCHANGED <<object, candidate>>

\* The candidate becomes the object's socket and the loop ends.
AdoptCandidate ==
  /\ socket_' = candidate
  /\ open_' = TRUE
  /\ finalStatus' = "Ok"
  /\ pc' = "freeaddrinfo"
  /\ UNCHANGED <<options_, addresses, candidate, live>>

SetNonBlocking ==
  /\ pc = "setNonBlocking"
  /\ \/ GiveUpCandidate
     \/ /\ pc' = "connect"
        /\ UNCHANGED <<object, addresses, candidate, live>>
  /\ UNCHANGED <<resolved, finalStatus, size, writeCall, ret, peer, delivered, wire>>

\* connect() succeeds at once, fails for good, or goes on in the background.
Connect ==
  /\ pc = "connect"
  /\ \/ AdoptCandidate /\ conn' = "established"
     \/ GiveUpCandidate /\ UNCHANGED <<finalStatus, conn>>
     \/ /\ conn' = "connecting"
        /\ pc' = "connectWait"
        /\ UNCHANGED <<object, addresses, candidate, finalStatus, live>>
  /\ UNCHANGED <<resolved, size, writeCall, ret, fin, soError, dropped, peerSent,
                 avail, delivered, wire>>

\* finalStatus = WaitForSocket(candidate, false, connectTimeout): writable once
\* the attempt is decided, timed out while it is not, or select itself fails.
ConnectWait ==
  /\ pc = "connectWait"
  /\ \/ /\ conn # "connecting"
        /\ finalStatus' = "Ok"
        /\ pc' = "checkConnected"
        /\ UNCHANGED <<object, addresses, candidate, live>>
     \/ /\ conn = "connecting"
        /\ finalStatus' = "Timeout"
        /\ GiveUpCandidate
     \/ /\ finalStatus' = "WriteFailed"
        /\ GiveUpCandidate
  /\ UNCHANGED <<resolved, size, writeCall, ret, peer, delivered, wire>>

\* Faulty variant: a writable socket is taken for a connected one.
NoSocketErrorIgnored == TRUE

\* getsockopt(SO_ERROR) finds no pending error.
NoSocketError == ~soError

\* CheckConnected: getsockopt fetches and clears the pending error, or fails
\* itself.
CheckConnected ==
  /\ pc = "checkConnected"
  /\ \/ /\ NoSocketError
        /\ AdoptCandidate
        /\ UNCHANGED soError
     \/ /\ finalStatus' = "OpenFailed"
        /\ GiveUpCandidate
        /\ soError' = FALSE
  /\ UNCHANGED <<resolved, size, writeCall, ret, conn, fin, dropped, peerSent,
                 avail, delivered, wire>>

FreeAddrInfo ==
  /\ pc = "freeaddrinfo"
  /\ resolved' = FALSE
  /\ Return("Open", finalStatus, 0)
  /\ UNCHANGED <<object, addresses, candidate, finalStatus, size, writeCall,
                 live, peer, delivered, wire>>

-----------------------------------------------------------------------------
(* Close and the destructor *)

\* The body of Close.
CloseSocket ==
  /\ live' = IF socket_ # kInvalidSocket THEN live \ {socket_} ELSE live
  /\ socket_' = kInvalidSocket
  /\ open_' = FALSE
  /\ UNCHANGED options_

CallClose ==
  /\ pc = "idle"
  /\ CloseSocket
  /\ Return("Close", "Ok", 0)
  /\ UNCHANGED <<openCall, size, writeCall, peer, delivered, wire>>

Destroy ==
  /\ pc = "idle"
  /\ CloseSocket
  /\ ret' = Result("Close", "Ok", 0)
  /\ pc' = "destroyed"
  /\ UNCHANGED <<openCall, size, writeCall, peer, delivered, wire>>

-----------------------------------------------------------------------------
(* ReadSome *)

CallReadSome(outputSize, isNull) ==
  /\ pc = "idle"
  /\ size' = outputSize
  /\ IF ~open_ THEN Return("ReadSome", "NotOpen", 0)
     ELSE IF isNull /\ outputSize # 0 THEN Return("ReadSome", "InvalidArgument", 0)
     ELSE IF outputSize = 0 THEN Return("ReadSome", "Ok", 0)
     ELSE pc' = "readWait" /\ UNCHANGED ret
  /\ UNCHANGED <<object, openCall, writeCall, live, peer, delivered, wire>>

\* Something for recv to report: data, the peer's close, or an abort.
Readable == avail > 0 \/ fin \/ conn = "reset"

\* WaitForSocket(socket_, true, readTimeout).  select may report a socket
\* readable that is not, and does not time out on one that is.
ReadWait ==
  /\ pc = "readWait"
  /\ \/ pc' = "recv" /\ UNCHANGED ret
     \/ ~Readable /\ Return("ReadSome", "Timeout", 0)
     \/ Return("ReadSome", "ReadFailed", 0)
  /\ UNCHANGED <<object, openCall, size, writeCall, live, peer, delivered, wire>>

\* recv returns data.
RecvData ==
  /\ pc = "recv"
  /\ \E n \in 1..size :
       /\ n <= avail
       /\ avail' = avail - n
       /\ delivered' = delivered + n
       /\ Return("ReadSome", "Ok", n)
  /\ UNCHANGED <<object, openCall, size, writeCall, live, conn, fin, soError,
                 dropped, peerSent, wire>>

\* Faulty variant: `received <= 0' is taken for the end of the stream.
EndOfStreamOnError == avail = 0

\* recv returns 0: after the peer's close, or when the pending error of an
\* abort has been reported.
EndOfStream == avail = 0 /\ (fin \/ (conn = "reset" /\ ~soError))

\* recv returned 0: the code closes the socket.
RecvEof ==
  /\ pc = "recv"
  /\ EndOfStream
  /\ CloseSocket
  /\ Return("ReadSome", "ConnectionClosed", 0)
  /\ UNCHANGED <<openCall, size, writeCall, peer, delivered, wire>>

\* recv fails with the pending error: the object stays open.
RecvError ==
  /\ pc = "recv"
  /\ avail = 0
  /\ ~fin /\ conn = "reset" /\ soError
  /\ soError' = FALSE
  /\ Return("ReadSome", "ReadFailed", 0)
  /\ UNCHANGED <<object, openCall, size, writeCall, live, conn, fin, dropped,
                 peerSent, avail, delivered, wire>>

\* recv finds nothing after all.
RecvWouldBlock ==
  /\ pc = "recv"
  /\ ~Readable
  /\ Return("ReadSome", "WouldBlock", 0)
  /\ UNCHANGED <<object, openCall, size, writeCall, live, peer, delivered, wire>>

-----------------------------------------------------------------------------
(* WriteAll *)

CallWriteAll(inputSize, isNull) ==
  /\ pc = "idle"
  /\ size' = inputSize
  /\ \/ /\ ~open_
        /\ Return("WriteAll", "NotOpen", inputSize)
        /\ UNCHANGED writeCall
     \/ /\ open_ /\ isNull /\ inputSize # 0
        /\ Return("WriteAll", "InvalidArgument", inputSize)
        /\ UNCHANGED writeCall
     \/ /\ open_ /\ (~isNull \/ inputSize = 0)
        /\ wid < MaxWrites
        /\ wid' = wid + 1
        /\ base' = wire
        /\ written' = 0
        /\ IF inputSize = 0 THEN Return("WriteAll", "Ok", 0)
           ELSE pc' = "writeWait" /\ UNCHANGED ret
  /\ UNCHANGED <<object, openCall, live, peer, delivered, wire>>

\* WaitForSocket(socket_, false, writeTimeout): writable, timed out, or failed.
\* The send buffer is not modelled, so an intact connection may time out.
WriteWait ==
  /\ pc = "writeWait"
  /\ \/ pc' = "send" /\ UNCHANGED ret
     \/ conn # "reset" /\ Return("WriteAll", "Timeout", size)
     \/ Return("WriteAll", "WriteFailed", size)
  /\ UNCHANGED <<object, openCall, size, writeCall, live, peer, delivered, wire>>

\* Faulty variant: every send starts at the head of the buffer.
ChunkFromStart(n) == Bytes(wid, 0, n)

\* The n bytes at input + written.
Chunk(n) == Bytes(wid, written, n)

\* send accepts the next n bytes of the buffer.
SendChunk(n) ==
  /\ pc = "send"
  /\ conn # "reset"
  /\ n \in 1..(size - written)
  /\ wire' = wire \o Chunk(n)
  /\ written' = written + n
  /\ IF written + n < size THEN pc' = "writeWait" /\ UNCHANGED ret
     ELSE Return("WriteAll", "Ok", size)
  /\ UNCHANGED <<object, openCall, size, wid, base, live, peer, delivered>>

\* send would block: wait again.
SendWouldBlock ==
  /\ pc = "send"
  /\ conn # "reset"
  /\ pc' = "writeWait"
  /\ UNCHANGED <<object, openCall, size, writeCall, ret, live, peer, delivered, wire>>

\* send fails on a connection the peer aborted.  An abort after the peer's
\* close, or one already reported, is a broken pipe: send has no
\* MSG_NOSIGNAL, so the process also gets SIGPIPE.
SendBroken ==
  /\ pc = "send"
  /\ conn = "reset"
  /\ soError' = FALSE
  /\ IF (fin \/ ~soError) /\ ~SigPipeIgnored
     THEN pc' = "killed" /\ UNCHANGED ret
     ELSE Return("WriteAll", "WriteFailed", size)
  /\ UNCHANGED <<object, openCall, size, writeCall, live, conn, fin, dropped,
                 peerSent, avail, delivered, wire>>

\* send fails for a reason of its own, or returns 0.
SendFails ==
  /\ pc = "send"
  /\ conn # "reset"
  /\ Return("WriteAll", "WriteFailed", size)
  /\ UNCHANGED <<object, openCall, size, writeCall, live, peer, delivered, wire>>

-----------------------------------------------------------------------------
(* The peer and the network, while the socket exists *)

code == <<object, openCall, pc, size, writeCall, ret, live, delivered, wire>>

Establish ==
  /\ live # {} /\ conn = "connecting"
  /\ conn' = "established"
  /\ UNCHANGED <<code, fin, soError, dropped, peerSent, avail>>

Refuse ==
  /\ live # {} /\ conn = "connecting"
  /\ conn' = "refused"
  /\ soError' = TRUE
  /\ UNCHANGED <<code, fin, dropped, peerSent, avail>>

PeerSend ==
  /\ live # {} /\ conn = "established" /\ ~fin
  /\ peerSent < MaxInbound
  /\ peerSent' = peerSent + 1
  /\ avail' = avail + 1
  /\ UNCHANGED <<code, conn, fin, soError, dropped>>

PeerClose ==
  /\ live # {} /\ conn = "established" /\ ~fin
  /\ fin' = TRUE
  /\ UNCHANGED <<code, conn, soError, dropped, peerSent, avail>>

\* The peer aborts; unread data may be discarded.
PeerReset ==
  /\ live # {} /\ conn = "established"
  /\ conn' = "reset"
  /\ soError' = TRUE
  /\ \/ UNCHANGED <<dropped, avail>>
     \/ avail > 0 /\ avail' = 0 /\ dropped' = TRUE
  /\ UNCHANGED <<code, fin, peerSent>>

-----------------------------------------------------------------------------
OpenStep ==
  Resolve \/ SocketFails \/ CreateSocket \/ SetNonBlocking \/ Connect \/ ConnectWait
  \/ CheckConnected \/ FreeAddrInfo

ReadStep == ReadWait \/ RecvData \/ RecvEof \/ RecvError \/ RecvWouldBlock

WriteStep ==
  WriteWait \/ (\E n \in 1..MaxSize : SendChunk(n))
  \/ SendWouldBlock \/ SendBroken \/ SendFails

Caller ==
  \/ CallOpen \/ CallClose \/ Destroy
  \/ \E n \in 0..MaxSize, isNull \in BOOLEAN : CallReadSome(n, isNull)
  \/ \E n \in 0..MaxSize, isNull \in BOOLEAN : CallWriteAll(n, isNull)

Peer == Establish \/ Refuse \/ PeerSend \/ PeerClose \/ PeerReset

Next == Caller \/ OpenStep \/ ReadStep \/ WriteStep \/ Peer

Spec == Init /\ [][Next]_vars

-----------------------------------------------------------------------------
(* Properties *)

\* The steps of Open at which the candidate is an open descriptor.
CandidateSteps == {"setNonBlocking", "connect", "connectWait", "checkConnected"}

\* Every descriptor and every addrinfo list has exactly one owner at every
\* step: nothing leaks on a failed address, a timeout, a failed Open or the
\* peer's close, nothing is closed twice, and no system call is made on a
\* descriptor that was closed.
DescriptorsOwned ==
  /\ open_ <=> (socket_ # kInvalidSocket)
  /\ live = IF pc \in CandidateSteps THEN {candidate}
            ELSE IF open_ THEN {socket_} ELSE {}
  /\ pc \in CandidateSteps => ~open_
  /\ resolved <=> pc \in OpenSteps \ {"getaddrinfo"}

\* Open returns Ok exactly when it left the object open, and then on a
\* connection that was really established: readiness for writing alone, a
\* refused attempt or a status left over from an earlier address of the list
\* never counts as success.
OpenOutcome ==
  /\ open_ => conn \in {"established", "reset"}
  /\ pc = "freeaddrinfo" => (finalStatus = "Ok" <=> open_)
  /\ pc = "idle" /\ ret.op = "Open" => (open_ <=> ret.status \in {"Ok", "AlreadyOpen"})

\* ReadSome reports ConnectionClosed only when the peer has really finished,
\* and no byte that arrived and was not discarded by an abort is lost: data
\* queued before the peer's close is delivered before the close is reported.
ClosedMeansDrained ==
  pc = "idle" /\ ret.op = "ReadSome" /\ ret.status = "ConnectionClosed" =>
    /\ ~open_
    /\ fin \/ conn = "reset"
    /\ delivered = peerSent \/ dropped

\* Whatever partial sends, would-block retries and failures WriteAll meets, the
\* socket has been given the bytes of its buffer once, in order and without a
\* gap: all of them when it returns Ok, a proper prefix when it fails.
WriteExact ==
  /\ pc \in WriteSteps \cup {"killed"} =>
       written < size /\ wire = base \o Bytes(wid, 0, written)
  /\ pc = "idle" /\ ret.op = "WriteAll" =>
       /\ ret.status = "Ok" => wire = base \o Bytes(wid, 0, ret.n)
       /\ ret.status \in {"Timeout", "WriteFailed"} =>
            written < ret.n /\ wire = base \o Bytes(wid, 0, written)

\* Every call returns (or the process is killed in it): no combination of slow
\* addresses, short sends and would-block retries keeps a caller forever.
CallsReturn ==
  pc \in OpenSteps \cup ReadSteps \cup WriteSteps ~> pc \in {"idle", "killed"}

\* The caller's view: a session runs from Open's return to the close, and the
\* bytes of a WriteAll that has not returned are not counted yet.
Up == open_ /\ pc # "freeaddrinfo"

Stream == INSTANCE ByteStream WITH
  Writes <- 1..MaxWrites,
  open <- Up,
  peerSent <- IF Up THEN peerSent ELSE 0,
  delivered <- IF Up THEN delivered ELSE 0,
  eof <- Up /\ fin,
  broken <- Up /\ conn = "reset",
  sent <- IF ~Up THEN <<>>
          ELSE IF pc \in WriteSteps \cup {"killed"} THEN base ELSE wire

\* The one step of Open that the contract does not have: select itself failed
\* while the last address was connecting, and Open reports WaitForSocket's
\* status.  The stream stays closed.
OpenReportsWriteFailed ==
  /\ pc = "freeaddrinfo" /\ pc' = "idle"
  /\ ~Up /\ ~Up'
  /\ ret' = Result("Open", "WriteFailed", 0)

\* Every step of the stream that its caller sees is a step of the contract of
\* IByteStream, except that Open may report a failed select as WriteFailed.
ImplementsByteStream ==
  Stream!Init /\ [][Stream!Next \/ OpenReportsWriteFailed]_(Stream!vars)

-----------------------------------------------------------------------------
(* What the documentation says and the code does not do *)

\* docs/00_transport_requirements.md: errors are reported by status codes only.
StatusCodesOnly == pc # "killed"

\* tcp_stream_transport.hpp: Open returns Ok, AlreadyOpen, InvalidArgument,
\* Timeout or OpenFailed.
OpenStatusDocumented ==
  pc = "idle" /\ ret.op = "Open" =>
    ret.status \in {"Ok", "AlreadyOpen", "InvalidArgument", "Timeout", "OpenFailed"}
=============================================================================
