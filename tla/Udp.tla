-------------------------------- MODULE Udp --------------------------------
(***************************************************************************)
(* UdpTransport (udp_transport.cpp): one object, used by one thread, with  *)
(* datagrams arriving between any two of its system calls.  As in          *)
(* TcpStream, `pc' names the next system call.                             *)
(***************************************************************************)
EXTENDS Transport, FiniteSets, Functions

CONSTANTS
  Descriptors,      \* descriptors the operating system may hand out
  kInvalidSocket,   \* the value -1 of kInvalidSocket
  MaxAddresses,     \* longest list getaddrinfo returns
  MaxSize,          \* largest datagram and largest buffer
  MaxArrivals,      \* datagrams that arrive in a session, at most
  MaxSends          \* Send calls that reach the socket in a session, at most

ASSUME UdpAssumption ==
  /\ kInvalidSocket \notin Descriptors
  /\ MaxAddresses \in Nat \ {0}
  /\ {MaxSize, MaxArrivals, MaxSends} \subseteq Nat

VARIABLES
  \* Members of the object.
  options_,     \* [remote: none, half or full endpoint, runtime: SocketRuntimeReady(),
                \*  corrupts: the network lets datagrams with a bad checksum through]
  open_, socket_, remoteConfigured_,
  \* The call in progress.
  pc,
  addresses,    \* addrinfo entries from the current one to the end of the list
  lists,        \* lists allocated for remoteAddresses or firstAddress
  candidate,    \* the socket Open is trying
  locals,       \* localAddresses: entries from the one to bind next to the end
  localLists,   \* lists allocated for localAddresses
  bound,        \* bind has succeeded on the candidate
  size,         \* outputSize or inputSize
  ret,          \* result of the last completed call
  \* The operating system and the network.
  live,         \* descriptors this object has open
  connected,    \* connect has given the socket its one peer
  queue,        \* receive queue: [id, size, good, peer: the remote sent it]
  soError,      \* an ICMP error is pending, reported once
  sent,         \* sizes of the datagrams handed to the network
  \* History.
  arrived,      \* datagrams that reached the queue
  early,        \* how many of them before connect
  spoiled,      \* which of them fail their checksum
  got           \* what recv took, in order: [id, size, n, peer], n the bytes it returned

object == <<options_, open_, socket_, remoteConfigured_>>
local == <<locals, localLists, bound>>
openCall == <<addresses, lists, candidate, local>>
filter == <<connected, early, spoiled>>
net == <<live, queue, soError, sent, arrived, filter, got>>
vars == <<object, openCall, pc, size, ret, net>>

OpenSteps == {"getaddrinfo", "socket", "setNonBlocking", "resolveLocal", "bind", "freeLocal",
              "connect", "freeaddrinfo"}
Steps == {"idle", "destroyed", "receiveWait", "pendingSize", "recv", "sendWait", "send"}
           \cup OpenSteps
Datagrams == [id : 1..MaxArrivals, size : 0..MaxSize, good : BOOLEAN, peer : BOOLEAN]
Ops == {"none", "Open", "Close", "Send", "Receive"}

FlagsOK ==
  /\ options_ \in [remote : {"none", "half", "full"}, runtime : BOOLEAN,
                   corrupts : BOOLEAN]
  /\ open_ \in BOOLEAN /\ remoteConfigured_ \in BOOLEAN
  /\ bound \in BOOLEAN /\ soError \in BOOLEAN /\ connected \in BOOLEAN

ValuesOK ==
  /\ socket_ \in Descriptors \cup {kInvalidSocket}
  /\ pc \in Steps
  /\ addresses \in 0..MaxAddresses /\ lists \in 0..1
  /\ locals \in 0..MaxAddresses /\ localLists \in 0..1
  /\ candidate \in Descriptors \cup {kInvalidSocket}
  /\ size \in 0..MaxSize
  /\ ret \in [op : Ops, status : TransportStatus, n : 0..MaxSize]
  /\ live \subseteq Descriptors

TrafficOK ==
  /\ queue \in Seq(Datagrams)
  /\ sent \in Seq(0..MaxSize) /\ Len(sent) <= MaxSends
  /\ arrived \in 0..MaxArrivals /\ early \in 0..arrived
  /\ spoiled \subseteq 1..arrived
  /\ got \in Seq([id : 1..MaxArrivals, size : 0..MaxSize, n : 0..MaxSize, peer : BOOLEAN])

\* The type invariant.
TypeOK == FlagsOK /\ ValuesOK /\ TrafficOK

Init ==
  /\ options_ \in [remote : {"none", "half", "full"}, runtime : BOOLEAN,
                   corrupts : BOOLEAN]
  /\ open_ = FALSE /\ remoteConfigured_ = FALSE
  /\ socket_ = kInvalidSocket
  /\ pc = "idle"
  /\ addresses = 0 /\ lists = 0
  /\ locals = 0 /\ localLists = 0 /\ bound = FALSE
  /\ candidate = kInvalidSocket
  /\ size = 0
  /\ ret = NoResult
  /\ live = {}
  /\ queue = <<>> /\ soError = FALSE /\ sent = <<>>
  /\ arrived = 0 /\ got = <<>>
  /\ connected = FALSE /\ early = 0 /\ spoiled = {}

\* A call that ends with this step.
Return(op, status, n) ==
  /\ ret' = Result(op, status, n)
  /\ pc' = "idle"

-----------------------------------------------------------------------------
(* Open: the candidates are the remote's addresses, or the local ones when *)
(* no remote is given                                                      *)

HasRemote == options_.remote = "full"

CallOpen ==
  /\ pc = "idle"
  /\ IF open_ THEN Return("Open", "AlreadyOpen", 0)
     ELSE IF options_.remote = "half" THEN Return("Open", "InvalidArgument", 0)
     ELSE IF ~options_.runtime THEN Return("Open", "OpenFailed", 0)
     ELSE pc' = "getaddrinfo" /\ UNCHANGED ret
  /\ UNCHANGED <<object, openCall, size, net>>

Resolve ==
  /\ pc = "getaddrinfo"
  /\ \/ Return("Open", "OpenFailed", 0) /\ UNCHANGED openCall
     \/ /\ addresses' \in 1..MaxAddresses
        /\ lists' = lists + 1
        /\ candidate' = kInvalidSocket
        /\ pc' = "socket"
        /\ UNCHANGED <<local, ret>>
  /\ UNCHANGED <<object, size, net>>

\* Faulty variant: the end of the list is not noticed.
NextAddressUnchecked ==
  /\ addresses' = addresses - 1
  /\ pc' = "socket"

NextAddress ==
  /\ addresses' = addresses - 1
  /\ pc' = IF addresses = 1 THEN "freeaddrinfo" ELSE "socket"

SocketFails ==
  /\ pc = "socket"
  /\ NextAddress
  /\ UNCHANGED <<object, lists, candidate, local, size, ret, net>>

CreateSocket ==
  /\ pc = "socket"
  /\ candidate' \in Descriptors \ live
  /\ live' = live \cup {candidate'}
  /\ queue' = <<>> /\ soError' = FALSE /\ sent' = <<>>
  /\ arrived' = 0 /\ got' = <<>>
  /\ connected' = FALSE /\ early' = 0 /\ spoiled' = {}
  /\ pc' = "setNonBlocking"
  /\ UNCHANGED <<object, addresses, lists, local, size, ret>>

\* CloseNativeSocket(candidate), then the next address.
GiveUpCandidate ==
  /\ live' = live \ {candidate}
  /\ NextAddress
  /\ UNCHANGED object

AdoptCandidate ==
  /\ socket_' = candidate
  /\ open_' = TRUE
  /\ remoteConfigured_' = HasRemote
  /\ pc' = "freeaddrinfo"
  /\ UNCHANGED <<options_, addresses, live>>

SetNonBlocking ==
  /\ pc = "setNonBlocking"
  /\ \/ GiveUpCandidate
     \/ pc' = "resolveLocal" /\ UNCHANGED <<object, addresses, live>>
  /\ UNCHANGED <<lists, candidate, local, size, ret, queue, soError, sent, arrived, filter, got>>

\* localAddresses is resolved for the family of the candidate.  Without a list
\* there is nothing to bind to and nothing to free.
ResolveLocal ==
  /\ pc = "resolveLocal"
  /\ \/ GiveUpCandidate /\ UNCHANGED local
     \/ /\ locals' \in 1..MaxAddresses
        /\ localLists' = localLists + 1
        /\ bound' = FALSE
        /\ pc' = "bind"
        /\ UNCHANGED <<object, addresses, live>>
  /\ UNCHANGED <<lists, candidate, size, ret, queue, soError, sent, arrived, filter, got>>

\* bind fails, and the loop goes on to the next local address or ends, or
\* succeeds and ends it.
BindLocal ==
  /\ pc = "bind"
  /\ \/ /\ locals' = locals - 1
        /\ pc' = IF locals = 1 THEN "freeLocal" ELSE "bind"
        /\ UNCHANGED bound
     \/ /\ bound' = TRUE
        /\ pc' = "freeLocal"
        /\ UNCHANGED locals
  /\ UNCHANGED <<object, addresses, lists, candidate, localLists, size, ret, net>>

\* What follows the loop: the candidate that could not be bound is given up,
\* connected, or adopted when there is no remote.
AfterBind ==
  \/ ~bound /\ GiveUpCandidate
  \/ bound /\ HasRemote /\ pc' = "connect" /\ UNCHANGED <<object, addresses, live>>
  \/ bound /\ ~HasRemote /\ AdoptCandidate

\* Faulty variant: `continue' for a candidate that could not be bound comes
\* before the list is freed.
FreeLocalLate ==
  /\ pc = "freeLocal"
  /\ localLists' = IF bound THEN localLists - 1 ELSE localLists
  /\ locals' = 0 /\ bound' = FALSE
  /\ AfterBind
  /\ UNCHANGED <<lists, candidate, size, ret, queue, soError, sent, arrived, filter, got>>

\* freeaddrinfo(localAddresses), bound or not; the three locals of the loop go
\* out of scope with it.
FreeLocal ==
  /\ pc = "freeLocal"
  /\ localLists' = localLists - 1
  /\ locals' = 0 /\ bound' = FALSE
  /\ AfterBind
  /\ UNCHANGED <<lists, candidate, size, ret, queue, soError, sent, arrived, filter, got>>

\* Faulty variant: the result of connect is not looked at.
ConnectUnchecked ==
  /\ pc = "connect"
  /\ AdoptCandidate
  /\ connected' \in BOOLEAN
  /\ early' = arrived
  /\ UNCHANGED <<spoiled, lists, candidate, local, size, ret, queue, soError, sent, arrived, got>>

\* connect keeps others out from now on; what they sent before stays queued.
Connect ==
  /\ pc = "connect"
  /\ \/ GiveUpCandidate /\ UNCHANGED filter
     \/ AdoptCandidate /\ connected' = TRUE /\ early' = arrived /\ UNCHANGED spoiled
  /\ UNCHANGED <<lists, candidate, local, size, ret, queue, soError, sent, arrived, got>>

\* finalStatus is Ok exactly when a candidate was adopted.
FreeAddrInfo ==
  /\ pc = "freeaddrinfo"
  /\ lists' = lists - 1
  /\ addresses' = 0 /\ candidate' = kInvalidSocket
  /\ Return("Open", IF open_ THEN "Ok" ELSE "OpenFailed", 0)
  /\ UNCHANGED <<object, local, size, net>>

-----------------------------------------------------------------------------
(* Close and the destructor *)

CloseSocket ==
  /\ live' = IF socket_ # kInvalidSocket THEN live \ {socket_} ELSE live
  /\ socket_' = kInvalidSocket
  /\ open_' = FALSE
  /\ remoteConfigured_' = FALSE
  /\ UNCHANGED options_

CallClose ==
  /\ pc = "idle"
  /\ CloseSocket
  /\ ret' = Result("Close", "Ok", 0)
  /\ pc' \in {"idle", "destroyed"}
  /\ UNCHANGED <<openCall, size, queue, soError, sent, arrived, filter, got>>

-----------------------------------------------------------------------------
(* Send *)

CallSend(inputSize, isNull) ==
  /\ pc = "idle"
  /\ size' = inputSize
  /\ IF ~open_ THEN Return("Send", "NotOpen", inputSize)
     ELSE IF ~remoteConfigured_ \/ (isNull /\ inputSize # 0)
          THEN Return("Send", "InvalidArgument", inputSize)
     ELSE Len(sent) < MaxSends /\ pc' = "sendWait" /\ UNCHANGED ret
  /\ UNCHANGED <<object, openCall, net>>

SendWait ==
  /\ pc = "sendWait"
  /\ \/ pc' = "send" /\ UNCHANGED ret
     \/ Return("Send", "Timeout", size)
     \/ Return("Send", "WriteFailed", size)
  /\ UNCHANGED <<object, openCall, size, net>>

\* send takes the datagram whole.
SendDatagram ==
  /\ pc = "send"
  /\ ~soError
  /\ sent' = Append(sent, size)
  /\ Return("Send", "Ok", size)
  /\ UNCHANGED <<object, openCall, size, live, queue, soError, arrived, filter, got>>

\* Faulty variant: send is repeated when it would block, and the status of the
\* first attempt is returned.
SendRefusedTwice ==
  /\ pc = "send"
  /\ \E s \in {"WouldBlock", "WriteFailed"} : Return("Send", s, size)
  /\ soError' = FALSE
  /\ sent' = Append(sent, size)
  /\ UNCHANGED <<object, openCall, size, live, queue, arrived, filter, got>>

\* send would block, fails, or reports a pending error: nothing is sent.  (The
\* code also checks for a short count, which a datagram socket never returns.)
SendRefused ==
  /\ pc = "send"
  /\ \E s \in {"WouldBlock", "WriteFailed"} : Return("Send", s, size)
  /\ soError' = FALSE
  /\ UNCHANGED <<object, openCall, size, live, queue, sent, arrived, filter, got>>

-----------------------------------------------------------------------------
(* Receive *)

CallReceive(outputSize, isNull) ==
  /\ pc = "idle"
  /\ size' = outputSize
  /\ IF ~open_ THEN Return("Receive", "NotOpen", 0)
     ELSE IF isNull /\ outputSize # 0 THEN Return("Receive", "InvalidArgument", 0)
     ELSE pc' = "receiveWait" /\ UNCHANGED ret
  /\ UNCHANGED <<object, openCall, net>>

\* select on a non-blocking socket counts a datagram whose checksum has not
\* been verified yet.
Readable == queue # <<>> \/ soError

ReceiveWait ==
  /\ pc = "receiveWait"
  /\ \/ Readable /\ pc' = "pendingSize" /\ UNCHANGED ret
     \/ ~Readable /\ Return("Receive", "Timeout", 0)
     \/ Return("Receive", "ReadFailed", 0)
  /\ UNCHANGED <<object, openCall, size, net>>

\* The queue once the datagrams with a bad checksum at its head are dropped.
Verified ==
  LET firstGood == {i \in 1..Len(queue) : queue[i].good
                                          /\ \A j \in 1..(i - 1) : ~queue[j].good}
  IN IF firstGood = {} THEN <<>>
     ELSE SubSeq(queue, CHOOSE i \in firstGood : TRUE, Len(queue))

\* Faulty variant: the size of the next datagram is not looked at.
FitsUnchecked(q) == TRUE

\* Faulty variant: a datagram as large as the buffer is refused.
FitsStrictly(q) == q = <<>> \/ Head(q).size < size

\* pending <= outputSize, where FIONREAD gives the size of the first datagram
\* or 0 when there is none.
Fits(q) == q = <<>> \/ Head(q).size <= size

\* Faulty variant: the datagram that does not fit is taken off the queue.
PendingSizeTaken ==
  /\ pc = "pendingSize"
  /\ \/ /\ Fits(Verified)
        /\ queue' = Verified
        /\ pc' = "recv" /\ UNCHANGED ret
     \/ /\ ~Fits(Verified)
        /\ queue' = Tail(Verified)
        /\ Return("Receive", "OutputBufferTooSmall", 0)
     \/ Return("Receive", "ReadFailed", 0) /\ UNCHANGED queue
  /\ UNCHANGED <<object, openCall, size, live, soError, sent, arrived, filter, got>>

\* PendingDatagramSize, which drops what fails the checksum, or fails.
PendingSize ==
  /\ pc = "pendingSize"
  /\ \/ /\ queue' = Verified
        /\ IF Fits(queue') THEN pc' = "recv" /\ UNCHANGED ret
           ELSE Return("Receive", "OutputBufferTooSmall", 0)
     \/ Return("Receive", "ReadFailed", 0) /\ UNCHANGED queue
  /\ UNCHANGED <<object, openCall, size, live, soError, sent, arrived, filter, got>>

\* recv takes the first datagram; what exceeds the buffer is discarded.
RecvDatagram ==
  /\ pc = "recv"
  /\ ~soError
  /\ Verified # <<>>
  /\ LET d == Head(Verified)
         n == IF d.size <= size THEN d.size ELSE size
     IN /\ queue' = Tail(Verified)
        /\ got' = Append(got, [id |-> d.id, size |-> d.size, n |-> n, peer |-> d.peer])
        /\ Return("Receive", "Ok", n)
  /\ UNCHANGED <<object, openCall, size, live, soError, sent, arrived, filter>>

\* recv reports a pending error.
RecvError ==
  /\ pc = "recv"
  /\ soError
  /\ soError' = FALSE
  /\ Return("Receive", "ReadFailed", 0)
  /\ UNCHANGED <<object, openCall, size, live, queue, sent, arrived, filter, got>>

\* recv finds nothing after all.
RecvWouldBlock ==
  /\ pc = "recv"
  /\ ~soError /\ Verified = <<>>
  /\ queue' = <<>>
  /\ Return("Receive", "WouldBlock", 0)
  /\ UNCHANGED <<object, openCall, size, live, soError, sent, arrived, filter, got>>

-----------------------------------------------------------------------------
(* The network: the socket receives from the moment it is bound *)

Bound == open_ \/ bound \/ pc = "connect"

\* Whoever sends to an endpoint without a remote is its peer; one with a remote
\* hears others until connect.
Senders == IF HasRemote /\ ~connected THEN BOOLEAN ELSE {TRUE}

\* A datagram arrives.  The size of one that fails its checksum is never seen.
Arrive ==
  /\ Bound
  /\ arrived < MaxArrivals
  /\ arrived' = arrived + 1
  /\ \/ /\ \E n \in 0..MaxSize, p \in Senders : queue' = Append(queue,
             [id |-> arrived + 1, size |-> n, good |-> TRUE, peer |-> p])
        /\ UNCHANGED spoiled
     \/ /\ options_.corrupts
        /\ queue' = Append(queue, [id |-> arrived + 1, size |-> 0, good |-> FALSE, peer |-> TRUE])
        /\ spoiled' = spoiled \cup {arrived + 1}
  /\ UNCHANGED <<object, openCall, pc, size, ret, live, soError, sent, connected, early, got>>

\* An ICMP error comes back for a datagram sent to the remote.
IcmpError ==
  /\ open_ /\ remoteConfigured_ /\ sent # <<>>
  /\ soError' = TRUE
  /\ UNCHANGED <<object, openCall, pc, size, ret, live, queue, sent, arrived, filter, got>>

-----------------------------------------------------------------------------
Next ==
  \/ CallOpen \/ Resolve \/ SocketFails \/ CreateSocket \/ SetNonBlocking
  \/ ResolveLocal \/ BindLocal \/ FreeLocal \/ Connect \/ FreeAddrInfo
  \/ CallClose
  \/ \E n \in 0..MaxSize, isNull \in BOOLEAN : CallSend(n, isNull)
  \/ SendWait \/ SendDatagram \/ SendRefused
  \/ \E n \in 0..MaxSize, isNull \in BOOLEAN : CallReceive(n, isNull)
  \/ ReceiveWait \/ PendingSize \/ RecvDatagram \/ RecvError \/ RecvWouldBlock
  \/ Arrive \/ IcmpError

Spec == Init /\ [][Next]_vars

-----------------------------------------------------------------------------
(* Properties *)

\* The steps of Open at which the candidate is an open descriptor.
CandidateSteps == {"setNonBlocking", "resolveLocal", "bind", "freeLocal", "connect"}

\* Every descriptor and every addrinfo list has one owner at every step: a
\* candidate that cannot be bound or connected is closed, the outer list, remote
\* or local, is freed exactly once, and so is the local list of each candidate,
\* bound or not, before the candidate is given up, connected or adopted.
DescriptorsOwned ==
  /\ open_ <=> socket_ # kInvalidSocket
  /\ live = IF pc \in CandidateSteps THEN {candidate}
            ELSE IF open_ THEN {socket_} ELSE {}
  /\ lists = IF pc \in OpenSteps \ {"getaddrinfo"} THEN 1 ELSE 0
  /\ localLists = IF pc \in {"bind", "freeLocal"} THEN 1 ELSE 0
  /\ remoteConfigured_ <=> open_ /\ HasRemote

\* Datagrams are received at most once and in order of arrival, and what has not
\* been received is still queued: a timeout, a failed FIONREAD, a pending error
\* or a buffer that is too small never costs one.  Only what fails its checksum
\* goes missing.
DatagramsConserved ==
  LET ids == [i \in 1..Len(got) |-> got[i].id] \o [i \in 1..Len(queue) |-> queue[i].id]
  IN /\ \A i, j \in 1..Len(ids) : i < j => ids[i] < ids[j]
     /\ 1..arrived \subseteq Range(ids) \cup spoiled

\* OutputBufferTooSmall is reported only of a datagram that is really too large
\* and is left for a later Receive.
TooSmallIsTrue ==
  pc = "idle" /\ ret.op = "Receive" /\ ret.status = "OutputBufferTooSmall" =>
    queue # <<>> /\ Head(queue).size > size

\* An endpoint with a remote hears strangers only in the window between bind and
\* connect: once Open has returned, everything that arrives is the remote's, and
\* what Receive returns of others was queued before.
StrangersOnlyEarly ==
  open_ /\ HasRemote =>
    \A d \in Range(queue) \cup Range(got) : ~d.peer => d.id <= early

Up == open_ /\ pc # "freeaddrinfo"

Endpoint == INSTANCE Datagram WITH
  open <- Up /\ ~options_.corrupts,
  inbox <- IF Up /\ ~options_.corrupts THEN queue ELSE <<>>,
  outbox <- IF Up /\ ~options_.corrupts THEN sent ELSE <<>>,
  ret <- IF options_.corrupts THEN NoResult ELSE ret

\* On a network whose datagrams pass their checksums, UdpTransport implements
\* the contract of IDatagramTransport.  (On another, the mapping stutters.)
ImplementsDatagram == Endpoint!Spec

\* docs/01_transport_api.md: Receive preserves datagram boundaries.  Receive
\* never hands over a part of a datagram.
NeverTruncates == \A i \in 1..Len(got) : got[i].n = got[i].size

\* What holds of it: although a datagram may arrive between any two of the three
\* system calls of Receive, the size check and recv look at the same one, unless
\* a datagram with a bad checksum came first.
WholeDatagrams == ~options_.corrupts => NeverTruncates
=============================================================================
