----------------------------- MODULE TcpServer -----------------------------
(***************************************************************************)
(* TcpServerTransport (tcp_server_transport.cpp) in a process with three   *)
(* threads: the owner opens and closes the server, the acceptor calls      *)
(* Accept, and another thread opens and closes listeners of its own, so    *)
(* that a descriptor number freed by Close can come to mean another        *)
(* socket.  Loads and stores of open_ and socket_ are not synchronised and *)
(* are separate steps, in program order.                                   *)
(***************************************************************************)
EXTENDS Transport, FiniteSets

CONSTANTS
  Descriptors,       \* descriptor numbers of the process
  kInvalidSocket,    \* the value -1 of kInvalidSocket
  MaxAddresses,      \* longest list getaddrinfo returns
  MaxSockets,        \* sockets ever created, at most
  MaxBacklog,        \* connections waiting on one listener, at most
  AcceptTimeout,     \* options_.acceptTimeout, in ticks
  Deadline           \* ticks within which Close should end a waiting Accept

ASSUME TcpServerAssumption ==
  /\ kInvalidSocket \notin Descriptors
  /\ MaxAddresses \in Nat \ {0}
  /\ {MaxSockets, MaxBacklog, AcceptTimeout, Deadline} \subseteq Nat

VARIABLES
  \* Members of the server.  localPort_ is set and cleared with open_.
  valid,        \* options_.backlog > 0
  open_, socket_,
  \* The owner's thread, in Open or Close.
  pc, addresses, candidate, ret,
  \* The acceptor's thread, in Accept.
  apc,
  listener,     \* the copy of socket_
  watched,      \* the socket select waits for, 0: none
  left,         \* ticks until select times out
  client,       \* the descriptor accept returned
  connection,   \* the descriptor of the stream in the caller's unique_ptr
  aret,         \* status of the last Accept
  \* The operating system.
  table,        \* descriptor -> socket, 0 when the number is free
  sockets,      \* number of sockets created
  ours,         \* sockets that were listeners of this server
  foreign,      \* sockets of the other thread
  backlog,      \* socket -> connections waiting
  \* History.
  overlapped,   \* a Close has run during this Accept
  age,          \* ticks this Accept has waited since Close returned
  origin        \* where accept took the last connection from: the listener, and
                \* whether the server was closed and a Close had run by then

server == <<valid, open_, socket_>>
owner == <<pc, addresses, candidate, ret>>
interference == <<overlapped, age>>
waiting == <<listener, watched, left, interference>>
acceptor == <<apc, waiting, client, connection, aret>>
system == <<table, sockets, ours, foreign, backlog>>
vars == <<server, owner, acceptor, system, origin>>

Fd == Descriptors \cup {kInvalidSocket}
Free == {fd \in Descriptors : table[fd] = 0}
Listening == ours \cup foreign
Running == apc # "crashed"

TypeOK ==
  /\ {valid, open_} \subseteq BOOLEAN
  /\ {socket_, candidate, listener, client, connection} \subseteq Fd
  /\ pc \in {"idle", "getaddrinfo", "socket", "listen", "setOpen", "freeaddrinfo",
             "clearSocket", "clearOpen", "crashed"}
  /\ addresses \in 0..MaxAddresses
  /\ {ret, aret} \subseteq TransportStatus
  /\ apc \in {"idle", "load", "select", "wait", "recheck", "accept", "setNonBlocking",
              "crashed"}
  /\ watched \in 0..MaxSockets
  /\ left \in 0..AcceptTimeout
  /\ table \in [Descriptors -> 0..MaxSockets]
  /\ sockets \in 0..MaxSockets
  /\ ours \subseteq 1..MaxSockets /\ foreign \subseteq 1..MaxSockets
  /\ backlog \in [1..MaxSockets -> 0..MaxBacklog]
  /\ overlapped \in BOOLEAN
  /\ age \in 0..AcceptTimeout
  /\ origin \in [socket : 0..MaxSockets, closed : BOOLEAN, overlapped : BOOLEAN]

Nowhere == [socket |-> 0, closed |-> FALSE, overlapped |-> FALSE]

Init ==
  /\ valid \in BOOLEAN
  /\ open_ = FALSE
  /\ socket_ = kInvalidSocket
  /\ pc = "idle" /\ addresses = 0 /\ candidate = kInvalidSocket /\ ret = "Ok"
  /\ apc = "idle" /\ listener = kInvalidSocket /\ watched = 0 /\ left = 0
  /\ client = kInvalidSocket /\ connection = kInvalidSocket /\ aret = "Ok"
  /\ table = [fd \in Descriptors |-> 0]
  /\ sockets = 0 /\ ours = {} /\ foreign = {}
  /\ backlog = [s \in 1..MaxSockets |-> 0]
  /\ overlapped = FALSE /\ age = 0
  /\ origin = Nowhere

\* A descriptor number is bound to a new socket; a number is given up.
NewSocket(fd) ==
  /\ sockets < MaxSockets
  /\ table[fd] = 0
  /\ sockets' = sockets + 1
  /\ table' = [table EXCEPT ![fd] = sockets + 1]

Released(fd) == IF fd = kInvalidSocket THEN table ELSE [table EXCEPT ![fd] = 0]

-----------------------------------------------------------------------------
(* Open and Close, by the owner *)

CallOpen ==
  /\ pc = "idle"
  /\ \/ open_ /\ ret' = "AlreadyOpen" /\ UNCHANGED pc
     \/ ~open_ /\ ~valid /\ ret' = "InvalidArgument" /\ UNCHANGED pc
     \/ ~open_ /\ valid /\ ret' = "OpenFailed" /\ pc' \in {"idle", "getaddrinfo"}
  /\ UNCHANGED <<server, addresses, candidate, acceptor, system, origin>>

Resolve ==
  /\ pc = "getaddrinfo"
  /\ addresses' \in 0..MaxAddresses
  /\ pc' = IF addresses' = 0 THEN "idle" ELSE "socket"
  /\ UNCHANGED <<server, candidate, ret, acceptor, system, origin>>

\* Faulty variant: the end of the list is not noticed.
NextAddressUnchecked ==
  /\ addresses' = addresses - 1
  /\ pc' = "socket"

NextAddress ==
  /\ addresses' = addresses - 1
  /\ pc' = IF addresses = 1 THEN "freeaddrinfo" ELSE "socket"

CreateSocket ==
  /\ pc = "socket"
  /\ \/ NextAddress /\ UNCHANGED <<candidate, table, sockets>>
     \/ /\ \E fd \in Free : NewSocket(fd) /\ candidate' = fd
        /\ pc' = "listen"
        /\ UNCHANGED addresses
  /\ UNCHANGED <<server, ret, acceptor, ours, foreign, backlog, origin>>

\* Faulty variant: the candidate is not closed when bind or listen fails.
ListenFailsLeak ==
  /\ pc = "listen"
  /\ NextAddress
  /\ candidate' = kInvalidSocket
  /\ UNCHANGED <<server, ret, acceptor, system, origin>>

\* Faulty variant: the candidate is closed, and then stored all the same.
ListenFailsAdopted ==
  /\ pc = "listen"
  /\ pc' = "setOpen"
  /\ table' = Released(candidate)
  /\ socket_' = candidate
  /\ candidate' = kInvalidSocket
  /\ UNCHANGED <<valid, open_, addresses, ret, acceptor, sockets, ours, foreign, backlog,
                 origin>>

\* SetNonBlocking, bind or listen fails: close the candidate, `continue'.
ListenFails ==
  /\ pc = "listen"
  /\ NextAddress
  /\ table' = Released(candidate)
  /\ candidate' = kInvalidSocket
  /\ UNCHANGED <<server, ret, acceptor, sockets, ours, foreign, backlog, origin>>

\* The candidate listens, and socket_ is stored.
Listen ==
  /\ pc = "listen"
  /\ socket_' = candidate
  /\ candidate' = kInvalidSocket
  /\ ours' = ours \cup {table[candidate]}
  /\ pc' = "setOpen"
  /\ UNCHANGED <<valid, open_, addresses, ret, acceptor, table, sockets,
                 foreign, backlog, origin>>

SetOpen ==
  /\ pc = "setOpen"
  /\ open_' = TRUE
  /\ ret' = "Ok"
  /\ pc' = "freeaddrinfo"
  /\ UNCHANGED <<valid, socket_, addresses, candidate, acceptor, system, origin>>

FreeAddrInfo ==
  /\ pc = "freeaddrinfo"
  /\ pc' = "idle"
  /\ addresses' = 0
  /\ UNCHANGED <<server, candidate, ret, acceptor, system, origin>>

\* Close, first step: CloseNativeSocket.
CallClose ==
  /\ pc = "idle"
  /\ table' = Released(socket_)
  /\ pc' = "clearSocket"
  /\ overlapped' = (apc # "idle")
  /\ ret' = "Ok"
  /\ UNCHANGED <<server, addresses, candidate, apc, listener, watched, left, age, client,
                 connection, aret, sockets, ours, foreign, backlog, origin>>

ClearSocket ==
  /\ pc = "clearSocket"
  /\ socket_' = kInvalidSocket
  /\ pc' = "clearOpen"
  /\ UNCHANGED <<valid, open_, addresses, candidate, ret, acceptor, system, origin>>

ClearOpen ==
  /\ pc = "clearOpen"
  /\ open_' = FALSE
  /\ pc' = "idle"
  /\ UNCHANGED <<valid, socket_, addresses, candidate, ret, acceptor, system, origin>>

-----------------------------------------------------------------------------
(* Accept, by the acceptor *)

\* Accept ends; its locals are gone.
AcceptReturn(status) ==
  /\ aret' = status
  /\ apc' = "idle"
  /\ listener' = kInvalidSocket /\ watched' = 0 /\ left' = 0
  /\ overlapped' = FALSE /\ age' = 0

\* Accept goes on.
AcceptGoesOn(step) == apc' = step /\ UNCHANGED <<aret, waiting>>

\* connection.reset() destroys the previous stream; then open_ is tested.
CallAccept ==
  /\ apc = "idle"
  /\ table' = Released(connection)
  /\ connection' = kInvalidSocket
  /\ origin' = Nowhere
  /\ IF open_
     THEN /\ apc' = "load"
          /\ overlapped' = (pc \in {"clearSocket", "clearOpen"})
          /\ aret' = "Ok"
          /\ UNCHANGED <<listener, watched, left, age>>
     ELSE AcceptReturn("NotOpen")
  /\ UNCHANGED <<server, owner, client, sockets, ours, foreign, backlog>>

\* listener = socket_.
LoadListener ==
  /\ apc = "load"
  /\ listener' = socket_
  /\ apc' = "select"
  /\ UNCHANGED <<server, owner, watched, left, interference, client, connection, aret, system,
                 origin>>

\* WaitForSocket begins: select fails on a number that is free.  FD_SET with -1
\* writes outside the set; if nothing crashes, select waits for no socket.
Select ==
  /\ apc = "select"
  /\ IF listener # kInvalidSocket /\ table[listener] = 0
     THEN AcceptReturn("OpenFailed")
     ELSE /\ watched' = IF listener = kInvalidSocket THEN 0 ELSE table[listener]
          /\ left' = AcceptTimeout
          /\ apc' = "wait"
          /\ UNCHANGED <<listener, interference, aret>>
  /\ UNCHANGED <<server, owner, client, connection, system, origin>>

\* The other outcome of FD_SET with -1.
SelectCrashes ==
  /\ apc = "select"
  /\ listener = kInvalidSocket
  /\ apc' = "crashed" /\ pc' = "crashed"
  /\ UNCHANGED <<server, addresses, candidate, ret, waiting, client, connection, aret,
                 system, origin>>

\* What select finds when it looks at the descriptor again: a connection, or a
\* number that has become free.
Found ==
  /\ watched # 0
  /\ table[listener] = 0 \/ (table[listener] \in Listening /\ backlog[table[listener]] > 0)

\* A connection on the watched socket wakes select, and it finds something.
\* (Closing the descriptor does not wake it.)
Woken == watched # 0 /\ backlog[watched] > 0 /\ Found

WaitEnds ==
  /\ apc = "wait"
  /\ Woken
  /\ AcceptGoesOn("recheck")
  /\ UNCHANGED <<server, owner, client, connection, system, origin>>

\* Faulty variant: a wait that found nothing starts again.
WaitTimesOutAgain ==
  /\ apc = "wait"
  /\ left = 0
  /\ left' = AcceptTimeout
  /\ UNCHANGED <<server, owner, apc, listener, watched, interference, client, connection, aret,
                 system, origin>>

\* The timeout, after a last look.
WaitTimesOut ==
  /\ apc = "wait"
  /\ left = 0
  /\ IF Found THEN AcceptGoesOn("recheck") ELSE AcceptReturn("Timeout")
  /\ UNCHANGED <<server, owner, client, connection, system, origin>>

\* `|| !open_'
Recheck ==
  /\ apc = "recheck"
  /\ IF open_ THEN AcceptGoesOn("accept") ELSE AcceptReturn("OpenFailed")
  /\ UNCHANGED <<server, owner, client, connection, system, origin>>

\* accept(listener): whatever socket the number means by now.
Accept ==
  /\ apc = "accept"
  /\ table[listener] \in Listening /\ backlog[table[listener]] > 0
  /\ backlog' = [backlog EXCEPT ![table[listener]] = @ - 1]
  /\ \E fd \in Free : NewSocket(fd) /\ client' = fd
  /\ origin' = [socket |-> table[listener], closed |-> ~open_, overlapped |-> overlapped]
  /\ AcceptGoesOn("setNonBlocking")
  /\ UNCHANGED <<server, owner, connection, ours, foreign>>

\* The client has gone, or the call fails: not a listener any more, no
\* descriptor left.
AcceptFails ==
  /\ apc = "accept"
  /\ IF table[listener] \in Listening /\ backlog[table[listener]] = 0
     THEN AcceptReturn("WouldBlock")
     ELSE AcceptReturn("OpenFailed")
  /\ UNCHANGED <<server, owner, client, connection, system, origin>>

\* The stream takes the descriptor, or SetNonBlocking fails and it is closed.
HandOver ==
  /\ apc = "setNonBlocking"
  /\ client' = kInvalidSocket
  /\ \/ connection' = client /\ AcceptReturn("Ok") /\ UNCHANGED table
     \/ table' = Released(client) /\ AcceptReturn("OpenFailed") /\ UNCHANGED connection
  /\ UNCHANGED <<server, owner, sockets, ours, foreign, backlog, origin>>

-----------------------------------------------------------------------------
(* The rest of the world *)

\* A client connects.  A closed socket that select still holds listens on.
Arrives ==
  /\ Running
  /\ \E s \in Listening :
       /\ s = watched \/ \E fd \in Descriptors : table[fd] = s
       /\ backlog[s] < MaxBacklog
       /\ backlog' = [backlog EXCEPT ![s] = @ + 1]
  /\ UNCHANGED <<server, owner, acceptor, table, sockets, ours, foreign, origin>>

\* A client gives up before it was accepted.
Aborts ==
  /\ Running
  /\ \E s \in Listening : backlog[s] > 0 /\ backlog' = [backlog EXCEPT ![s] = @ - 1]
  /\ UNCHANGED <<server, owner, acceptor, table, sockets, ours, foreign, origin>>

\* The other thread opens a listener of its own, and closes it.
OtherOpens ==
  /\ Running
  /\ \E fd \in Free : NewSocket(fd)
  /\ foreign' = foreign \cup {sockets + 1}
  /\ UNCHANGED <<server, owner, acceptor, ours, backlog, origin>>

OtherCloses ==
  /\ Running
  /\ \E fd \in Descriptors : table[fd] \in foreign /\ table' = Released(fd)
  /\ UNCHANGED <<server, owner, acceptor, sockets, ours, foreign, backlog, origin>>

\* Time passes while Accept waits and has no reason to end.
Tick ==
  /\ apc = "wait" /\ left > 0 /\ ~Woken
  /\ left' = left - 1
  /\ age' = IF ~open_ /\ pc = "idle" THEN age + 1 ELSE age
  /\ UNCHANGED <<server, owner, apc, listener, watched, client, connection, aret, system, overlapped,
                 origin>>

OwnerStep ==
  CallOpen \/ Resolve \/ CreateSocket \/ ListenFails \/ Listen \/ SetOpen \/ FreeAddrInfo
  \/ CallClose \/ ClearSocket \/ ClearOpen

AcceptStep ==
  LoadListener \/ Select \/ SelectCrashes \/ WaitEnds \/ WaitTimesOut \/ Recheck \/ Accept
  \/ AcceptFails \/ HandOver

World == Arrives \/ Aborts \/ OtherOpens \/ OtherCloses \/ Tick

Next == OwnerStep \/ CallAccept \/ AcceptStep \/ World

Spec == Init /\ [][Next]_vars

\* The acceptor runs on, and time passes even while clients come and go.
FairSpec == Spec /\ WF_vars(AcceptStep) /\ SF_vars(Tick)

-----------------------------------------------------------------------------
(* Properties *)

\* The descriptors this server has to close.
Owned ==
  (IF pc = "clearSocket" THEN {} ELSE {socket_}) \cup (IF pc = "listen" THEN {candidate} ELSE {})
  \cup {client, connection}

\* However Open, Close and Accept interleave, every descriptor that does not
\* belong to the other thread has exactly one place that will close it, and
\* the server never closes a number that has come to mean another socket.
DescriptorsOwned ==
  Running =>
  /\ Owned \ {kInvalidSocket} = {fd \in Descriptors : table[fd] \notin foreign \cup {0}}
  /\ pc # "clearSocket" /\ socket_ # kInvalidSocket => table[socket_] \in ours

\* The connection of an Accept that no Close overlapped comes from a listener of
\* this server, although descriptor numbers are reused all around it.
ConnectionIsOurs ==
  connection # kInvalidSocket /\ ~origin.overlapped => origin.socket \in ours

\* Every Accept returns, even when the server is closed or its descriptor
\* number is reused under it.
AcceptReturns == apc # "idle" ~> apc \in {"idle", "crashed"}

-----------------------------------------------------------------------------
(* What the tests and comments say and the code does not do *)

\* test_tcp_server_transport.cpp, CloseUnblocksAccept: an Accept that waits on the
\* listener when the server is closed returns well before its own timeout, and
\* one that Close overtakes does not return a connection.
CloseUnblocksAccept == (watched # 0 => age <= Deadline) /\ ~origin.closed
=============================================================================
