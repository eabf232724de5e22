-------------------------- MODULE TcpServerProofs --------------------------
(***************************************************************************)
(* TcpServerTransport's invariants for every number of descriptors and     *)
(* sockets, with Open, Close and Accept interleaved in every way and the   *)
(* numbers of closed sockets handed out again.                             *)
(***************************************************************************)
EXTENDS TcpServer, TLAPS

\* A socket is known by a number of its own, which no other socket gets: unlike
\* descriptors, which are reused.
SocketsInv ==
  /\ \A fd \in Descriptors : table[fd] <= sockets
  /\ \A fd, gd \in Descriptors : table[fd] = table[gd] /\ table[fd] # 0 => fd = gd
  /\ ours \subseteq 1..sockets /\ foreign \subseteq 1..sockets
  /\ ours \cap foreign = {}

\* The owner's thread: Open runs on a server that is not open, and each of its
\* stores and those of Close leave the two members as the next step expects.
OwnerInv ==
  /\ pc # "crashed"
  /\ pc \in {"socket", "listen"} => addresses >= 1
  /\ pc \in {"getaddrinfo", "socket", "listen", "setOpen"} => ~open_
  /\ pc \in {"idle", "getaddrinfo", "socket", "listen", "freeaddrinfo", "clearSocket"} =>
       (open_ <=> socket_ # kInvalidSocket)
  /\ pc = "setOpen" => socket_ # kInvalidSocket
  /\ pc = "clearOpen" => socket_ = kInvalidSocket
  /\ candidate # kInvalidSocket <=> pc = "listen"

\* The acceptor's thread: what its locals hold at each step, and how long it may
\* still wait.
AcceptInv ==
  /\ client # kInvalidSocket <=> apc = "setNonBlocking"
  /\ connection # kInvalidSocket => apc = "idle"
  /\ apc \in {"recheck", "accept"} => listener # kInvalidSocket
  /\ apc = "wait" /\ watched # 0 => listener # kInvalidSocket
  /\ apc \in {"idle", "load", "select"} => age = 0
  /\ apc = "wait" => age + left <= AcceptTimeout

\* The sockets behind the descriptors of the server: the listener is one of its
\* own, the others are nobody's listener.
HeldInv ==
  /\ pc # "clearSocket" /\ socket_ # kInvalidSocket => table[socket_] \in ours
  /\ \A fd \in {candidate, client, connection} \ {kInvalidSocket} :
       table[fd] \notin ours \cup foreign \cup {0}
  /\ candidate # kInvalidSocket => candidate \notin {client, connection}
  /\ \A fd \in Descriptors : table[fd] \notin foreign \cup {0} => fd \in Owned

\* An Accept that no Close has overlapped: the server is still open and the
\* listener it loaded is still the server's.
UndisturbedInv ==
  /\ apc # "idle" /\ ~overlapped => open_ /\ pc \in {"idle", "freeaddrinfo"}
  /\ apc \in {"select", "wait", "recheck", "accept"} /\ ~overlapped => listener = socket_
  /\ (apc = "setNonBlocking" \/ connection # kInvalidSocket) /\ ~origin.overlapped =>
       origin.socket \in ours

\* After a crash nothing moves.
IInv ==
  /\ TypeOK
  /\ Running => SocketsInv /\ OwnerInv /\ AcceptInv /\ HeldInv /\ UndisturbedInv
  /\ ~Running => pc = "crashed" /\ connection = kInvalidSocket

-----------------------------------------------------------------------------
(* Types *)

\* The bounds.
LEMMA Bounds ==
  /\ MaxAddresses \in Nat \ {0} /\ MaxSockets \in Nat /\ MaxBacklog \in Nat
  /\ AcceptTimeout \in Nat /\ kInvalidSocket \notin Descriptors
BY TcpServerAssumption

\* The type invariant by owner: the flags, the server and its owner, the
\* acceptor, the operating system.
FlagsOK ==
  /\ valid \in BOOLEAN /\ open_ \in BOOLEAN
  /\ overlapped \in BOOLEAN
  /\ origin \in [socket : 0..MaxSockets, closed : BOOLEAN, overlapped : BOOLEAN]

ServerOK ==
  /\ socket_ \in Fd /\ candidate \in Fd
  /\ pc \in {"idle", "getaddrinfo", "socket", "listen", "setOpen", "freeaddrinfo",
             "clearSocket", "clearOpen", "crashed"}
  /\ addresses \in 0..MaxAddresses
  /\ ret \in TransportStatus

AcceptorOK ==
  /\ listener \in Fd /\ client \in Fd /\ connection \in Fd
  /\ apc \in {"idle", "load", "select", "wait", "recheck", "accept", "setNonBlocking",
              "crashed"}
  /\ watched \in 0..MaxSockets
  /\ left \in 0..AcceptTimeout
  /\ aret \in TransportStatus
  /\ age \in 0..AcceptTimeout

SystemOK ==
  /\ table \in [Descriptors -> 0..MaxSockets]
  /\ sockets \in 0..MaxSockets
  /\ ours \subseteq 1..MaxSockets /\ foreign \subseteq 1..MaxSockets
  /\ backlog \in [1..MaxSockets -> 0..MaxBacklog]

\* Together they are the type invariant.
LEMMA TypeParts == TypeOK <=> FlagsOK /\ ServerOK /\ AcceptorOK /\ SystemOK
BY DEF TypeOK, FlagsOK, ServerOK, AcceptorOK, SystemOK

\* A number that is given up means nothing; the others keep their meaning.
LEMMA ReleasedTable ==
  ASSUME SystemOK, NEW fd \in Fd
  PROVE  /\ Released(fd) \in [Descriptors -> 0..MaxSockets]
         /\ \A gd \in Descriptors : Released(fd)[gd] = IF gd = fd THEN 0 ELSE table[gd]
BY Bounds DEF SystemOK, Fd, Released

\* A new socket is none of those before it.
LEMMA NewSocketTable ==
  ASSUME SystemOK, NEW fd \in Descriptors, NewSocket(fd)
  PROVE  /\ table' \in [Descriptors -> 0..MaxSockets]
         /\ \A gd \in Descriptors : table'[gd] = IF gd = fd THEN sockets + 1 ELSE table[gd]
         /\ sockets' \in 1..MaxSockets /\ sockets' = sockets + 1 /\ table[fd] = 0
BY Bounds DEF SystemOK, NewSocket

\* After a crash nothing moves.
LEMMA CrashedStays ==
  ASSUME IInv, ~Running, [Next]_vars
  PROVE  UNCHANGED vars
<1>1. apc = "crashed" /\ pc = "crashed"
  BY DEF IInv, Running
<1> QED
  BY <1>1 DEF Next, OwnerStep, AcceptStep, World, CallOpen, Resolve, CreateSocket, ListenFails,
    Listen, SetOpen, FreeAddrInfo, CallClose, ClearSocket, ClearOpen, CallAccept, LoadListener,
    Select, SelectCrashes, WaitEnds, WaitTimesOut, Recheck, Accept, AcceptFails, HandOver,
    Arrives, Aborts, OtherOpens, OtherCloses, Tick, Running

\* No connection yet.
LEMMA NowhereType ==
  Nowhere \in [socket : 0..MaxSockets, closed : BOOLEAN, overlapped : BOOLEAN]
BY Bounds DEF Nowhere

\* Initially.
LEMMA InitIInv == Init => IInv
<1> SUFFICES ASSUME Init PROVE IInv
  OBVIOUS
<1>1. ServerOK
  BY Bounds DEF Init, ServerOK, Fd, TransportStatus
<1>2. FlagsOK /\ AcceptorOK
  <2>1. FlagsOK
    BY NowhereType DEF Init, FlagsOK
  <2>2. AcceptorOK
    BY Bounds DEF Init, AcceptorOK, Fd, TransportStatus
  <2> QED
    BY <2>1, <2>2
<1>3. SystemOK
  BY Bounds DEF Init, SystemOK
<1>4. SocketsInv
  BY DEF Init, SocketsInv
<1>5. OwnerInv /\ AcceptInv
  BY DEF Init, OwnerInv, AcceptInv
<1>6. HeldInv /\ UndisturbedInv
  BY DEF Init, HeldInv, UndisturbedInv
<1> QED
  BY <1>1, <1>2, <1>3, <1>4, <1>5, <1>6, TypeParts DEF IInv, Running, Init

\* Every action keeps the flags.
LEMMA FlagsStep ==
  ASSUME IInv, Running, Next
  PROVE  FlagsOK'
<1>0. FlagsOK /\ AcceptInv /\ SystemOK /\ AcceptorOK
  BY TypeParts DEF IInv
<1> USE <1>0, Bounds DEF FlagsOK, server, acceptor, waiting, interference
<1>1. CASE CallOpen
  BY <1>1 DEF CallOpen
<1>2. CASE Resolve
  BY <1>2 DEF Resolve
<1>3. CASE CreateSocket
  BY <1>3 DEF CreateSocket, NextAddress
<1>4. CASE ListenFails
  BY <1>4 DEF ListenFails, NextAddress
<1>5. CASE Listen
  BY <1>5 DEF Listen
<1>6. CASE SetOpen
  BY <1>6 DEF SetOpen
<1>7. CASE FreeAddrInfo
  BY <1>7 DEF FreeAddrInfo
<1>8. CASE CallClose
  BY <1>8 DEF CallClose
<1>9. CASE ClearSocket
  BY <1>9 DEF ClearSocket
<1>10. CASE ClearOpen
  BY <1>10 DEF ClearOpen
<1>11. CASE CallAccept
  <2>1. origin' \in [socket : 0..MaxSockets, closed : BOOLEAN, overlapped : BOOLEAN]
    BY <1>11, NowhereType DEF CallAccept
  <2>2. overlapped' \in BOOLEAN
    <3>1. CASE open_
      BY <1>11, <3>1 DEF CallAccept
    <3>2. CASE ~open_
      BY <1>11, <3>2 DEF CallAccept, AcceptReturn
    <3> QED
      BY <3>1, <3>2
  <2> QED
    BY <1>11, <2>1, <2>2 DEF CallAccept
<1>12. CASE LoadListener
  BY <1>12 DEF LoadListener
<1>13. CASE Select
  BY <1>13 DEF Select, AcceptReturn
<1>14. CASE SelectCrashes
  BY <1>14 DEF SelectCrashes
<1>15. CASE WaitEnds
  BY <1>15 DEF WaitEnds, AcceptGoesOn
<1>16. CASE WaitTimesOut
  BY <1>16 DEF WaitTimesOut, AcceptGoesOn, AcceptReturn
<1>17. CASE Recheck
  BY <1>17 DEF Recheck, AcceptGoesOn, AcceptReturn
<1>18. CASE Accept
  <2>1. table[listener] \in 0..MaxSockets
    BY <1>18, <1>0 DEF Accept, AcceptInv, AcceptorOK, SystemOK, Fd
  <2> QED
    BY <1>18, <1>0, <2>1 DEF Accept, AcceptGoesOn
<1>19. CASE AcceptFails
  BY <1>19 DEF AcceptFails, AcceptReturn
<1>20. CASE HandOver
  BY <1>20 DEF HandOver, AcceptReturn
<1>21. CASE Arrives
  BY <1>21 DEF Arrives
<1>22. CASE Aborts
  BY <1>22 DEF Aborts
<1>23. CASE OtherOpens
  BY <1>23 DEF OtherOpens
<1>24. CASE OtherCloses
  BY <1>24 DEF OtherCloses
<1>25. CASE Tick
  BY <1>25 DEF Tick
<1> QED
  BY <1>1, <1>2, <1>3, <1>4, <1>5, <1>6, <1>7, <1>8, <1>9, <1>10, <1>11, <1>12, <1>13, <1>14,
     <1>15, <1>16, <1>17, <1>18, <1>19, <1>20, <1>21, <1>22, <1>23, <1>24, <1>25
     DEF Next, OwnerStep, AcceptStep, World

\* Every action keeps the types of the server and of Open and Close.
LEMMA ServerTypeStep ==
  ASSUME IInv, Running, Next
  PROVE  ServerOK'
<1>0. ServerOK /\ OwnerInv
  BY TypeParts DEF IInv
<1> USE <1>0, Bounds DEF ServerOK, server, owner, Fd, TransportStatus
<1>1. CASE CallOpen
  BY <1>1 DEF CallOpen
<1>2. CASE Resolve
  BY <1>2 DEF Resolve
<1>3. CASE CreateSocket
  BY <1>3 DEF CreateSocket, NextAddress, Free, OwnerInv
<1>4. CASE ListenFails
  BY <1>4 DEF ListenFails, NextAddress, OwnerInv
<1>5. CASE Listen
  BY <1>5 DEF Listen
<1>6. CASE SetOpen
  BY <1>6 DEF SetOpen
<1>7. CASE FreeAddrInfo
  BY <1>7 DEF FreeAddrInfo
<1>8. CASE CallClose
  BY <1>8 DEF CallClose
<1>9. CASE ClearSocket
  BY <1>9 DEF ClearSocket
<1>10. CASE ClearOpen
  BY <1>10 DEF ClearOpen
<1>11. CASE CallAccept
  BY <1>11 DEF CallAccept, AcceptReturn
<1>12. CASE LoadListener
  BY <1>12 DEF LoadListener
<1>13. CASE Select
  BY <1>13 DEF Select, AcceptReturn
<1>14. CASE SelectCrashes
  BY <1>14 DEF SelectCrashes
<1>15. CASE WaitEnds
  BY <1>15 DEF WaitEnds, AcceptGoesOn
<1>16. CASE WaitTimesOut
  BY <1>16 DEF WaitTimesOut, AcceptGoesOn, AcceptReturn
<1>17. CASE Recheck
  BY <1>17 DEF Recheck, AcceptGoesOn, AcceptReturn
<1>18. CASE Accept
  BY <1>18 DEF Accept, AcceptGoesOn
<1>19. CASE AcceptFails
  BY <1>19 DEF AcceptFails, AcceptReturn
<1>20. CASE HandOver
  BY <1>20 DEF HandOver, AcceptReturn
<1>21. CASE Arrives
  BY <1>21 DEF Arrives
<1>22. CASE Aborts
  BY <1>22 DEF Aborts
<1>23. CASE OtherOpens
  BY <1>23 DEF OtherOpens
<1>24. CASE OtherCloses
  BY <1>24 DEF OtherCloses
<1>25. CASE Tick
  BY <1>25 DEF Tick
<1> QED
  BY <1>1, <1>2, <1>3, <1>4, <1>5, <1>6, <1>7, <1>8, <1>9, <1>10, <1>11, <1>12, <1>13, <1>14,
     <1>15, <1>16, <1>17, <1>18, <1>19, <1>20, <1>21, <1>22, <1>23, <1>24, <1>25
     DEF Next, OwnerStep, AcceptStep, World

\* Every action keeps the types of Accept.
LEMMA AcceptorTypeStep ==
  ASSUME IInv, Running, Next
  PROVE  AcceptorOK'
<1>0. ServerOK /\ AcceptorOK /\ SystemOK /\ AcceptInv
  BY TypeParts DEF IInv
<1> USE <1>0, Bounds DEF AcceptorOK, acceptor, waiting, interference, Fd, TransportStatus
<1>1. CASE CallOpen
  BY <1>1 DEF CallOpen
<1>2. CASE Resolve
  BY <1>2 DEF Resolve
<1>3. CASE CreateSocket
  BY <1>3 DEF CreateSocket, NextAddress
<1>4. CASE ListenFails
  BY <1>4 DEF ListenFails, NextAddress
<1>5. CASE Listen
  BY <1>5 DEF Listen
<1>6. CASE SetOpen
  BY <1>6 DEF SetOpen
<1>7. CASE FreeAddrInfo
  BY <1>7 DEF FreeAddrInfo
<1>8. CASE CallClose
  BY <1>8 DEF CallClose
<1>9. CASE ClearSocket
  BY <1>9 DEF ClearSocket
<1>10. CASE ClearOpen
  BY <1>10 DEF ClearOpen
<1>11. CASE CallAccept
  BY <1>11 DEF CallAccept, AcceptReturn
<1>12. CASE LoadListener
  BY <1>12 DEF LoadListener, ServerOK
<1>13. CASE Select
  BY <1>13 DEF Select, AcceptReturn, SystemOK
<1>14. CASE SelectCrashes
  BY <1>14 DEF SelectCrashes
<1>15. CASE WaitEnds
  BY <1>15 DEF WaitEnds, AcceptGoesOn
<1>16. CASE WaitTimesOut
  BY <1>16 DEF WaitTimesOut, AcceptGoesOn, AcceptReturn
<1>17. CASE Recheck
  BY <1>17 DEF Recheck, AcceptGoesOn, AcceptReturn
<1>18. CASE Accept
  BY <1>18 DEF Accept, AcceptGoesOn, Free, SystemOK, ServerOK, AcceptInv
<1>19. CASE AcceptFails
  BY <1>19 DEF AcceptFails, AcceptReturn
<1>20. CASE HandOver
  BY <1>20 DEF HandOver, AcceptReturn
<1>21. CASE Arrives
  BY <1>21 DEF Arrives
<1>22. CASE Aborts
  BY <1>22 DEF Aborts
<1>23. CASE OtherOpens
  BY <1>23 DEF OtherOpens
<1>24. CASE OtherCloses
  BY <1>24 DEF OtherCloses
<1>25. CASE Tick
  BY <1>25 DEF Tick, AcceptInv
<1> QED
  BY <1>1, <1>2, <1>3, <1>4, <1>5, <1>6, <1>7, <1>8, <1>9, <1>10, <1>11, <1>12, <1>13, <1>14,
     <1>15, <1>16, <1>17, <1>18, <1>19, <1>20, <1>21, <1>22, <1>23, <1>24, <1>25
     DEF Next, OwnerStep, AcceptStep, World

\* Every action keeps the types of the operating system.
LEMMA SystemTypeStep ==
  ASSUME IInv, Running, Next
  PROVE  SystemOK'
<1>0. ServerOK /\ AcceptorOK /\ SystemOK /\ SocketsInv /\ OwnerInv /\ AcceptInv /\ HeldInv
  BY TypeParts DEF IInv
<1> USE Bounds DEF SystemOK, system
<1>1. CASE CallOpen
  BY <1>1, <1>0 DEF CallOpen
<1>2. CASE Resolve
  BY <1>2, <1>0 DEF Resolve
<1>3. CASE CreateSocket
  <2>1. CASE UNCHANGED <<table, sockets>>
    BY <1>3, <1>0, <2>1 DEF CreateSocket
  <2>2. CASE \E fd \in Free : NewSocket(fd)
    <3>1. PICK fd \in Descriptors : NewSocket(fd)
      BY <2>2 DEF Free
    <3> QED
      BY <1>3, <1>0, <3>1, NewSocketTable DEF CreateSocket
  <2> QED
    BY <1>3, <2>1, <2>2 DEF CreateSocket
<1>4. CASE ListenFails
  <2>1. table' = Released(candidate) /\ candidate \in Fd
    BY <1>4, <1>0 DEF ListenFails, ServerOK
  <2> QED
    BY <1>4, <1>0, <2>1, ReleasedTable DEF ListenFails
<1>5. CASE Listen
  <2>1. candidate \in Descriptors
    BY <1>5, <1>0 DEF Listen, OwnerInv, ServerOK, Fd
  <2>2. table[candidate] \in 0..MaxSockets /\ table[candidate] # 0
    BY <1>5, <1>0, <2>1 DEF HeldInv
  <2>3. table[candidate] \in 1..MaxSockets
    BY <2>2
  <2> QED
    BY <1>5, <1>0, <2>3 DEF Listen
<1>6. CASE SetOpen
  BY <1>6, <1>0 DEF SetOpen
<1>7. CASE FreeAddrInfo
  BY <1>7, <1>0 DEF FreeAddrInfo
<1>8. CASE CallClose
  <2>1. table' = Released(socket_) /\ socket_ \in Fd
    BY <1>8, <1>0 DEF CallClose, ServerOK
  <2> QED
    BY <1>8, <1>0, <2>1, ReleasedTable DEF CallClose
<1>9. CASE ClearSocket
  BY <1>9, <1>0 DEF ClearSocket
<1>10. CASE ClearOpen
  BY <1>10, <1>0 DEF ClearOpen
<1>11. CASE CallAccept
  <2>1. table' = Released(connection) /\ connection \in Fd
    BY <1>11, <1>0 DEF CallAccept, AcceptorOK
  <2> QED
    BY <1>11, <1>0, <2>1, ReleasedTable DEF CallAccept
<1>12. CASE LoadListener
  BY <1>12, <1>0 DEF LoadListener
<1>13. CASE Select
  BY <1>13, <1>0 DEF Select, AcceptReturn
<1>14. CASE SelectCrashes
  BY <1>14, <1>0 DEF SelectCrashes
<1>15. CASE WaitEnds
  BY <1>15, <1>0 DEF WaitEnds, AcceptGoesOn
<1>16. CASE WaitTimesOut
  BY <1>16, <1>0 DEF WaitTimesOut, AcceptGoesOn, AcceptReturn
<1>17. CASE Recheck
  BY <1>17, <1>0 DEF Recheck, AcceptGoesOn, AcceptReturn
<1>18. CASE Accept
  <2>1. PICK fd \in Descriptors : NewSocket(fd)
    BY <1>18 DEF Accept, Free
  <2>2. PICK s \in 1..MaxSockets : backlog[s] > 0 /\ backlog' = [backlog EXCEPT ![s] = @ - 1]
    BY <1>18, <1>0 DEF Accept, Listening
  <2>3. backlog' \in [1..MaxSockets -> 0..MaxBacklog]
    BY <1>0, <2>2
  <2>4. table' \in [Descriptors -> 0..MaxSockets] /\ sockets' \in 0..MaxSockets
    BY <1>0, <2>1, NewSocketTable
  <2>5. UNCHANGED <<ours, foreign>>
    BY <1>18 DEF Accept
  <2> QED
    BY <1>0, <2>3, <2>4, <2>5
<1>19. CASE AcceptFails
  BY <1>19, <1>0 DEF AcceptFails, AcceptReturn
<1>20. CASE HandOver
  <2>1. CASE UNCHANGED table
    BY <1>20, <1>0, <2>1 DEF HandOver
  <2>2. CASE table' = Released(client)
    <3>1. client \in Fd
      BY <1>0 DEF AcceptorOK
    <3> QED
      BY <1>20, <1>0, <2>2, <3>1, ReleasedTable DEF HandOver
  <2> QED
    BY <1>20, <2>1, <2>2 DEF HandOver
<1>21. CASE Arrives
  <2>1. PICK s \in 1..MaxSockets : /\ backlog[s] < MaxBacklog
                                   /\ backlog' = [backlog EXCEPT ![s] = @ + 1]
    BY <1>21, <1>0 DEF Arrives, Listening
  <2>2. backlog' \in [1..MaxSockets -> 0..MaxBacklog]
    BY <1>0, <2>1
  <2> QED
    BY <1>21, <1>0, <2>2 DEF Arrives
<1>22. CASE Aborts
  <2>1. PICK s \in 1..MaxSockets : /\ backlog[s] > 0
                                   /\ backlog' = [backlog EXCEPT ![s] = @ - 1]
    BY <1>22, <1>0 DEF Aborts, Listening
  <2>2. backlog' \in [1..MaxSockets -> 0..MaxBacklog]
    BY <1>0, <2>1
  <2> QED
    BY <1>22, <1>0, <2>2 DEF Aborts
<1>23. CASE OtherOpens
  <2>1. PICK fd \in Descriptors : NewSocket(fd)
    BY <1>23 DEF OtherOpens, Free
  <2>2. sockets + 1 \in 1..MaxSockets
    BY <1>0, <2>1, NewSocketTable
  <2> QED
    BY <1>23, <1>0, <2>1, <2>2, NewSocketTable DEF OtherOpens
<1>24. CASE OtherCloses
  <2>1. PICK fd \in Descriptors : table' = Released(fd)
    BY <1>24 DEF OtherCloses
  <2>2. fd \in Fd
    BY DEF Fd
  <2> QED
    BY <1>24, <1>0, <2>1, <2>2, ReleasedTable DEF OtherCloses
<1>25. CASE Tick
  BY <1>25, <1>0 DEF Tick
<1> QED
  BY <1>1, <1>2, <1>3, <1>4, <1>5, <1>6, <1>7, <1>8, <1>9, <1>10, <1>11, <1>12, <1>13, <1>14,
     <1>15, <1>16, <1>17, <1>18, <1>19, <1>20, <1>21, <1>22, <1>23, <1>24, <1>25
     DEF Next, OwnerStep, AcceptStep, World

-----------------------------------------------------------------------------
(* The threads *)

\* Every action keeps the owner's thread in order.
LEMMA OwnerInvStep ==
  ASSUME IInv, Running, Next
  PROVE  Running' => OwnerInv'
<1>0. FlagsOK /\ ServerOK /\ OwnerInv
  BY TypeParts DEF IInv
<1> USE Bounds DEF OwnerInv, ServerOK, Fd, server, owner
<1>1. CASE CallOpen
  BY <1>1, <1>0 DEF CallOpen
<1>2. CASE Resolve
  BY <1>2, <1>0 DEF Resolve
<1>3. CASE CreateSocket
  BY <1>3, <1>0 DEF CreateSocket, NextAddress, Free
<1>4. CASE ListenFails
  BY <1>4, <1>0 DEF ListenFails, NextAddress
<1>5. CASE Listen
  BY <1>5, <1>0 DEF Listen
<1>6. CASE SetOpen
  BY <1>6, <1>0 DEF SetOpen
<1>7. CASE FreeAddrInfo
  BY <1>7, <1>0 DEF FreeAddrInfo
<1>8. CASE CallClose
  BY <1>8, <1>0 DEF CallClose
<1>9. CASE ClearSocket
  BY <1>9, <1>0 DEF ClearSocket
<1>10. CASE ClearOpen
  BY <1>10, <1>0 DEF ClearOpen
<1>11. CASE CallAccept
  BY <1>11, <1>0 DEF CallAccept, AcceptReturn
<1>12. CASE LoadListener
  BY <1>12, <1>0 DEF LoadListener
<1>13. CASE Select
  BY <1>13, <1>0 DEF Select, AcceptReturn
<1>14. CASE SelectCrashes
  BY <1>14, <1>0 DEF SelectCrashes, Running
<1>15. CASE WaitEnds
  BY <1>15, <1>0 DEF WaitEnds, AcceptGoesOn
<1>16. CASE WaitTimesOut
  BY <1>16, <1>0 DEF WaitTimesOut, AcceptGoesOn, AcceptReturn
<1>17. CASE Recheck
  BY <1>17, <1>0 DEF Recheck, AcceptGoesOn, AcceptReturn
<1>18. CASE Accept
  BY <1>18, <1>0 DEF Accept, AcceptGoesOn
<1>19. CASE AcceptFails
  BY <1>19, <1>0 DEF AcceptFails, AcceptReturn
<1>20. CASE HandOver
  BY <1>20, <1>0 DEF HandOver, AcceptReturn
<1>21. CASE Arrives
  BY <1>21, <1>0 DEF Arrives
<1>22. CASE Aborts
  BY <1>22, <1>0 DEF Aborts
<1>23. CASE OtherOpens
  BY <1>23, <1>0 DEF OtherOpens
<1>24. CASE OtherCloses
  BY <1>24, <1>0 DEF OtherCloses
<1>25. CASE Tick
  BY <1>25, <1>0 DEF Tick
<1> QED
  BY <1>1, <1>2, <1>3, <1>4, <1>5, <1>6, <1>7, <1>8, <1>9, <1>10, <1>11, <1>12, <1>13, <1>14,
     <1>15, <1>16, <1>17, <1>18, <1>19, <1>20, <1>21, <1>22, <1>23, <1>24, <1>25
     DEF Next, OwnerStep, AcceptStep, World

\* Every action keeps the acceptor's thread in order.
LEMMA AcceptInvStep ==
  ASSUME IInv, Running, Next
  PROVE  Running' => AcceptInv'
<1>0. AcceptorOK /\ AcceptInv
  BY TypeParts DEF IInv
<1> USE Bounds DEF AcceptInv, AcceptorOK, Fd, acceptor, waiting, interference
<1>1. CASE CallOpen
  BY <1>1, <1>0 DEF CallOpen
<1>2. CASE Resolve
  BY <1>2, <1>0 DEF Resolve
<1>3. CASE CreateSocket
  BY <1>3, <1>0 DEF CreateSocket, NextAddress
<1>4. CASE ListenFails
  BY <1>4, <1>0 DEF ListenFails, NextAddress
<1>5. CASE Listen
  BY <1>5, <1>0 DEF Listen
<1>6. CASE SetOpen
  BY <1>6, <1>0 DEF SetOpen
<1>7. CASE FreeAddrInfo
  BY <1>7, <1>0 DEF FreeAddrInfo
<1>8. CASE CallClose
  BY <1>8, <1>0 DEF CallClose
<1>9. CASE ClearSocket
  BY <1>9, <1>0 DEF ClearSocket
<1>10. CASE ClearOpen
  BY <1>10, <1>0 DEF ClearOpen
<1>11. CASE CallAccept
  BY <1>11, <1>0 DEF CallAccept, AcceptReturn
<1>12. CASE LoadListener
  BY <1>12, <1>0 DEF LoadListener
<1>13. CASE Select
  BY <1>13, <1>0 DEF Select, AcceptReturn
<1>14. CASE SelectCrashes
  BY <1>14, <1>0 DEF SelectCrashes, Running
<1>15. CASE WaitEnds
  BY <1>15, <1>0 DEF WaitEnds, AcceptGoesOn, Woken, Found
<1>16. CASE WaitTimesOut
  BY <1>16, <1>0 DEF WaitTimesOut, AcceptGoesOn, AcceptReturn, Found
<1>17. CASE Recheck
  BY <1>17, <1>0 DEF Recheck, AcceptGoesOn, AcceptReturn
<1>18. CASE Accept
  BY <1>18, <1>0 DEF Accept, AcceptGoesOn, Free
<1>19. CASE AcceptFails
  BY <1>19, <1>0 DEF AcceptFails, AcceptReturn
<1>20. CASE HandOver
  BY <1>20, <1>0 DEF HandOver, AcceptReturn
<1>21. CASE Arrives
  BY <1>21, <1>0 DEF Arrives
<1>22. CASE Aborts
  BY <1>22, <1>0 DEF Aborts
<1>23. CASE OtherOpens
  BY <1>23, <1>0 DEF OtherOpens
<1>24. CASE OtherCloses
  BY <1>24, <1>0 DEF OtherCloses
<1>25. CASE Tick
  BY <1>25, <1>0 DEF Tick
<1> QED
  BY <1>1, <1>2, <1>3, <1>4, <1>5, <1>6, <1>7, <1>8, <1>9, <1>10, <1>11, <1>12, <1>13, <1>14,
     <1>15, <1>16, <1>17, <1>18, <1>19, <1>20, <1>21, <1>22, <1>23, <1>24, <1>25
     DEF Next, OwnerStep, AcceptStep, World

\* An Accept keeps its listener until a Close overlaps it.
LEMMA UndisturbedStep ==
  ASSUME IInv, Running, Next
  PROVE  Running' => UndisturbedInv'
<1>0. OwnerInv /\ AcceptInv /\ UndisturbedInv /\ HeldInv /\ ServerOK
  BY TypeParts DEF IInv
<1> USE DEF UndisturbedInv, server, owner, acceptor, waiting, interference, system
<1>1. CASE CallOpen
  BY <1>1, <1>0 DEF CallOpen, OwnerInv
<1>2. CASE Resolve
  BY <1>2, <1>0 DEF Resolve
<1>3. CASE CreateSocket
  BY <1>3, <1>0 DEF CreateSocket, NextAddress
<1>4. CASE ListenFails
  BY <1>4, <1>0 DEF ListenFails, NextAddress
<1>5. CASE Listen
  BY <1>5, <1>0 DEF Listen
<1>6. CASE SetOpen
  BY <1>6, <1>0 DEF SetOpen, OwnerInv
<1>7. CASE FreeAddrInfo
  BY <1>7, <1>0 DEF FreeAddrInfo
<1>8. CASE CallClose
  BY <1>8, <1>0 DEF CallClose
<1>9. CASE ClearSocket
  BY <1>9, <1>0 DEF ClearSocket
<1>10. CASE ClearOpen
  BY <1>10, <1>0 DEF ClearOpen
<1>11. CASE CallAccept
  <2>1. connection' = kInvalidSocket /\ UNCHANGED <<open_, pc, socket_>>
    BY <1>11 DEF CallAccept
  <2>2. CASE open_
    <3>1. apc' = "load" /\ overlapped' = (pc \in {"clearSocket", "clearOpen"})
      BY <1>11, <2>2 DEF CallAccept
    <3>2. pc \in {"idle", "freeaddrinfo", "clearSocket", "clearOpen"}
      BY <1>0, <2>2 DEF OwnerInv, ServerOK
    <3> QED
      BY <2>1, <2>2, <3>1, <3>2
  <2>3. CASE ~open_
    BY <1>11, <2>1, <2>3 DEF CallAccept, AcceptReturn
  <2> QED
    BY <2>2, <2>3
<1>12. CASE LoadListener
  BY <1>12, <1>0 DEF LoadListener
<1>13. CASE Select
  BY <1>13, <1>0 DEF Select, AcceptReturn
<1>14. CASE SelectCrashes
  BY <1>14, <1>0 DEF SelectCrashes, Running
<1>15. CASE WaitEnds
  BY <1>15, <1>0 DEF WaitEnds, AcceptGoesOn
<1>16. CASE WaitTimesOut
  BY <1>16, <1>0 DEF WaitTimesOut, AcceptGoesOn, AcceptReturn
<1>17. CASE Recheck
  BY <1>17, <1>0 DEF Recheck, AcceptGoesOn, AcceptReturn
<1>18. CASE Accept
  BY <1>18, <1>0 DEF Accept, AcceptGoesOn, AcceptInv, OwnerInv, HeldInv
<1>19. CASE AcceptFails
  BY <1>19, <1>0 DEF AcceptFails, AcceptReturn
<1>20. CASE HandOver
  BY <1>20, <1>0 DEF HandOver, AcceptReturn, AcceptInv
<1>21. CASE Arrives
  BY <1>21, <1>0 DEF Arrives
<1>22. CASE Aborts
  BY <1>22, <1>0 DEF Aborts
<1>23. CASE OtherOpens
  BY <1>23, <1>0 DEF OtherOpens
<1>24. CASE OtherCloses
  BY <1>24, <1>0 DEF OtherCloses
<1>25. CASE Tick
  BY <1>25, <1>0 DEF Tick
<1> QED
  BY <1>1, <1>2, <1>3, <1>4, <1>5, <1>6, <1>7, <1>8, <1>9, <1>10, <1>11, <1>12, <1>13, <1>14,
     <1>15, <1>16, <1>17, <1>18, <1>19, <1>20, <1>21, <1>22, <1>23, <1>24, <1>25
     DEF Next, OwnerStep, AcceptStep, World

-----------------------------------------------------------------------------
(* The descriptors *)

\* Giving a number up leaves the sockets apart.
LEMMA SocketsReleased ==
  ASSUME SystemOK, SocketsInv, NEW fd \in Fd, table' = Released(fd),
         UNCHANGED <<sockets, ours, foreign>>
  PROVE  SocketsInv'
<1>1. \A gd \in Descriptors : table'[gd] = IF gd = fd THEN 0 ELSE table[gd]
  BY ReleasedTable
<1>2. 0 <= sockets
  BY Bounds DEF SystemOK
<1>3. \A gd \in Descriptors : table'[gd] <= sockets'
  BY <1>1, <1>2 DEF SocketsInv
<1>4. \A gd, hd \in Descriptors : table'[gd] = table'[hd] /\ table'[gd] # 0 => gd = hd
  BY <1>1 DEF SocketsInv
<1> QED
  BY <1>3, <1>4 DEF SocketsInv

\* So does a new socket, whoever makes it.
LEMMA SocketsNew ==
  ASSUME SystemOK, SocketsInv, NEW fd \in Descriptors, NewSocket(fd), UNCHANGED ours,
         foreign' \in {foreign, foreign \cup {sockets + 1}}
  PROVE  SocketsInv'
<1>1. /\ \A gd \in Descriptors : table'[gd] = IF gd = fd THEN sockets + 1 ELSE table[gd]
      /\ sockets' = sockets + 1
  BY NewSocketTable
<1>2. sockets \in Nat /\ \A gd \in Descriptors : table[gd] \in Nat /\ table[gd] <= sockets
  BY Bounds DEF SystemOK, SocketsInv
<1>3. \A gd \in Descriptors : table'[gd] <= sockets'
  BY <1>1, <1>2
<1>4. \A gd \in Descriptors : table[gd] # sockets + 1
  BY <1>2
<1>5. \A gd, hd \in Descriptors : table'[gd] = table'[hd] /\ table'[gd] # 0 => gd = hd
  BY <1>1, <1>4 DEF SocketsInv
<1>6. ours \subseteq 1..sockets /\ foreign \subseteq 1..sockets /\ ours \cap foreign = {}
  BY DEF SocketsInv
<1>7. 1..sockets \subseteq 1..(sockets + 1) /\ sockets + 1 \in 1..(sockets + 1)
      /\ sockets + 1 \notin 1..sockets
  BY <1>2
<1>8. ours' \subseteq 1..sockets' /\ foreign' \subseteq 1..sockets' /\ ours' \cap foreign' = {}
  BY <1>1, <1>6, <1>7
<1> QED
  BY <1>3, <1>5, <1>8 DEF SocketsInv

\* Every action keeps the sockets apart.
LEMMA SocketsStep ==
  ASSUME IInv, Running, Next
  PROVE  SocketsInv'
<1>0. SystemOK /\ ServerOK /\ AcceptorOK /\ SocketsInv /\ OwnerInv /\ HeldInv
  BY TypeParts DEF IInv
<1>1. ASSUME UNCHANGED <<table, sockets, ours, foreign>> PROVE SocketsInv'
  BY <1>0, <1>1 DEF SocketsInv
<1>2. CASE CallOpen \/ Resolve \/ SetOpen \/ FreeAddrInfo \/ ClearSocket \/ ClearOpen
  BY <1>1, <1>2 DEF CallOpen, Resolve, SetOpen, FreeAddrInfo, ClearSocket, ClearOpen, system
<1>3. CASE CreateSocket
  <2>1. CASE UNCHANGED <<table, sockets>>
    BY <1>1, <1>3, <2>1 DEF CreateSocket
  <2>2. ASSUME NEW fd \in Free, NewSocket(fd) PROVE SocketsInv'
    BY <1>0, <1>3, <2>2, SocketsNew DEF CreateSocket, Free
  <2> QED
    BY <1>3, <2>1, <2>2 DEF CreateSocket
<1>4. CASE ListenFails
  BY <1>0, <1>4, SocketsReleased DEF ListenFails, ServerOK
<1>5. CASE Listen
  <2>1. candidate \in Descriptors /\ table[candidate] \notin foreign \cup {0}
    BY <1>0, <1>5 DEF Listen, OwnerInv, ServerOK, Fd, HeldInv
  <2>2. table[candidate] \in Nat /\ table[candidate] <= sockets /\ sockets \in Nat
    BY <1>0, <2>1, Bounds DEF SystemOK, SocketsInv
  <2>3. table[candidate] \in 1..sockets
    BY <2>1, <2>2
  <2> QED
    BY <1>0, <1>5, <2>1, <2>3 DEF Listen, SocketsInv
<1>6. CASE CallClose
  BY <1>0, <1>6, SocketsReleased DEF CallClose, ServerOK
<1>7. CASE CallAccept
  BY <1>0, <1>7, SocketsReleased DEF CallAccept, AcceptorOK
<1>8. CASE LoadListener \/ Select \/ SelectCrashes \/ WaitEnds \/ WaitTimesOut \/ Recheck
           \/ AcceptFails
  BY <1>1, <1>8 DEF LoadListener, Select, SelectCrashes, WaitEnds, WaitTimesOut, Recheck,
                    AcceptFails, system
<1>9. CASE Accept
  <2>1. PICK fd \in Descriptors : NewSocket(fd)
    BY <1>9 DEF Accept, Free
  <2>2. UNCHANGED <<ours, foreign>>
    BY <1>9 DEF Accept
  <2> QED
    BY <1>0, <2>1, <2>2, SocketsNew
<1>10. CASE HandOver
  <2>1. CASE UNCHANGED table
    BY <1>1, <1>10, <2>1 DEF HandOver
  <2>2. CASE table' = Released(client)
    BY <1>0, <1>10, <2>2, SocketsReleased DEF HandOver, AcceptorOK
  <2> QED
    BY <1>10, <2>1, <2>2 DEF HandOver
<1>11. CASE Arrives \/ Aborts \/ Tick
  BY <1>1, <1>11 DEF Arrives, Aborts, Tick, system
<1>12. CASE OtherOpens
  <2>1. PICK fd \in Descriptors : NewSocket(fd)
    BY <1>12 DEF OtherOpens, Free
  <2> QED
    BY <1>0, <1>12, <2>1, SocketsNew DEF OtherOpens
<1>13. CASE OtherCloses
  BY <1>0, <1>13, SocketsReleased DEF OtherCloses, Fd
<1> QED
  BY <1>2, <1>3, <1>4, <1>5, <1>6, <1>7, <1>8, <1>9, <1>10, <1>11, <1>12, <1>13
     DEF Next, OwnerStep, AcceptStep, World

\* Every action leaves each descriptor with its one owner.
LEMMA HeldStep ==
  ASSUME IInv, Running, Next
  PROVE  Running' => HeldInv'
<1>0. /\ SystemOK /\ ServerOK /\ AcceptorOK /\ SocketsInv /\ OwnerInv /\ AcceptInv /\ HeldInv
      /\ kInvalidSocket \notin Descriptors
  BY TypeParts, Bounds DEF IInv
<1>new. sockets + 1 \notin ours \cup foreign \cup {0}
  <2>1. sockets \in Nat /\ ours \subseteq 1..sockets /\ foreign \subseteq 1..sockets
    BY <1>0, Bounds DEF SystemOK, SocketsInv
  <2> QED
    BY <2>1
<1>apart. ASSUME NEW fd \in Descriptors, table[fd] = 0,
                 \A gd \in Descriptors : table'[gd] = IF gd = fd THEN sockets + 1 ELSE table[gd]
          PROVE  /\ pc # "clearSocket" /\ socket_ # kInvalidSocket => table'[socket_] = table[socket_]
                 /\ \A gd \in {candidate, client, connection} \ {kInvalidSocket} :
                      gd # fd /\ table'[gd] = table[gd]
                 /\ \A gd \in Descriptors \ {fd} : table'[gd] = table[gd]
                 /\ table'[fd] \notin ours \cup foreign \cup {0}
  <2>1. 0 \notin ours
    BY <1>0, Bounds DEF SystemOK
  <2> QED
    BY <1>0, <1>new, <1>apart, <2>1 DEF HeldInv, ServerOK, AcceptorOK, Fd
<1> USE DEF HeldInv, Owned
<1>1. ASSUME UNCHANGED <<table, ours, foreign, socket_, candidate, client, connection>>,
             pc' = pc \/ (pc # "listen" /\ pc' # "listen" /\ pc # "clearSocket" /\ pc' # "clearSocket")
      PROVE  HeldInv'
  BY <1>0, <1>1
<1>2. CASE CallOpen \/ Resolve \/ SetOpen \/ FreeAddrInfo
  BY <1>1, <1>2 DEF CallOpen, Resolve, SetOpen, FreeAddrInfo, server, acceptor, system
<1>3. CASE CreateSocket
  <2>1. CASE NextAddress /\ UNCHANGED <<candidate, table, sockets>>
    BY <1>1, <1>3, <2>1 DEF CreateSocket, NextAddress, server, acceptor
  <2>2. ASSUME NEW fd \in Free, NewSocket(fd), candidate' = fd, pc' = "listen" PROVE HeldInv'
    <3>1. /\ \A gd \in Descriptors : table'[gd] = IF gd = fd THEN sockets + 1 ELSE table[gd]
          /\ table[fd] = 0 /\ fd \in Descriptors
      BY <1>0, <2>2, NewSocketTable DEF Free
    <3>2. /\ UNCHANGED <<ours, foreign, socket_, client, connection>>
          /\ pc = "socket" /\ candidate = kInvalidSocket
      BY <1>0, <1>3 DEF CreateSocket, server, acceptor, OwnerInv
    <3>3. /\ pc # "clearSocket" /\ socket_ # kInvalidSocket => table'[socket_] = table[socket_]
          /\ \A gd \in {candidate, client, connection} \ {kInvalidSocket} :
               gd # fd /\ table'[gd] = table[gd]
          /\ \A gd \in Descriptors \ {fd} : table'[gd] = table[gd]
          /\ table'[fd] \notin ours \cup foreign \cup {0}
      BY <1>apart, <3>1
    <3>6. pc' # "clearSocket" /\ socket_' # kInvalidSocket => table'[socket_'] \in ours'
      BY <1>0, <2>2, <3>1, <3>2, <3>3 DEF ServerOK, AcceptorOK, Fd
    <3>7. \A gd \in {candidate', client', connection'} \ {kInvalidSocket} :
            table'[gd] \notin ours' \cup foreign' \cup {0}
      BY <1>0, <2>2, <3>1, <3>2, <3>3 DEF ServerOK, AcceptorOK, Fd
    <3>8. candidate' # kInvalidSocket => candidate' \notin {client', connection'}
      BY <1>0, <2>2, <3>1, <3>2, <3>3 DEF ServerOK, AcceptorOK, Fd
    <3>9. \A gd \in Descriptors : table'[gd] \notin foreign' \cup {0} => gd \in Owned'
      BY <1>0, <2>2, <3>1, <3>2, <3>3 DEF ServerOK, AcceptorOK, Fd
    <3> QED
      BY <3>6, <3>7, <3>8, <3>9
  <2> QED
    BY <1>3, <2>1, <2>2 DEF CreateSocket
<1>4. CASE ListenFails
  <2>1. \A gd \in Descriptors : table'[gd] = IF gd = candidate THEN 0 ELSE table[gd]
    BY <1>0, <1>4, ReleasedTable DEF ListenFails, ServerOK
  <2>2. /\ UNCHANGED <<ours, foreign, socket_, client, connection>>
        /\ pc = "listen" /\ candidate' = kInvalidSocket /\ pc' \in {"freeaddrinfo", "socket"}
    BY <1>4 DEF ListenFails, NextAddress, server, acceptor
  <2> QED
    BY <1>0, <2>1, <2>2 DEF ServerOK, AcceptorOK, Fd
<1>5. CASE Listen
  <2>1. candidate \in Descriptors /\ socket_ = kInvalidSocket
    BY <1>0, <1>5 DEF Listen, OwnerInv, ServerOK, Fd
  <2>2. /\ UNCHANGED <<table, foreign, client, connection>>
        /\ pc = "listen" /\ candidate' = kInvalidSocket /\ pc' = "setOpen" /\ socket_' = candidate
        /\ ours' = ours \cup {table[candidate]}
    BY <1>5 DEF Listen, acceptor
  <2>3. \A fd \in {client, connection} \ {kInvalidSocket} : table[fd] # table[candidate]
    BY <1>0, <2>1 DEF SocketsInv, AcceptorOK, Fd
  <2> QED
    BY <1>0, <2>1, <2>2, <2>3
<1>6. CASE CallClose
  <2>1. \A gd \in Descriptors : table'[gd] = IF gd = socket_ THEN 0 ELSE table[gd]
    BY <1>0, <1>6, ReleasedTable DEF CallClose, ServerOK
  <2>2. /\ UNCHANGED <<ours, foreign, socket_, candidate, client, connection>>
        /\ pc = "idle" /\ pc' = "clearSocket"
    BY <1>6 DEF CallClose, server
  <2> QED
    BY <1>0, <2>1, <2>2 DEF ServerOK, AcceptorOK, Fd, OwnerInv
<1>7. CASE ClearSocket
  BY <1>0, <1>7 DEF ClearSocket, acceptor, system
<1>8. CASE ClearOpen
  BY <1>1, <1>8 DEF ClearOpen, acceptor, system
<1>9. CASE CallAccept
  <2>1. \A gd \in Descriptors : table'[gd] = IF gd = connection THEN 0 ELSE table[gd]
    BY <1>0, <1>9, ReleasedTable DEF CallAccept, AcceptorOK
  <2>2. /\ UNCHANGED <<ours, foreign, pc, socket_, candidate, client>>
        /\ connection' = kInvalidSocket /\ client = kInvalidSocket
    BY <1>0, <1>9 DEF CallAccept, server, owner, AcceptInv
  <2> QED
    BY <1>0, <2>1, <2>2 DEF ServerOK, AcceptorOK, Fd
<1>10. CASE LoadListener \/ Select \/ WaitEnds \/ WaitTimesOut \/ Recheck \/ AcceptFails
  BY <1>1, <1>10 DEF LoadListener, Select, WaitEnds, WaitTimesOut, Recheck, AcceptFails, server,
                     owner, system
<1>11. CASE SelectCrashes
  BY <1>11 DEF SelectCrashes, Running
<1>12. CASE Accept
  <2>1. PICK fd \in Descriptors : NewSocket(fd) /\ client' = fd
    BY <1>12 DEF Accept, Free
  <2>2. /\ \A gd \in Descriptors : table'[gd] = IF gd = fd THEN sockets + 1 ELSE table[gd]
        /\ table[fd] = 0
    BY <1>0, <2>1, NewSocketTable
  <2>3. UNCHANGED <<ours, foreign, pc, socket_, candidate,
  connection>> /\ client = kInvalidSocket
    BY <1>0, <1>12 DEF Accept, server, owner, AcceptInv
  <2>4. /\ pc # "clearSocket" /\ socket_ # kInvalidSocket => table'[socket_] = table[socket_]
        /\ \A gd \in {candidate, client, connection} \ {kInvalidSocket} :
             gd # fd /\ table'[gd] = table[gd]
        /\ \A gd \in Descriptors \ {fd} : table'[gd] = table[gd]
        /\ table'[fd] \notin ours \cup foreign \cup {0}
    BY <1>apart, <2>2
  <2>6. pc' # "clearSocket" /\ socket_' # kInvalidSocket => table'[socket_'] \in ours'
    BY <1>0, <2>1, <2>2, <2>3, <2>4 DEF ServerOK, AcceptorOK, Fd
  <2>7. \A gd \in {candidate', client', connection'} \ {kInvalidSocket} :
          table'[gd] \notin ours' \cup foreign' \cup {0}
    BY <1>0, <2>1, <2>2, <2>3, <2>4 DEF ServerOK, AcceptorOK, Fd
  <2>8. candidate' # kInvalidSocket => candidate' \notin {client', connection'}
    BY <1>0, <2>1, <2>2, <2>3, <2>4 DEF ServerOK, AcceptorOK, Fd
  <2>9. \A gd \in Descriptors : table'[gd] \notin foreign' \cup {0} => gd \in Owned'
    BY <1>0, <2>1, <2>2, <2>3, <2>4 DEF ServerOK, AcceptorOK, Fd
  <2> QED
    BY <2>6, <2>7, <2>8, <2>9
<1>13. CASE HandOver
  <2>0. /\ UNCHANGED <<ours, foreign, pc, socket_, candidate>>
        /\ client' = kInvalidSocket /\ client # kInvalidSocket /\ connection = kInvalidSocket
    BY <1>0, <1>13 DEF HandOver, server, owner, AcceptInv
  <2>1. CASE connection' = client /\ UNCHANGED table
    BY <1>0, <2>0, <2>1
  <2>2. CASE table' = Released(client) /\ UNCHANGED connection
    <3>1. \A gd \in Descriptors : table'[gd] = IF gd = client THEN 0 ELSE table[gd]
      BY <1>0, <2>2, ReleasedTable DEF AcceptorOK
    <3> QED
      BY <1>0, <2>0, <2>2, <3>1 DEF ServerOK, AcceptorOK, Fd
  <2> QED
    BY <1>13, <2>1, <2>2 DEF HandOver
<1>14. CASE Arrives \/ Aborts \/ Tick
  BY <1>1, <1>14 DEF Arrives, Aborts, Tick, server, owner, acceptor, system
<1>15. CASE OtherOpens
  <2>1. PICK fd \in Descriptors : NewSocket(fd)
    BY <1>15 DEF OtherOpens, Free
  <2>2. /\ \A gd \in Descriptors : table'[gd] = IF gd = fd THEN sockets + 1 ELSE table[gd]
        /\ table[fd] = 0
    BY <1>0, <2>1, NewSocketTable
  <2>3. /\ UNCHANGED <<ours, pc, socket_, candidate, client, connection>>
        /\ foreign' = foreign \cup {sockets + 1}
    BY <1>15 DEF OtherOpens, server, owner, acceptor
  <2>4. \A gd \in Descriptors : table[gd] # sockets + 1
    <3>1. sockets \in Nat /\ \A gd \in Descriptors : table[gd] \in Nat /\ table[gd] <= sockets
      BY <1>0, Bounds DEF SystemOK, SocketsInv
    <3> QED
      BY <3>1
  <2>5. /\ pc # "clearSocket" /\ socket_ # kInvalidSocket => table'[socket_] = table[socket_]
        /\ \A gd \in {candidate, client, connection} \ {kInvalidSocket} :
             gd # fd /\ table'[gd] = table[gd]
        /\ \A gd \in Descriptors \ {fd} : table'[gd] = table[gd]
        /\ table'[fd] = sockets + 1
    BY <1>apart, <2>2
  <2>6. pc' # "clearSocket" /\ socket_' # kInvalidSocket => table'[socket_'] \in ours'
    BY <1>0, <2>2, <2>3, <2>4, <2>5 DEF ServerOK, AcceptorOK, Fd
  <2>7. \A gd \in {candidate', client', connection'} \ {kInvalidSocket} :
          table'[gd] \notin ours' \cup foreign' \cup {0}
    BY <1>0, <2>2, <2>3, <2>4, <2>5 DEF ServerOK, AcceptorOK, Fd
  <2>8. candidate' # kInvalidSocket => candidate' \notin {client', connection'}
    BY <1>0, <2>2, <2>3, <2>4, <2>5 DEF ServerOK, AcceptorOK, Fd
  <2>9. \A gd \in Descriptors : table'[gd] \notin foreign' \cup {0} => gd \in Owned'
    BY <1>0, <2>2, <2>3, <2>4, <2>5 DEF ServerOK, AcceptorOK, Fd
  <2> QED
    BY <2>6, <2>7, <2>8, <2>9
<1>16. CASE OtherCloses
  <2>1. PICK fd \in Descriptors : table[fd] \in foreign /\ table' = Released(fd)
    BY <1>16 DEF OtherCloses
  <2>2. \A gd \in Descriptors : table'[gd] = IF gd = fd THEN 0 ELSE table[gd]
    BY <1>0, <2>1, ReleasedTable DEF Fd
  <2>3. UNCHANGED <<ours, foreign, pc, socket_, candidate, client, connection>>
    BY <1>16 DEF OtherCloses, server, owner, acceptor
  <2>4. /\ pc # "clearSocket" /\ socket_ # kInvalidSocket =>
             socket_ \in Descriptors /\ socket_ # fd /\ table'[socket_] = table[socket_]
        /\ \A gd \in {candidate, client, connection} \ {kInvalidSocket} :
             gd \in Descriptors /\ gd # fd /\ table'[gd] = table[gd]
    BY <1>0, <2>1, <2>2 DEF ServerOK, AcceptorOK, Fd, SocketsInv
  <2>5. pc' # "clearSocket" /\ socket_' # kInvalidSocket => table'[socket_'] \in ours'
    BY <1>0, <2>3, <2>4
  <2>6. /\ \A gd \in {candidate', client', connection'} \ {kInvalidSocket} :
             table'[gd] \notin ours' \cup foreign' \cup {0}
        /\ candidate' # kInvalidSocket => candidate' \notin {client', connection'}
    BY <1>0, <2>3, <2>4
  <2>7. \A gd \in Descriptors : table'[gd] \notin foreign' \cup {0} => gd \in Owned'
    BY <1>0, <2>2, <2>3
  <2> QED
    BY <2>5, <2>6, <2>7
<1> QED
  BY <1>2, <1>3, <1>4, <1>5, <1>6, <1>7, <1>8, <1>9, <1>10, <1>11, <1>12, <1>13, <1>14, <1>15,
     <1>16 DEF Next, OwnerStep, AcceptStep, World

-----------------------------------------------------------------------------
(* What holds of every behaviour *)

\* The invariant holds at every step.
LEMMA Inductive == Spec => []IInv
<1>1. IInv /\ [Next]_vars => IInv'
  <2> SUFFICES ASSUME IInv, [Next]_vars PROVE IInv'
    OBVIOUS
  <2>1. CASE UNCHANGED vars
    BY <2>1 DEF vars, server, owner, acceptor, waiting, interference, system, IInv, TypeOK,
       Running,
                SocketsInv, OwnerInv, AcceptInv, HeldInv, UndisturbedInv, Owned
  <2>2. CASE Running /\ Next
    <3>1. TypeOK'
      BY <2>2, FlagsStep, ServerTypeStep, AcceptorTypeStep, SystemTypeStep, TypeParts
         DEF TypeOK, FlagsOK, ServerOK, AcceptorOK, SystemOK
    <3>2. Running' => SocketsInv' /\ OwnerInv' /\ AcceptInv' /\ HeldInv' /\ UndisturbedInv'
      BY <2>2, SocketsStep, OwnerInvStep, AcceptInvStep, HeldStep, UndisturbedStep
    <3>3. ~Running' => pc' = "crashed" /\ connection' = kInvalidSocket
      <4>1. ~Running' => SelectCrashes
        BY <2>2 DEF Running, Next, OwnerStep, AcceptStep, World, acceptor, CallOpen, Resolve,
          CreateSocket, ListenFails, Listen, SetOpen, FreeAddrInfo, CallClose, ClearSocket,
          ClearOpen, CallAccept, LoadListener, Select, WaitEnds, WaitTimesOut, Recheck, Accept,
          AcceptFails, HandOver, Arrives, Aborts, OtherOpens, OtherCloses, Tick, AcceptReturn,
          AcceptGoesOn
      <4> QED
        BY <2>2, <4>1 DEF SelectCrashes, IInv, AcceptInv
    <3> QED
      BY <3>1, <3>2, <3>3 DEF IInv
  <2> QED
    BY <2>1, <2>2, CrashedStays
<1> QED
  BY <1>1, InitIInv, PTL DEF Spec

\* The type invariant: three threads, any number of sockets.
THEOREM TypeCorrect == Spec => []TypeOK
<1>1. IInv => TypeOK
  BY DEF IInv
<1> QED
  BY <1>1, Inductive, PTL

\* However Open, Close, Accept and the other thread interleave, each descriptor
\* has one owner, and the server closes only what is still its own.
THEOREM NoDescriptorLeak == Spec => []DescriptorsOwned
<1>1. IInv => DescriptorsOwned
  <2> SUFFICES ASSUME IInv, Running
               PROVE  /\ Owned \ {kInvalidSocket} = {fd \in Descriptors : table[fd] \notin foreign \cup {0}}
                      /\ pc # "clearSocket" /\ socket_ # kInvalidSocket => table[socket_] \in ours
    BY DEF DescriptorsOwned
  <2>1. ServerOK /\ AcceptorOK /\ SystemOK /\ HeldInv /\ SocketsInv
    BY TypeParts DEF IInv
  <2>2. \A n \in ours : n \notin foreign \cup {0}
    BY <2>1, Bounds DEF SocketsInv, SystemOK
  <2>3. ASSUME NEW fd \in Owned \ {kInvalidSocket}
        PROVE  fd \in Descriptors /\ table[fd] \notin foreign \cup {0}
    BY <2>1, <2>2 DEF Owned, HeldInv, ServerOK, AcceptorOK, Fd
  <2>4. ASSUME NEW fd \in Descriptors, table[fd] \notin foreign \cup {0}
        PROVE  fd \in Owned \ {kInvalidSocket}
    BY <2>1, <2>4, Bounds DEF HeldInv
  <2> QED
    BY <2>1, <2>3, <2>4 DEF HeldInv
<1> QED
  BY <1>1, Inductive, PTL

\* The connection of an Accept that no Close overlapped comes from a listener of
\* this server.
THEOREM UndisturbedAccept == Spec => []ConnectionIsOurs
<1>1. IInv => ConnectionIsOurs
  BY DEF IInv, ConnectionIsOurs, UndisturbedInv
<1> QED
  BY <1>1, Inductive, PTL
=============================================================================
