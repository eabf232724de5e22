------------------------- MODULE AcceptedTcpStream -------------------------
(***************************************************************************)
(* AcceptedTcpStream (tcp_server_transport.cpp): the stream that Accept    *)
(* hands out.  It is built around a connected descriptor, repeats the      *)
(* Close, ReadSome and WriteAll of TcpStreamTransport line by line, and    *)
(* differs in Open, which never connects.                                  *)
(***************************************************************************)
EXTENDS TcpStream

\* Accept has just constructed the stream.
AcceptedInit ==
  /\ options_ = [valid |-> TRUE, runtime |-> TRUE]
  /\ open_ = TRUE
  /\ socket_ \in Descriptors
  /\ live = {socket_}
  /\ pc = "idle"
  /\ addresses = 0 /\ resolved = FALSE
  /\ candidate = kInvalidSocket /\ finalStatus = "OpenFailed"
  /\ size = 0
  /\ ret = NoResult
  /\ conn = "established"
  /\ fin = FALSE /\ soError = FALSE /\ dropped = FALSE
  /\ peerSent = 0 /\ avail = 0 /\ delivered = 0
  /\ wire = <<>> /\ written = 0 /\ wid = 0 /\ base = <<>>

\* Faulty variant: Open makes a closed stream usable again.
AcceptedOpenAgain ==
  /\ pc = "idle"
  /\ IF open_ THEN Return("Open", "AlreadyOpen", 0) ELSE Return("Open", "Ok", 0)
  /\ open_' = TRUE
  /\ UNCHANGED <<options_, socket_, openCall, size, writeCall, live, peer, delivered, wire>>

\* Open: there is no address to connect to.
AcceptedOpen ==
  /\ pc = "idle"
  /\ Return("Open", IF open_ THEN "AlreadyOpen" ELSE "OpenFailed", 0)
  /\ UNCHANGED <<object, openCall, size, writeCall, live, peer, delivered, wire>>

AcceptedClose == CallClose \/ Destroy

AcceptedReadSome ==
  (\E n \in 0..MaxSize, isNull \in BOOLEAN : CallReadSome(n, isNull)) \/ ReadStep

AcceptedWriteAll ==
  (\E n \in 0..MaxSize, isNull \in BOOLEAN : CallWriteAll(n, isNull)) \/ WriteStep

AcceptedNext ==
  AcceptedOpen \/ AcceptedClose \/ AcceptedReadSome \/ AcceptedWriteAll
  \/ PeerSend \/ PeerClose \/ PeerReset

AcceptedSpec == AcceptedInit /\ [][AcceptedNext]_vars

-----------------------------------------------------------------------------
(* Properties.  DescriptorsOwned and ImplementsByteStream are those of     *)
(* TcpStream.                                                              *)

\* Once an accepted stream is closed, by its caller or by the peer's close, it
\* stays closed and holds no descriptor: no call brings the connection back.
NeverReopens == [][~open_ => ~open_' /\ live' = {}]_vars
=============================================================================
