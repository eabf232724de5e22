------------------------------ MODULE Streams ------------------------------
(***************************************************************************)
(* The library's streams over an operating system's descriptor side by     *)
(* side: a client's TcpStreamTransport, an AcceptedTcpStream and a         *)
(* SerialTransport.  An object is of one kind for life.  What is checked   *)
(* here is what a user of an IByteStream may rely on without knowing the   *)
(* kind.                                                                   *)
(***************************************************************************)
EXTENDS AcceptedTcpStream, Serial

VARIABLE kind

streamVars == <<vars, kind>>

StreamsInit ==
  \/ kind = "client" /\ Init
  \/ kind = "accepted" /\ AcceptedInit
  \/ kind = "serial" /\ SerialInit

StreamsNext ==
  /\ \/ kind = "client" /\ Next
     \/ kind = "accepted" /\ AcceptedNext
     \/ kind = "serial" /\ SerialNext
  /\ UNCHANGED kind

\* A step of the thread that is in a call.
CodeStep ==
  /\ \/ kind = "client" /\ (OpenStep \/ ReadStep \/ WriteStep)
     \/ kind = "accepted" /\ (ReadStep \/ WriteStep)
     \/ kind = "serial" /\ (WaitForHandle \/ NativeRead \/ NativeWriteAll)
  /\ UNCHANGED kind

\* send or write accepts data, or reports that it never will.
Progress ==
  /\ kind = "serial" => ~fin
  /\ (\E n \in 1..MaxSize : SendChunk(n)) \/ SendBroken
  /\ UNCHANGED kind

\* The code runs on, and a writable socket does not refuse data forever.
StreamsSpec ==
  /\ StreamsInit /\ [][StreamsNext]_streamVars
  /\ WF_streamVars(CodeStep) /\ SF_streamVars(Progress)

-----------------------------------------------------------------------------
\* Once an accepted stream is closed, by its caller or by the peer's close, it
\* stays closed and holds no descriptor: its Open has nothing to connect to.
AcceptedIsOnce == [][kind = "accepted" /\ ~open_ => ~open_' /\ live' = {}]_streamVars
=============================================================================
