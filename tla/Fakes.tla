------------------------------- MODULE Fakes -------------------------------
(***************************************************************************)
(* The channel doubles of fake_transport.hpp: a FakeByteStream or a        *)
(* FakeDatagramTransport, scripted by a test and used by the code under    *)
(* test.  The two have the same members under different names, so one set  *)
(* of variables serves both; `kind' says which it is.  They are not        *)
(* thread-safe: a call is one step.                                        *)
(***************************************************************************)
EXTENDS Transport, SequencesExt

CONSTANTS
  ReadStatuses,   \* what a test scripts for the next ReadSome or Receive
  WriteStatuses,  \* what a test scripts for the next WriteAll or Send
  MaxSize,        \* the largest buffer and the largest scripted chunk
  WriteSizes,     \* sizes of the buffers written
  MaxScripts,     \* chunks or datagrams scripted, at most
  MaxWrites       \* WriteAll or Send calls captured, at most

ASSUME FakesAssumption ==
  /\ ReadStatuses \cup WriteStatuses \subseteq TransportStatus
  /\ {MaxSize, MaxScripts, MaxWrites} \subseteq Nat
  /\ WriteSizes \subseteq 0..MaxSize

VARIABLES
  \* Members of the double.
  kind, open_,
  incoming,     \* readChunks_ or receiveDatagrams_
  captured,     \* writes_ or sentDatagrams_, as the sizes of their buffers
  nextInput,    \* nextReadStatus_ or nextReceiveStatus_
  nextOutput,   \* nextWriteStatus_ or nextSendStatus_
  ret,          \* result of the last completed call
  \* History, since construction or the last Reset.
  scripts,      \* the chunks or datagrams scripted
  got,          \* the bytes ReadSome, or the datagrams Receive handed over
  started       \* how many of got and captured are older than the session

double == <<kind, open_, incoming, captured, nextInput, nextOutput>>
history == <<scripts, got, started>>
vars == <<double, ret, history>>

Init ==
  /\ kind \in {"stream", "datagram"}
  /\ open_ = FALSE
  /\ incoming = <<>> /\ captured = <<>>
  /\ nextInput = "Ok" /\ nextOutput = "Ok"
  /\ ret = NoResult
  /\ scripts = <<>> /\ got = <<>> /\ started = [got |-> 0, captured |-> 0]

-----------------------------------------------------------------------------
(* What both doubles do alike *)

Open ==
  /\ open_' = TRUE
  /\ ret' = Result("Open", IF open_ THEN "AlreadyOpen" ELSE "Ok", 0)
  /\ started' = IF open_ THEN started
                ELSE [got |-> Len(got), captured |-> Len(captured)]
  /\ UNCHANGED <<kind, incoming, captured, nextInput, nextOutput, scripts, got>>

\* What was scripted and captured stays.
Close ==
  /\ open_' = FALSE
  /\ ret' = Result("Close", "Ok", 0)
  /\ UNCHANGED <<kind, incoming, captured, nextInput, nextOutput, history>>

\* Refused(next, invalid) is the status of a call that does not get to the
\* data: not open, a bad argument, or the scripted status.  "Ok": it gets there.
Refused(next, invalid) ==
  IF ~open_ THEN "NotOpen" ELSE IF invalid THEN "InvalidArgument" ELSE next

\* A call that is refused consumes the scripted status if that is what it returns.
RefusedInput(op, invalid) ==
  /\ Refused(nextInput, invalid) # "Ok"
  /\ nextInput' = IF open_ /\ ~invalid THEN "Ok" ELSE nextInput
  /\ ret' = Result(op, Refused(nextInput, invalid), 0)
  /\ UNCHANGED <<kind, open_, incoming, captured, nextOutput, history>>

RefusedOutput(op, size, invalid) ==
  /\ Refused(nextOutput, invalid) # "Ok"
  /\ nextOutput' = IF open_ /\ ~invalid THEN "Ok" ELSE nextOutput
  /\ ret' = Result(op, Refused(nextOutput, invalid), size)
  /\ UNCHANGED <<kind, open_, incoming, captured, nextInput, history>>

\* The buffer is appended to what was captured.
Capture(op, size) ==
  /\ Len(captured) < MaxWrites
  /\ captured' = Append(captured, size)
  /\ ret' = Result(op, "Ok", size)
  /\ UNCHANGED <<kind, open_, incoming, nextInput, nextOutput, history>>

\* Nothing scripted is left.
Empty(op) ==
  /\ incoming = <<>>
  /\ ret' = Result(op, "WouldBlock", 0)
  /\ UNCHANGED <<double, history>>

-----------------------------------------------------------------------------
(* FakeByteStream *)

\* Faulty variant: a read that fills the buffer drops the rest of its chunk.
RestDropped(count) == Tail(incoming)

\* readChunks_ after count bytes were copied: the chunk is popped when it is
\* used up, and loses its first bytes otherwise.
Rest(count) ==
  LET chunk == Head(incoming)
  IN IF count = Len(chunk) THEN Tail(incoming)
     ELSE <<SubSeq(chunk, count + 1, Len(chunk))>> \o Tail(incoming)

\* ReadSome copies what fits of the first chunk.
ReadChunk(outputSize) ==
  /\ incoming # <<>>
  /\ LET chunk == Head(incoming)
         count == IF outputSize < Len(chunk) THEN outputSize ELSE Len(chunk)
     IN /\ got' = got \o SubSeq(chunk, 1, count)
        /\ incoming' = Rest(count)
        /\ ret' = Result("ReadSome", "Ok", count)
  /\ UNCHANGED <<kind, open_, captured, nextInput, nextOutput, scripts, started>>

ReadSome(outputSize, isNull) ==
  LET invalid == isNull /\ outputSize # 0
  IN \/ RefusedInput("ReadSome", invalid)
     \/ /\ Refused(nextInput, invalid) = "Ok"
        /\ Empty("ReadSome") \/ ReadChunk(outputSize)

\* Faulty variant: a scripted failure is returned after the bytes were captured.
WriteAllThenFail(inputSize, isNull) ==
  LET invalid == isNull /\ inputSize # 0
  IN \/ (~open_ \/ invalid) /\ RefusedOutput("WriteAll", inputSize, invalid)
     \/ /\ Refused("Ok", invalid) = "Ok"
        /\ Len(captured) < MaxWrites
        /\ captured' = Append(captured, inputSize)
        /\ nextOutput' = "Ok"
        /\ ret' = Result("WriteAll", nextOutput, inputSize)
        /\ UNCHANGED <<kind, open_, incoming, nextInput, history>>

WriteAll(inputSize, isNull) ==
  LET invalid == isNull /\ inputSize # 0
  IN \/ RefusedOutput("WriteAll", inputSize, invalid)
     \/ Refused(nextOutput, invalid) = "Ok" /\ Capture("WriteAll", inputSize)

-----------------------------------------------------------------------------
(* FakeDatagramTransport *)

Send(inputSize, isNull) ==
  LET invalid == isNull /\ inputSize # 0
  IN \/ RefusedOutput("Send", inputSize, invalid)
     \/ Refused(nextOutput, invalid) = "Ok" /\ Capture("Send", inputSize)

\* Faulty variant: the datagram that does not fit is popped.
ReceiveDatagramLost(outputSize) ==
  /\ incoming # <<>>
  /\ incoming' = Tail(incoming)
  /\ IF outputSize < Len(Head(incoming))
     THEN ret' = Result("Receive", "OutputBufferTooSmall", 0) /\ UNCHANGED got
     ELSE /\ got' = Append(got, Head(incoming))
          /\ ret' = Result("Receive", "Ok", Len(Head(incoming)))
  /\ UNCHANGED <<kind, open_, captured, nextInput, nextOutput, scripts, started>>

\* The first datagram is handed over whole, or stays where it is.
ReceiveDatagram(outputSize) ==
  /\ incoming # <<>>
  /\ IF outputSize < Len(Head(incoming))
     THEN /\ ret' = Result("Receive", "OutputBufferTooSmall", 0)
          /\ UNCHANGED <<incoming, got>>
     ELSE /\ got' = Append(got, Head(incoming))
          /\ incoming' = Tail(incoming)
          /\ ret' = Result("Receive", "Ok", Len(Head(incoming)))
  /\ UNCHANGED <<kind, open_, captured, nextInput, nextOutput, scripts, started>>

Receive(outputSize, isNull) ==
  LET invalid == isNull /\ outputSize # 0
  IN \/ RefusedInput("Receive", invalid)
     \/ /\ Refused(nextInput, invalid) = "Ok"
        /\ Empty("Receive") \/ ReceiveDatagram(outputSize)

-----------------------------------------------------------------------------
(* The test *)

\* ScriptRead or ScriptReceive.
Script(n) ==
  /\ Len(scripts) < MaxScripts
  /\ LET chunk == Bytes(Len(scripts) + 1, 0, n)
     IN incoming' = Append(incoming, chunk) /\ scripts' = Append(scripts, chunk)
  /\ UNCHANGED <<kind, open_, captured, nextInput, nextOutput, ret, got, started>>

\* ScriptNextReadStatus or ScriptNextReceiveStatus.
ScriptNextInput ==
  /\ nextInput' \in ReadStatuses
  /\ UNCHANGED <<kind, open_, incoming, captured, nextOutput, ret, history>>

\* ScriptNextWriteStatus or ScriptNextSendStatus.
ScriptNextOutput ==
  /\ nextOutput' \in WriteStatuses
  /\ UNCHANGED <<kind, open_, incoming, captured, nextInput, ret, history>>

\* Reset, which returns nothing and is a Close to whoever uses the double.
Reset ==
  /\ open_' = FALSE
  /\ incoming' = <<>> /\ captured' = <<>>
  /\ nextInput' = "Ok" /\ nextOutput' = "Ok"
  /\ scripts' = <<>> /\ got' = <<>> /\ started' = [got |-> 0, captured |-> 0]
  /\ ret' = Result("Close", "Ok", 0)
  /\ UNCHANGED kind

-----------------------------------------------------------------------------
Next ==
  \/ Open \/ Close \/ Reset
  \/ \E n \in 0..MaxSize, isNull \in BOOLEAN :
       \/ kind = "stream" /\ ReadSome(n, isNull)
       \/ kind = "datagram" /\ Receive(n, isNull)
  \/ \E n \in WriteSizes, isNull \in BOOLEAN :
       \/ kind = "stream" /\ WriteAll(n, isNull)
       \/ kind = "datagram" /\ Send(n, isNull)
  \/ \E n \in 0..MaxSize : Script(n)
  \/ ScriptNextInput \/ ScriptNextOutput

Spec == Init /\ [][Next]_vars

-----------------------------------------------------------------------------
(* Properties *)

\* A test's script is played once and in order, whatever buffer sizes, scripted
\* failures and reopenings the code under test produces: what was handed over,
\* followed by what is still queued, is what was scripted; a datagram keeps its
\* boundaries.
ScriptPlayed ==
  IF kind = "stream" THEN got \o FlattenSeq(incoming) = FlattenSeq(scripts)
  ELSE got \o incoming = scripts

\* What the open double holds for this session.
StreamOpen == kind = "stream" /\ open_
DatagramOpen == kind = "datagram" /\ open_
SessionGot == Len(got) - started.got
SessionCaptured == SubSeq(captured, started.captured + 1, Len(captured))

\* The buffers of writes of these sizes, and what is known of datagrams by size.
Buffers(sizes) == [i \in 1..Len(sizes) |-> Bytes(i, 0, sizes[i])]
Sizes(chunks) == [i \in 1..Len(chunks) |-> [size |-> Len(chunks[i])]]

\* The double as the user of an IByteStream sees it: nothing when it is closed.
Delivered == IF StreamOpen THEN SessionGot ELSE 0
PeerSent == IF StreamOpen THEN SessionGot + Len(FlattenSeq(incoming)) ELSE 0
Sent == IF StreamOpen THEN FlattenSeq(Buffers(SessionCaptured)) ELSE <<>>
StreamRet == IF kind = "stream" THEN ret ELSE NoResult

\* The double as the user of an IDatagramTransport sees it.
Inbox == IF DatagramOpen THEN Sizes(incoming) ELSE <<>>
Outbox == IF DatagramOpen THEN SessionCaptured ELSE <<>>
DatagramRet == IF kind = "datagram" THEN ret ELSE NoResult

Stream == INSTANCE ByteStream WITH
  Writes <- 1..MaxWrites,
  open <- StreamOpen,
  delivered <- Delivered,
  peerSent <- PeerSent,
  eof <- FALSE,
  broken <- FALSE,
  sent <- Sent,
  ret <- StreamRet

\* Code tested on a FakeByteStream has met an IByteStream, with nothing that
\* the real streams may not do: what is scripted arrives from the peer, what is
\* captured was sent, and a scripted failure has no other effect.
FakeImplementsByteStream == Stream!Spec

Endpoint == INSTANCE Datagram WITH
  Datagrams <- [size : 0..MaxSize],
  open <- DatagramOpen,
  inbox <- Inbox,
  outbox <- Outbox,
  ret <- DatagramRet

\* The same of a FakeDatagramTransport and IDatagramTransport.
FakeImplementsDatagram == Endpoint!Spec
=============================================================================
