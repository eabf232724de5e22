--------------------------- MODULE StreamsProofs ---------------------------
(***************************************************************************)
(* The invariants of the streams over a descriptor, for every number of    *)
(* descriptors, addresses, bytes and writes, and their refinement of       *)
(* ByteStream.  One inductive invariant, IInv, carries the invariants of a *)
(* TcpStreamTransport; its parts say what is known at each step of a call. *)
(* What holds of a client stream then holds of every stream: an accepted   *)
(* one starts in a state that satisfies IInv and its only new operation,   *)
(* Open, keeps it; a serial line has its own Open and its own outcomes of  *)
(* a read.  All the other steps are TcpStream's.                           *)
(***************************************************************************)
EXTENDS Streams, SequenceTheorems, TLAPS

-----------------------------------------------------------------------------
(* Runs of bytes *)

\* A run of bytes of a caller's buffer is a sequence of bytes.
LEMMA BytesType ==
  ASSUME NEW w \in Nat, NEW from \in Nat, NEW n \in Nat
  PROVE  /\ Bytes(w, from, n) \in Seq(Byte)
         /\ Len(Bytes(w, from, n)) = n
         /\ \A i \in 1..n : Bytes(w, from, n)[i] = <<w, from + i>>
<1>1. \A i \in 1..n : <<w, from + i>> \in Byte
  BY DEF Byte
<1>2. Bytes(w, from, n) \in [1..n -> Byte]
  BY <1>1 DEF Bytes
<1>3. Bytes(w, from, n) \in Seq(Byte)
  BY <1>2
<1> QED
  BY <1>2, <1>3 DEF Bytes

\* Two consecutive runs of a buffer are one run: what lets WriteAll continue at
\* input + written after a partial send.
LEMMA BytesJoin ==
  ASSUME NEW s \in Seq(Byte), NEW w \in Nat, NEW a \in Nat, NEW n \in Nat
  PROVE  (s \o Bytes(w, 0, a)) \o Bytes(w, a, n) = s \o Bytes(w, 0, a + n)
<1>0. PICK zero \in Nat, m \in Nat : zero = 0 /\ m = a + n
  OBVIOUS
<1>a. ASSUME NEW f \in Nat, NEW k \in Nat
      PROVE  /\ Bytes(w, f, k) \in Seq(Byte) /\ Len(Bytes(w, f, k)) = k
             /\ \A i \in 1..k : Bytes(w, f, k)[i] = <<w, f + i>>
  BY BytesType, ZenonT(30)
<1>1. PICK x \in Seq(Byte) :
        /\ x = Bytes(w, 0, a)
        /\ Len(x) = a /\ \A i \in 1..a : x[i] = <<w, 0 + i>>
  <2>1. /\ Bytes(w, zero, a) \in Seq(Byte) /\ Len(Bytes(w, zero, a)) = a
        /\ \A i \in 1..a : Bytes(w, zero, a)[i] = <<w, zero + i>>
    BY <1>a, Zenon
  <2> QED
    BY <1>0, <2>1, Zenon
<1>2. PICK y \in Seq(Byte) :
        /\ y = Bytes(w, a, n)
        /\ Len(y) = n /\ \A i \in 1..n : y[i] = <<w, a + i>>
  <2>1. /\ Bytes(w, a, n) \in Seq(Byte) /\ Len(Bytes(w, a, n)) = n
        /\ \A i \in 1..n : Bytes(w, a, n)[i] = <<w, a + i>>
    BY <1>a, Zenon
  <2> QED
    BY <2>1, Zenon
<1>3. PICK z \in Seq(Byte) :
        /\ z = Bytes(w, 0, a + n)
        /\ Len(z) = a + n /\ \A i \in 1..(a + n) : z[i] = <<w, 0 + i>>
  <2>1. /\ Bytes(w, zero, m) \in Seq(Byte) /\ Len(Bytes(w, zero, m)) = m
        /\ \A i \in 1..m : Bytes(w, zero, m)[i] = <<w, zero + i>>
    BY <1>a, Zenon
  <2> QED
    BY <1>0, <2>1, Zenon
<1>4. /\ x \o y \in Seq(Byte)
      /\ Len(x \o y) = Len(x) + Len(y)
      /\ \A i \in 1..(Len(x) + Len(y)) :
           (x \o y)[i] = IF i <= Len(x) THEN x[i] ELSE y[i - Len(x)]
  BY ConcatProperties, Zenon
<1>5. ASSUME NEW i \in 1..(a + n)
      PROVE  (x \o y)[i] = z[i]
  <2>1. z[i] = <<w, i>>
    BY <1>3
  <2>2. CASE i <= a
    <3>1. i \in 1..a /\ (x \o y)[i] = x[i]
      BY <2>2, <1>1, <1>2, <1>4
    <3>2. x[i] = <<w, 0 + i>> /\ 0 + i = i
      BY <3>1, <1>1
    <3> QED
      BY <3>1, <3>2, <2>1
  <2>3. CASE i > a
    <3>1. i - a \in 1..n /\ (x \o y)[i] = y[i - a]
      <4>1. i - a \in 1..n /\ ~(i <= a) /\ i \in 1..(Len(x) + Len(y)) /\ Len(x) = a
        BY <2>3, <1>1, <1>2
      <4> QED
        BY <4>1, <1>4
    <3>2. y[i - a] = <<w, a + (i - a)>> /\ a + (i - a) = i
      <4>1. y[i - a] = <<w, a + (i - a)>>
        BY <3>1, <1>2, Zenon
      <4>2. a + (i - a) = i
        OBVIOUS
      <4> QED
        BY <4>1, <4>2
    <3> QED
      BY <3>1, <3>2, <2>1
  <2>4. i <= a \/ i > a
    OBVIOUS
  <2> QED
    BY <2>2, <2>3, <2>4, Zenon
<1>6. x \o y = z
  <2>1. Len(x \o y) = Len(z) /\ Len(x \o y) = a + n
    BY <1>1, <1>2, <1>3, <1>4
  <2> QED
    BY <2>1, <1>4, <1>5, SeqEqual
<1>7. (s \o x) \o y = s \o (x \o y)
  BY ConcatAssociative, SMTT(60)
<1> QED
  BY <1>1, <1>2, <1>3, <1>6, <1>7

\* The empty run adds nothing.
LEMMA BytesNone ==
  ASSUME NEW s \in Seq(Byte), NEW w \in Nat
  PROVE  s \o Bytes(w, 0, 0) = s
<1>1. Bytes(w, 0, 0) \in Seq(Byte) /\ Len(Bytes(w, 0, 0)) = 0
  BY BytesType
<1>2. Bytes(w, 0, 0) = <<>>
  BY <1>1, EmptySeq
<1> QED
  BY <1>2, ConcatEmptySeq

-----------------------------------------------------------------------------
(* Client streams *)

\* What holds at the steps of Open: an address is left to try, the stream is
\* not open, the status of an earlier address is not Ok, and a connection that
\* failed has an error pending for CheckConnected to find.
OpenInv ==
  /\ finalStatus \in {"Ok", "OpenFailed", "Timeout", "WriteFailed"}
  /\ pc \in {"socket"} \cup CandidateSteps => addresses >= 1
  /\ pc \in OpenSteps \ {"freeaddrinfo"} => ~open_
  /\ pc \in {"socket", "setNonBlocking", "connect", "connectWait"} => finalStatus # "Ok"
  /\ pc \in {"connectWait", "checkConnected"} =>
       conn # "none" /\ (conn \in {"refused", "reset"} => soError)
  /\ pc = "checkConnected" => conn # "connecting"

\* Bytes that arrived are queued, delivered or discarded by an abort.
ReadInv ==
  /\ delivered + avail <= peerSent
  /\ delivered + avail = peerSent \/ dropped

\* The socket calls of ReadSome and WriteAll are made on an open stream.
UseInv == pc \in ReadSteps \cup WriteSteps => open_

IInv ==
  /\ TypeOK
  /\ DescriptorsOwned
  /\ OpenInv
  /\ OpenOutcome
  /\ ReadInv
  /\ UseInv
  /\ ClosedMeansDrained
  /\ WriteExact

-----------------------------------------------------------------------------
(* The invariant holds initially and is preserved by every action *)

\* A partial send at input + written extends what was sent of the buffer.
LEMMA ChunkExtends ==
  ASSUME wid \in Nat, written \in Nat, base \in Seq(Byte), NEW n \in Nat,
         wire = base \o Bytes(wid, 0, written), wire' = wire \o Chunk(n)
  PROVE  wire' \in Seq(Byte) /\ wire' = base \o Bytes(wid, 0, written + n)
<1>1. (base \o Bytes(wid, 0, written)) \o Bytes(wid, written, n)
        = base \o Bytes(wid, 0, written + n)
  BY BytesJoin
<1>2. wire' = base \o Bytes(wid, 0, written + n)
  BY <1>1 DEF Chunk
<1>3. Bytes(wid, 0, written + n) \in Seq(Byte)
  BY BytesType
<1> QED
  BY <1>2, <1>3, ConcatProperties

\* Initially.
LEMMA InitIInv == Init => IInv
<1> SUFFICES ASSUME Init PROVE IInv
  OBVIOUS
<1> USE TcpStreamAssumption
<1>1. FlagsOK
  BY DEF Init, FlagsOK
<1>a. ValuesOK
  BY EmptySeq DEF Init, ValuesOK, Steps, TransportStatus, ConnStates, Ops, NoResult, Result
<1>2. DescriptorsOwned
  BY DEF Init, DescriptorsOwned, CandidateSteps, OpenSteps
<1>3. OpenInv /\ OpenOutcome /\ ReadInv /\ UseInv
  BY DEF Init, OpenInv, OpenOutcome, ReadInv, UseInv, OpenSteps, CandidateSteps,
         ReadSteps, WriteSteps, NoResult, Result
<1>4. ClosedMeansDrained /\ WriteExact
  BY DEF Init, ClosedMeansDrained, WriteExact, WriteSteps, NoResult, Result
<1> QED
  BY <1>1, <1>a, <1>2, <1>3, <1>4 DEF IInv, TypeOK

\* The steps of Open keep the invariant.
LEMMA OpenStepIInv == IInv /\ OpenStep => IInv'
<1> SUFFICES ASSUME IInv, OpenStep PROVE IInv'
  OBVIOUS
<1> USE TcpStreamAssumption 
    DEF IInv, TypeOK, Steps, OpenSteps, CandidateSteps, ReadSteps, WriteSteps,
        ConnStates, Ops, TransportStatus, object, openCall, writeCall, peer,
        Return, Result
<1>1. CASE Resolve
  <2>1. FlagsOK'
    BY <1>1 DEF Resolve, FlagsOK
  <2>2. ValuesOK'
    BY <1>1 DEF Resolve, ValuesOK
  <2>3. DescriptorsOwned' /\ OpenInv' /\ UseInv' /\ OpenOutcome'
    BY <1>1 DEF Resolve, FlagsOK, ValuesOK,
       DescriptorsOwned, OpenInv, UseInv, OpenOutcome
  <2>4. ReadInv' /\ ClosedMeansDrained'
    BY <1>1 DEF Resolve, ValuesOK, ReadInv, ClosedMeansDrained
  <2>5. WriteExact'
    <3>1. pc' \notin WriteSteps \cup {"killed"} /\ (pc' = "idle" => ret'.op # "WriteAll")
      BY <1>1 DEF Resolve
    <3> QED
      BY <3>1 DEF WriteExact
  <2> QED
    BY <2>1, <2>2, <2>3, <2>4, <2>5
<1>2. CASE SocketFails
  <2>1. FlagsOK'
    BY <1>2 DEF SocketFails, NextAddress, FlagsOK
  <2>2. ValuesOK'
    BY <1>2 DEF SocketFails, NextAddress, ValuesOK, OpenInv
  <2>3. DescriptorsOwned' /\ OpenInv' /\ UseInv' /\ OpenOutcome'
    BY <1>2 DEF SocketFails, NextAddress, FlagsOK, ValuesOK,
       DescriptorsOwned, OpenInv, UseInv, OpenOutcome
  <2>4. ReadInv' /\ ClosedMeansDrained'
    BY <1>2 DEF SocketFails, NextAddress, ValuesOK, ReadInv, ClosedMeansDrained
  <2>5. WriteExact'
    BY <1>2 DEF SocketFails, NextAddress, ValuesOK, WriteExact
  <2> QED
    BY <2>1, <2>2, <2>3, <2>4, <2>5
<1>3. CASE CreateSocket
  <2>1. FlagsOK'
    BY <1>3 DEF CreateSocket, FlagsOK
  <2>2. ValuesOK'
    BY <1>3, EmptySeq DEF CreateSocket, ValuesOK
  <2>3. DescriptorsOwned' /\ OpenInv' /\ UseInv' /\ OpenOutcome'
    BY <1>3 DEF CreateSocket, FlagsOK, ValuesOK,
       DescriptorsOwned, OpenInv, UseInv, OpenOutcome
  <2>4. ReadInv' /\ ClosedMeansDrained'
    BY <1>3 DEF CreateSocket, ValuesOK, ReadInv, ClosedMeansDrained
  <2>5. WriteExact'
    BY <1>3 DEF CreateSocket, ValuesOK, WriteExact
  <2> QED
    BY <2>1, <2>2, <2>3, <2>4, <2>5
<1>4. CASE SetNonBlocking
  <2>1. FlagsOK'
    BY <1>4 DEF SetNonBlocking, NextAddress, GiveUpCandidate, FlagsOK
  <2>2. ValuesOK'
    BY <1>4 DEF SetNonBlocking, NextAddress, GiveUpCandidate, ValuesOK, OpenInv
  <2>3. DescriptorsOwned' /\ OpenInv' /\ UseInv' /\ OpenOutcome'
    BY <1>4 DEF SetNonBlocking, NextAddress, GiveUpCandidate, FlagsOK, ValuesOK,
       DescriptorsOwned, OpenInv, UseInv, OpenOutcome
  <2>4. ReadInv' /\ ClosedMeansDrained'
    BY <1>4 DEF SetNonBlocking, NextAddress, GiveUpCandidate, ValuesOK, ReadInv,
       ClosedMeansDrained
  <2>5. WriteExact'
    BY <1>4 DEF SetNonBlocking, NextAddress, GiveUpCandidate, ValuesOK, WriteExact
  <2> QED
    BY <2>1, <2>2, <2>3, <2>4, <2>5
<1>5. CASE Connect
  <2>1. FlagsOK'
    BY <1>5 DEF Connect, NextAddress, GiveUpCandidate, AdoptCandidate, FlagsOK
  <2>2. ValuesOK'
    BY <1>5 DEF Connect, NextAddress, GiveUpCandidate, AdoptCandidate, ValuesOK, OpenInv
  <2>3. DescriptorsOwned' /\ OpenInv' /\ UseInv' /\ OpenOutcome'
    BY <1>5 DEF Connect, NextAddress, GiveUpCandidate, AdoptCandidate, FlagsOK, ValuesOK,
       DescriptorsOwned, OpenInv, UseInv, OpenOutcome
  <2>4. ReadInv' /\ ClosedMeansDrained'
    BY <1>5 DEF Connect, NextAddress, GiveUpCandidate, AdoptCandidate, ValuesOK, ReadInv,
       ClosedMeansDrained
  <2>5. WriteExact'
    BY <1>5 DEF Connect, NextAddress, GiveUpCandidate, AdoptCandidate, ValuesOK, WriteExact
  <2> QED
    BY <2>1, <2>2, <2>3, <2>4, <2>5
<1>6. CASE ConnectWait
  <2>1. FlagsOK'
    BY <1>6 DEF ConnectWait, NextAddress, GiveUpCandidate, FlagsOK
  <2>2. ValuesOK'
    BY <1>6 DEF ConnectWait, NextAddress, GiveUpCandidate, ValuesOK, OpenInv
  <2>3. DescriptorsOwned' /\ OpenInv' /\ UseInv' /\ OpenOutcome'
    BY <1>6 DEF ConnectWait, NextAddress, GiveUpCandidate, FlagsOK, ValuesOK,
       DescriptorsOwned, OpenInv, UseInv, OpenOutcome
  <2>4. ReadInv' /\ ClosedMeansDrained'
    BY <1>6 DEF ConnectWait, NextAddress, GiveUpCandidate, ValuesOK, ReadInv, ClosedMeansDrained
  <2>5. WriteExact'
    BY <1>6 DEF ConnectWait, NextAddress, GiveUpCandidate, ValuesOK, WriteExact
  <2> QED
    BY <2>1, <2>2, <2>3, <2>4, <2>5
<1>7. CASE CheckConnected
  <2>1. FlagsOK'
    BY <1>7 DEF CheckConnected, NextAddress, GiveUpCandidate, AdoptCandidate, NoSocketError,
       FlagsOK
  <2>2. ValuesOK'
    BY <1>7 DEF CheckConnected, NextAddress, GiveUpCandidate, AdoptCandidate, NoSocketError,
       ValuesOK, OpenInv
  <2>3. DescriptorsOwned' /\ OpenInv' /\ UseInv' /\ OpenOutcome'
    <3>1. CASE NoSocketError /\ AdoptCandidate
      <4>1. conn = "established" /\ conn' = conn
        BY <1>7, <3>1 DEF CheckConnected, NoSocketError, ValuesOK, OpenInv
      <4> QED
        BY <1>7, <3>1, <4>1 DEF CheckConnected, AdoptCandidate, ValuesOK, FlagsOK,
           DescriptorsOwned, OpenInv, UseInv, OpenOutcome
    <3>2. CASE finalStatus' = "OpenFailed" /\ GiveUpCandidate
      BY <1>7, <3>2 DEF CheckConnected, GiveUpCandidate, NextAddress, ValuesOK, FlagsOK,
         DescriptorsOwned, OpenInv, UseInv, OpenOutcome
    <3> QED
      BY <1>7, <3>1, <3>2 DEF CheckConnected
  <2>4. ReadInv' /\ ClosedMeansDrained'
    BY <1>7 DEF CheckConnected, NextAddress, GiveUpCandidate, AdoptCandidate, NoSocketError,
       ValuesOK, ReadInv, ClosedMeansDrained
  <2>5. WriteExact'
    BY <1>7 DEF CheckConnected, NextAddress, GiveUpCandidate, AdoptCandidate, NoSocketError,
       ValuesOK, WriteExact
  <2> QED
    BY <2>1, <2>2, <2>3, <2>4, <2>5
<1>8. CASE FreeAddrInfo
  <2>1. FlagsOK'
    BY <1>8 DEF FreeAddrInfo, FlagsOK
  <2>2. ValuesOK'
    BY <1>8 DEF FreeAddrInfo, ValuesOK
  <2>3. DescriptorsOwned' /\ OpenInv' /\ UseInv' /\ OpenOutcome'
    BY <1>8 DEF FreeAddrInfo, FlagsOK, ValuesOK,
       DescriptorsOwned, OpenInv, UseInv, OpenOutcome
  <2>4. ReadInv' /\ ClosedMeansDrained'
    BY <1>8 DEF FreeAddrInfo, ValuesOK, ReadInv, ClosedMeansDrained
  <2>5. WriteExact'
    BY <1>8 DEF FreeAddrInfo, ValuesOK, WriteExact
  <2> QED
    BY <2>1, <2>2, <2>3, <2>4, <2>5
<1> QED
  BY <1>1, <1>2, <1>3, <1>4, <1>5, <1>6, <1>7, <1>8 DEF OpenStep

\* A new call keeps the invariant.
LEMMA CallerIInv == IInv /\ Caller => IInv'
<1> SUFFICES ASSUME IInv, Caller PROVE IInv'
  OBVIOUS
<1> USE TcpStreamAssumption 
    DEF IInv, TypeOK, Steps, OpenSteps, CandidateSteps, ReadSteps, WriteSteps,
        ConnStates, Ops, TransportStatus, object, openCall, writeCall, peer,
        Return, Result
<1>1. CASE CallOpen
  <2>1. FlagsOK'
    BY <1>1 DEF CallOpen, FlagsOK
  <2>2. ValuesOK'
    BY <1>1 DEF CallOpen, ValuesOK
  <2>3. DescriptorsOwned' /\ OpenInv' /\ UseInv' /\ OpenOutcome'
    BY <1>1 DEF CallOpen, FlagsOK, ValuesOK,
       DescriptorsOwned, OpenInv, UseInv, OpenOutcome
  <2>4. ReadInv' /\ ClosedMeansDrained'
    BY <1>1 DEF CallOpen, ValuesOK, ReadInv, ClosedMeansDrained
  <2>5. WriteExact'
    BY <1>1 DEF CallOpen, ValuesOK, WriteExact
  <2> QED
    BY <2>1, <2>2, <2>3, <2>4, <2>5
<1>2. CASE CallClose
  <2>1. FlagsOK'
    BY <1>2 DEF CallClose, CloseSocket, FlagsOK
  <2>2. ValuesOK'
    BY <1>2 DEF CallClose, CloseSocket, ValuesOK
  <2>3. DescriptorsOwned' /\ OpenInv' /\ UseInv' /\ OpenOutcome'
    BY <1>2 DEF CallClose, CloseSocket, FlagsOK, ValuesOK,
       DescriptorsOwned, OpenInv, UseInv, OpenOutcome
  <2>4. ReadInv' /\ ClosedMeansDrained'
    BY <1>2 DEF CallClose, CloseSocket, ValuesOK, ReadInv, ClosedMeansDrained
  <2>5. WriteExact'
    BY <1>2 DEF CallClose, CloseSocket, ValuesOK, WriteExact
  <2> QED
    BY <2>1, <2>2, <2>3, <2>4, <2>5
<1>3. CASE Destroy
  <2>1. FlagsOK'
    BY <1>3 DEF Destroy, CloseSocket, FlagsOK
  <2>2. ValuesOK'
    BY <1>3 DEF Destroy, CloseSocket, ValuesOK
  <2>3. DescriptorsOwned' /\ OpenInv' /\ UseInv' /\ OpenOutcome'
    BY <1>3 DEF Destroy, CloseSocket, FlagsOK, ValuesOK,
       DescriptorsOwned, OpenInv, UseInv, OpenOutcome
  <2>4. ReadInv' /\ ClosedMeansDrained'
    BY <1>3 DEF Destroy, CloseSocket, ValuesOK, ReadInv, ClosedMeansDrained
  <2>5. WriteExact'
    BY <1>3 DEF Destroy, CloseSocket, ValuesOK, WriteExact
  <2> QED
    BY <2>1, <2>2, <2>3, <2>4, <2>5
<1>4. CASE \E n \in 0..MaxSize, isNull \in BOOLEAN : CallReadSome(n, isNull)
  <2>0. PICK n \in 0..MaxSize, isNull \in BOOLEAN : CallReadSome(n, isNull)
    BY <1>4
  <2>1. FlagsOK'
    BY <2>0 DEF CallReadSome, FlagsOK
  <2>2. ValuesOK'
    BY <2>0 DEF CallReadSome, ValuesOK
  <2>3. DescriptorsOwned' /\ OpenInv' /\ UseInv' /\ OpenOutcome'
    BY <2>0 DEF CallReadSome, FlagsOK, ValuesOK,
       DescriptorsOwned, OpenInv, UseInv, OpenOutcome
  <2>4. ReadInv' /\ ClosedMeansDrained'
    BY <2>0 DEF CallReadSome, ValuesOK, ReadInv, ClosedMeansDrained
  <2>5. WriteExact'
    BY <2>0 DEF CallReadSome, ValuesOK, WriteExact
  <2> QED
    BY <2>1, <2>2, <2>3, <2>4, <2>5
<1>5. CASE \E n \in 0..MaxSize, isNull \in BOOLEAN : CallWriteAll(n, isNull)
  <2>0. PICK n \in 0..MaxSize, isNull \in BOOLEAN : CallWriteAll(n, isNull)
    BY <1>5
  <2>1. FlagsOK'
    BY <2>0 DEF CallWriteAll, FlagsOK
  <2>2. ValuesOK'
    BY <2>0 DEF CallWriteAll, ValuesOK
  <2>3. DescriptorsOwned' /\ OpenInv' /\ UseInv' /\ OpenOutcome'
    BY <2>0 DEF CallWriteAll, FlagsOK, ValuesOK,
       DescriptorsOwned, OpenInv, UseInv, OpenOutcome
  <2>4. ReadInv' /\ ClosedMeansDrained'
    BY <2>0 DEF CallWriteAll, ValuesOK, ReadInv, ClosedMeansDrained
  <2>5. WriteExact'
    <3>1. wire \in Seq(Byte) /\ wid + 1 \in Nat
      BY <2>0 DEF ValuesOK
    <3>2. wire \o Bytes(wid + 1, 0, 0) = wire
      BY <3>1, BytesNone
    <3> QED
      BY <2>0, <3>2 DEF CallWriteAll, WriteExact
  <2> QED
    BY <2>1, <2>2, <2>3, <2>4, <2>5
<1> QED
  BY <1>1, <1>2, <1>3, <1>4, <1>5 DEF Caller

\* The steps of ReadSome keep the invariant.
LEMMA ReadStepIInv == IInv /\ ReadStep => IInv'
<1> SUFFICES ASSUME IInv, ReadStep PROVE IInv'
  OBVIOUS
<1> USE TcpStreamAssumption 
    DEF IInv, TypeOK, Steps, OpenSteps, CandidateSteps, ReadSteps, WriteSteps,
        ConnStates, Ops, TransportStatus, object, openCall, writeCall, peer,
        Return, Result
<1>1. CASE ReadWait
  <2>1. FlagsOK'
    BY <1>1 DEF ReadWait, Readable, FlagsOK
  <2>2. ValuesOK'
    BY <1>1 DEF ReadWait, Readable, ValuesOK
  <2>3. DescriptorsOwned' /\ OpenInv' /\ UseInv' /\ OpenOutcome'
    BY <1>1 DEF ReadWait, Readable, FlagsOK, ValuesOK,
       DescriptorsOwned, OpenInv, UseInv, OpenOutcome
  <2>4. ReadInv' /\ ClosedMeansDrained'
    BY <1>1 DEF ReadWait, Readable, ValuesOK, ReadInv, ClosedMeansDrained
  <2>5. WriteExact'
    BY <1>1 DEF ReadWait, Readable, ValuesOK, WriteExact
  <2> QED
    BY <2>1, <2>2, <2>3, <2>4, <2>5
<1>2. CASE RecvData
  <2>1. FlagsOK'
    BY <1>2 DEF RecvData, FlagsOK
  <2>2. ValuesOK'
    BY <1>2 DEF RecvData, ValuesOK, ReadInv
  <2>3. DescriptorsOwned' /\ OpenInv' /\ UseInv' /\ OpenOutcome'
    BY <1>2 DEF RecvData, FlagsOK, ValuesOK,
       DescriptorsOwned, OpenInv, UseInv, OpenOutcome
  <2>4. ReadInv' /\ ClosedMeansDrained'
    BY <1>2 DEF RecvData, ValuesOK, ReadInv, ClosedMeansDrained
  <2>5. WriteExact'
    BY <1>2 DEF RecvData, ValuesOK, WriteExact
  <2> QED
    BY <2>1, <2>2, <2>3, <2>4, <2>5
<1>3. CASE RecvEof
  <2>1. FlagsOK'
    BY <1>3 DEF RecvEof, CloseSocket, EndOfStream, FlagsOK
  <2>2. ValuesOK'
    BY <1>3 DEF RecvEof, CloseSocket, EndOfStream, ValuesOK
  <2>3. DescriptorsOwned' /\ OpenInv' /\ UseInv' /\ OpenOutcome'
    BY <1>3 DEF RecvEof, CloseSocket, EndOfStream, FlagsOK, ValuesOK,
       DescriptorsOwned, OpenInv, UseInv, OpenOutcome
  <2>4. ReadInv' /\ ClosedMeansDrained'
    BY <1>3 DEF RecvEof, CloseSocket, EndOfStream, ValuesOK, ReadInv, ClosedMeansDrained,
       DescriptorsOwned
  <2>5. WriteExact'
    BY <1>3 DEF RecvEof, CloseSocket, EndOfStream, ValuesOK, WriteExact
  <2> QED
    BY <2>1, <2>2, <2>3, <2>4, <2>5
<1>4. CASE RecvError
  <2>1. FlagsOK'
    BY <1>4 DEF RecvError, FlagsOK
  <2>2. ValuesOK'
    BY <1>4 DEF RecvError, ValuesOK
  <2>3. DescriptorsOwned' /\ OpenInv' /\ UseInv' /\ OpenOutcome'
    BY <1>4 DEF RecvError, FlagsOK, ValuesOK,
       DescriptorsOwned, OpenInv, UseInv, OpenOutcome
  <2>4. ReadInv' /\ ClosedMeansDrained'
    BY <1>4 DEF RecvError, ValuesOK, ReadInv, ClosedMeansDrained
  <2>5. WriteExact'
    BY <1>4 DEF RecvError, ValuesOK, WriteExact
  <2> QED
    BY <2>1, <2>2, <2>3, <2>4, <2>5
<1>5. CASE RecvWouldBlock
  <2>1. FlagsOK'
    BY <1>5 DEF RecvWouldBlock, Readable, FlagsOK
  <2>2. ValuesOK'
    BY <1>5 DEF RecvWouldBlock, Readable, ValuesOK
  <2>3. DescriptorsOwned' /\ OpenInv' /\ UseInv' /\ OpenOutcome'
    BY <1>5 DEF RecvWouldBlock, Readable, FlagsOK, ValuesOK,
       DescriptorsOwned, OpenInv, UseInv, OpenOutcome
  <2>4. ReadInv' /\ ClosedMeansDrained'
    BY <1>5 DEF RecvWouldBlock, Readable, ValuesOK, ReadInv, ClosedMeansDrained
  <2>5. WriteExact'
    BY <1>5 DEF RecvWouldBlock, Readable, ValuesOK, WriteExact
  <2> QED
    BY <2>1, <2>2, <2>3, <2>4, <2>5
<1> QED
  BY <1>1, <1>2, <1>3, <1>4, <1>5 DEF ReadStep

\* The steps of WriteAll keep the invariant.
LEMMA WriteStepIInv == IInv /\ WriteStep => IInv'
<1> SUFFICES ASSUME IInv, WriteStep PROVE IInv'
  OBVIOUS
<1> USE TcpStreamAssumption 
    DEF IInv, TypeOK, Steps, OpenSteps, CandidateSteps, ReadSteps, WriteSteps,
        ConnStates, Ops, TransportStatus, object, openCall, writeCall, peer,
        Return, Result
<1>1. CASE WriteWait
  <2>1. FlagsOK'
    BY <1>1 DEF WriteWait, FlagsOK
  <2>2. ValuesOK'
    BY <1>1 DEF WriteWait, ValuesOK
  <2>3. DescriptorsOwned' /\ OpenInv' /\ UseInv' /\ OpenOutcome'
    BY <1>1 DEF WriteWait, FlagsOK, ValuesOK,
       DescriptorsOwned, OpenInv, UseInv, OpenOutcome
  <2>4. ReadInv' /\ ClosedMeansDrained'
    BY <1>1 DEF WriteWait, ValuesOK, ReadInv, ClosedMeansDrained
  <2>5. WriteExact'
    <3>1. UNCHANGED <<wire, base, wid, written, size>> /\ pc = "writeWait"
      BY <1>1 DEF WriteWait
    <3>2. \/ pc' = "send"
          \/ pc' = "idle" /\ ret'.n = size /\ ret'.status \in {"Timeout", "WriteFailed"}
      BY <1>1 DEF WriteWait
    <3> QED
      BY <3>1, <3>2 DEF WriteExact
  <2> QED
    BY <2>1, <2>2, <2>3, <2>4, <2>5
<1>2. CASE \E n \in 1..MaxSize : SendChunk(n)
  <2>0. PICK n \in 1..MaxSize : SendChunk(n)
    BY <1>2
  <2>1. FlagsOK'
    BY <2>0 DEF SendChunk, Chunk, FlagsOK
  <2>0a. /\ wid \in Nat /\ written \in Nat /\ n \in Nat /\ base \in Seq(Byte)
         /\ wire = base \o Bytes(wid, 0, written) /\ wire' = wire \o Chunk(n)
         /\ written + n <= size /\ size \in Nat
    BY <2>0 DEF SendChunk, ValuesOK, WriteExact
  <2>0b. wire' \in Seq(Byte) /\ wire' = base \o Bytes(wid, 0, written + n)
    BY <2>0a, ChunkExtends
  <2>2. ValuesOK'
    <3>1. written' \in 0..MaxSize
      BY <2>0, <2>0a DEF SendChunk, ValuesOK
    <3>2. pc' \in Steps /\ ret' \in [op : Ops, status : TransportStatus, n : 0..MaxSize]
      BY <2>0 DEF SendChunk, ValuesOK
    <3> QED
      BY <2>0, <2>0b, <3>1, <3>2 DEF SendChunk, ValuesOK
  <2>3. DescriptorsOwned' /\ OpenInv' /\ UseInv' /\ OpenOutcome'
    BY <2>0 DEF SendChunk, Chunk, FlagsOK, ValuesOK,
       DescriptorsOwned, OpenInv, UseInv, OpenOutcome
  <2>4. ReadInv' /\ ClosedMeansDrained'
    BY <2>0 DEF SendChunk, Chunk, ValuesOK, ReadInv, ClosedMeansDrained
  <2>5. WriteExact'
    <3>1. /\ wid' = wid /\ base' = base /\ written' = written + n /\ size' = size
          /\ wire' = base' \o Bytes(wid', 0, written')
      BY <2>0, <2>0b DEF SendChunk
    <3>2. CASE written + n < size
      BY <2>0, <3>1, <3>2 DEF SendChunk, WriteExact
    <3>3. CASE written + n = size
      <4>1. ~(written + n < size) /\ written' = size
        BY <2>0a, <3>1, <3>3
      <4>2. pc' = "idle" /\ ret' = [op |-> "WriteAll", status |-> "Ok", n |-> size]
        BY <2>0, <4>1 DEF SendChunk
      <4> QED
        BY <3>1, <4>1, <4>2 DEF WriteExact
    <3> QED
      BY <2>0a, <3>2, <3>3
  <2> QED
    BY <2>1, <2>2, <2>3, <2>4, <2>5
<1>3. CASE SendWouldBlock
  <2>1. FlagsOK'
    BY <1>3 DEF SendWouldBlock, FlagsOK
  <2>2. ValuesOK'
    BY <1>3 DEF SendWouldBlock, ValuesOK
  <2>3. DescriptorsOwned' /\ OpenInv' /\ UseInv' /\ OpenOutcome'
    BY <1>3 DEF SendWouldBlock, FlagsOK, ValuesOK,
       DescriptorsOwned, OpenInv, UseInv, OpenOutcome
  <2>4. ReadInv' /\ ClosedMeansDrained'
    BY <1>3 DEF SendWouldBlock, ValuesOK, ReadInv, ClosedMeansDrained
  <2>5. WriteExact'
    BY <1>3 DEF SendWouldBlock, ValuesOK, WriteExact
  <2> QED
    BY <2>1, <2>2, <2>3, <2>4, <2>5
<1>4. CASE SendBroken
  <2>1. FlagsOK'
    BY <1>4 DEF SendBroken, FlagsOK
  <2>2. ValuesOK'
    BY <1>4 DEF SendBroken, ValuesOK
  <2>3. DescriptorsOwned' /\ OpenInv' /\ UseInv' /\ OpenOutcome'
    BY <1>4 DEF SendBroken, FlagsOK, ValuesOK,
       DescriptorsOwned, OpenInv, UseInv, OpenOutcome
  <2>4. ReadInv' /\ ClosedMeansDrained'
    BY <1>4 DEF SendBroken, ValuesOK, ReadInv, ClosedMeansDrained
  <2>5. WriteExact'
    <3>1. /\ written < size /\ wire = base \o Bytes(wid, 0, written)
          /\ UNCHANGED <<size, written, wire, base, wid>>
      BY <1>4 DEF SendBroken, WriteExact, WriteSteps
    <3>2. CASE pc' = "killed"
      BY <3>1, <3>2 DEF WriteExact
    <3>3. CASE Return("WriteAll", "WriteFailed", size)
      BY <3>1, <3>3 DEF WriteExact, WriteSteps
    <3> QED
      BY <1>4, <3>2, <3>3 DEF SendBroken
  <2> QED
    BY <2>1, <2>2, <2>3, <2>4, <2>5
<1>5. CASE SendFails
  <2>1. FlagsOK'
    BY <1>5 DEF SendFails, FlagsOK
  <2>2. ValuesOK'
    BY <1>5 DEF SendFails, ValuesOK
  <2>3. DescriptorsOwned' /\ OpenInv' /\ UseInv' /\ OpenOutcome'
    BY <1>5 DEF SendFails, FlagsOK, ValuesOK,
       DescriptorsOwned, OpenInv, UseInv, OpenOutcome
  <2>4. ReadInv' /\ ClosedMeansDrained'
    BY <1>5 DEF SendFails, ValuesOK, ReadInv, ClosedMeansDrained
  <2>5. WriteExact'
    BY <1>5 DEF SendFails, ValuesOK, WriteExact
  <2> QED
    BY <2>1, <2>2, <2>3, <2>4, <2>5
<1> QED
  BY <1>1, <1>2, <1>3, <1>4, <1>5 DEF WriteStep

\* The peer and the network cannot break the invariant.
LEMMA PeerIInv == IInv /\ Peer => IInv'
<1> SUFFICES ASSUME IInv, Peer PROVE IInv'
  OBVIOUS
<1> USE TcpStreamAssumption 
    DEF IInv, TypeOK, Steps, OpenSteps, CandidateSteps, ReadSteps, WriteSteps,
        ConnStates, Ops, TransportStatus, object, openCall, writeCall, peer,
        Return, Result
<1>1. CASE Establish
  <2>1. FlagsOK'
    BY <1>1 DEF Establish, code, FlagsOK
  <2>2. ValuesOK'
    BY <1>1 DEF Establish, code, ValuesOK, ReadInv
  <2>3. DescriptorsOwned' /\ OpenInv' /\ UseInv' /\ OpenOutcome'
    BY <1>1 DEF Establish, code, FlagsOK, ValuesOK,
       DescriptorsOwned, OpenInv, UseInv, OpenOutcome
  <2>4. ReadInv' /\ ClosedMeansDrained'
    BY <1>1 DEF Establish, code, ValuesOK, ReadInv, ClosedMeansDrained, DescriptorsOwned
  <2>5. WriteExact'
    BY <1>1 DEF Establish, code, ValuesOK, WriteExact
  <2> QED
    BY <2>1, <2>2, <2>3, <2>4, <2>5
<1>2. CASE Refuse
  <2>1. FlagsOK'
    BY <1>2 DEF Refuse, code, FlagsOK
  <2>2. ValuesOK'
    BY <1>2 DEF Refuse, code, ValuesOK, ReadInv
  <2>3. DescriptorsOwned' /\ OpenInv' /\ UseInv' /\ OpenOutcome'
    BY <1>2 DEF Refuse, code, FlagsOK, ValuesOK,
       DescriptorsOwned, OpenInv, UseInv, OpenOutcome
  <2>4. ReadInv' /\ ClosedMeansDrained'
    BY <1>2 DEF Refuse, code, ValuesOK, ReadInv, ClosedMeansDrained, DescriptorsOwned
  <2>5. WriteExact'
    BY <1>2 DEF Refuse, code, ValuesOK, WriteExact
  <2> QED
    BY <2>1, <2>2, <2>3, <2>4, <2>5
<1>3. CASE PeerSend
  <2>1. FlagsOK'
    BY <1>3 DEF PeerSend, code, FlagsOK
  <2>2. ValuesOK'
    BY <1>3 DEF PeerSend, code, ValuesOK, ReadInv
  <2>3. DescriptorsOwned' /\ OpenInv' /\ UseInv' /\ OpenOutcome'
    BY <1>3 DEF PeerSend, code, FlagsOK, ValuesOK,
       DescriptorsOwned, OpenInv, UseInv, OpenOutcome
  <2>4. ReadInv' /\ ClosedMeansDrained'
    BY <1>3 DEF PeerSend, code, ValuesOK, ReadInv, ClosedMeansDrained, DescriptorsOwned
  <2>5. WriteExact'
    BY <1>3 DEF PeerSend, code, ValuesOK, WriteExact
  <2> QED
    BY <2>1, <2>2, <2>3, <2>4, <2>5
<1>4. CASE PeerClose
  <2>1. FlagsOK'
    BY <1>4 DEF PeerClose, code, FlagsOK
  <2>2. ValuesOK'
    BY <1>4 DEF PeerClose, code, ValuesOK, ReadInv
  <2>3. DescriptorsOwned' /\ OpenInv' /\ UseInv' /\ OpenOutcome'
    BY <1>4 DEF PeerClose, code, FlagsOK, ValuesOK,
       DescriptorsOwned, OpenInv, UseInv, OpenOutcome
  <2>4. ReadInv' /\ ClosedMeansDrained'
    BY <1>4 DEF PeerClose, code, ValuesOK, ReadInv, ClosedMeansDrained, DescriptorsOwned
  <2>5. WriteExact'
    BY <1>4 DEF PeerClose, code, ValuesOK, WriteExact
  <2> QED
    BY <2>1, <2>2, <2>3, <2>4, <2>5
<1>5. CASE PeerReset
  <2>1. FlagsOK'
    BY <1>5 DEF PeerReset, code, FlagsOK
  <2>2. ValuesOK'
    BY <1>5 DEF PeerReset, code, ValuesOK, ReadInv
  <2>3. DescriptorsOwned' /\ OpenInv' /\ UseInv' /\ OpenOutcome'
    BY <1>5 DEF PeerReset, code, FlagsOK, ValuesOK,
       DescriptorsOwned, OpenInv, UseInv, OpenOutcome
  <2>4. ReadInv' /\ ClosedMeansDrained'
    BY <1>5 DEF PeerReset, code, ValuesOK, ReadInv, ClosedMeansDrained, DescriptorsOwned
  <2>5. WriteExact'
    BY <1>5 DEF PeerReset, code, ValuesOK, WriteExact
  <2> QED
    BY <2>1, <2>2, <2>3, <2>4, <2>5
<1> QED
  BY <1>1, <1>2, <1>3, <1>4, <1>5 DEF Peer

\* A step that changes nothing keeps the invariant.
LEMMA StutterIInv == IInv /\ UNCHANGED vars => IInv'
<1> SUFFICES ASSUME IInv, UNCHANGED vars PROVE IInv'
  OBVIOUS
<1> USE DEF IInv, TypeOK, vars, object, openCall, writeCall, peer
<1>1. FlagsOK' /\ ValuesOK'
  BY DEF FlagsOK, ValuesOK
<1>2. DescriptorsOwned' /\ OpenInv' /\ UseInv' /\ OpenOutcome'
  BY DEF DescriptorsOwned, OpenInv, UseInv, OpenOutcome
<1>3. ReadInv' /\ ClosedMeansDrained' /\ WriteExact'
  BY DEF ReadInv, ClosedMeansDrained, WriteExact
<1> QED
  BY <1>1, <1>2, <1>3

\* Every step keeps the invariant.
LEMMA NextIInv == IInv /\ [Next]_vars => IInv'
BY OpenStepIInv, CallerIInv, ReadStepIInv, WriteStepIInv, PeerIInv, StutterIInv DEF Next

-----------------------------------------------------------------------------
(* The theorems *)

\* The inductive invariant holds in every reachable state, for any number of
\* descriptors, addresses, bytes and writes.
THEOREM Invariance == Spec => []IInv
BY InitIInv, NextIInv, PTL DEF Spec

\* The object's members, the locals of its calls and the connection always
\* have their types.
THEOREM TypeCorrect == Spec => []TypeOK
<1>1. IInv => TypeOK
  BY DEF IInv
<1> QED
  BY <1>1, Invariance, PTL

\* TcpStreamTransport never leaks a descriptor or an addrinfo list, never
\* closes a descriptor twice and never uses one it has closed.
THEOREM NoDescriptorLeak == Spec => []DescriptorsOwned
<1>1. IInv => DescriptorsOwned
  BY DEF IInv
<1> QED
  BY <1>1, Invariance, PTL

\* Open's status, IsOpen and the state of the connection agree.
THEOREM OpenIsTruthful == Spec => []OpenOutcome
<1>1. IInv => OpenOutcome
  BY DEF IInv
<1> QED
  BY <1>1, Invariance, PTL

\* ReadSome does not report the end of the stream while bytes are queued.
THEOREM NoByteLost == Spec => []ClosedMeansDrained
<1>1. IInv => ClosedMeansDrained
  BY DEF IInv
<1> QED
  BY <1>1, Invariance, PTL

\* WriteAll gives the socket its buffer exactly once and in order, however
\* send splits it.
THEOREM WriteAllExact == Spec => []WriteExact
<1>1. IInv => WriteExact
  BY DEF IInv
<1> QED
  BY <1>1, Invariance, PTL

-----------------------------------------------------------------------------
(* TcpStreamTransport implements IByteStream *)

\* What the refinement needs besides: a session starts with nothing delivered
\* and nothing sent, a WriteAll that reached the socket has a number, and only
\* an abort discards bytes.
SessionInv ==
  /\ pc \in CandidateSteps \/ (pc = "freeaddrinfo" /\ open_) => wire = <<>> /\ delivered = 0
  /\ pc \in WriteSteps => wid >= 1
  /\ pc \in {"setNonBlocking", "connect"} => conn = "none"
  /\ dropped => conn = "reset"

\* Every step keeps it.
LEMMA SessionStep == IInv /\ SessionInv /\ [Next]_vars => SessionInv'
<1> SUFFICES ASSUME IInv, SessionInv, [Next]_vars PROVE SessionInv'
  OBVIOUS
<1>0. UseInv /\ OpenInv /\ wid \in Nat /\ OpenOutcome
  BY TcpStreamAssumption DEF IInv, TypeOK, ValuesOK
<1> USE <1>0 DEF SessionInv, CandidateSteps, WriteSteps, object, openCall, writeCall, peer, Return
<1>1. CASE Caller
  <2>1. CASE CallOpen \/ CallClose \/ Destroy
    BY <2>1 DEF CallOpen, CallClose, Destroy
  <2>2. ASSUME NEW n \in 0..MaxSize, NEW isNull \in BOOLEAN, CallReadSome(n, isNull)
        PROVE  SessionInv'
    BY <2>2 DEF CallReadSome
  <2>3. ASSUME NEW n \in 0..MaxSize, NEW isNull \in BOOLEAN, CallWriteAll(n, isNull)
        PROVE  SessionInv'
    BY <2>3 DEF CallWriteAll
  <2> QED
    BY <1>1, <2>1, <2>2, <2>3 DEF Caller
<1>2. CASE OpenStep
  <2>1. CASE Resolve \/ SocketFails
    BY <2>1 DEF Resolve, SocketFails, NextAddress, OpenInv, OpenSteps
  <2>2. CASE CreateSocket
    BY <2>2 DEF CreateSocket
  <2>3. CASE SetNonBlocking
    BY <2>3 DEF SetNonBlocking, GiveUpCandidate, NextAddress
  <2>4. CASE Connect
    BY <2>4 DEF Connect, GiveUpCandidate, AdoptCandidate, NextAddress, OpenInv, OpenSteps
  <2>5. CASE ConnectWait
    BY <2>5 DEF ConnectWait, GiveUpCandidate, NextAddress
  <2>6. CASE CheckConnected
    BY <2>6 DEF CheckConnected, GiveUpCandidate, AdoptCandidate, NextAddress
  <2>7. CASE FreeAddrInfo
    BY <2>7 DEF FreeAddrInfo
  <2> QED
    BY <1>2, <2>1, <2>2, <2>3, <2>4, <2>5, <2>6, <2>7 DEF OpenStep
<1>3. CASE ReadStep
  BY <1>3 DEF ReadStep, ReadWait, RecvData, RecvEof, RecvError, RecvWouldBlock
<1>4. CASE WriteStep
  BY <1>4 DEF WriteStep, WriteWait, SendChunk, SendWouldBlock, SendBroken, SendFails
<1>5. CASE Peer
  BY <1>5 DEF Peer, Establish, Refuse, PeerSend, PeerClose, PeerReset, code
<1>6. CASE UNCHANGED vars
  BY <1>6 DEF vars
<1> QED
  BY <1>1, <1>2, <1>3, <1>4, <1>5, <1>6 DEF Next

\* What the caller has written, as the contract sees it.
Sent == IF pc \in WriteSteps \cup {"killed"} THEN base ELSE wire

\* What the caller can see has not changed.
Same == Up' = Up /\ (Up => UNCHANGED <<peerSent, delivered, fin, conn, Sent>>)

\* A stream that goes down leaves nothing of its session.
LEMMA DownEndsSession ==
  ASSUME ~Up'
  PROVE  Stream!EndSession
<1>1. /\ (IF Up THEN peerSent ELSE 0)' = 0 /\ (IF Up THEN delivered ELSE 0)' = 0
      /\ (Up /\ fin)' = FALSE /\ (Up /\ conn = "reset")' = FALSE
      /\ (IF ~Up THEN <<>>
          ELSE IF pc \in WriteSteps \cup {"killed"} THEN base ELSE wire)' = <<>>
  OBVIOUS
<1>2. (Stream!Session)' = <<0, 0, FALSE, FALSE, <<>> >>
  BY <1>1, Zenon DEF Stream!Session
<1> QED
  BY <1>2 DEF Stream!EndSession

\* A step that the caller does not see.
LEMMA Unseen ==
  ASSUME Same, UNCHANGED ret
  PROVE  UNCHANGED Stream!vars
BY DEF Same, Sent, Stream!vars

\* A call that fails and changes nothing.
LEMMA Refused ==
  ASSUME Same, NEW st \in TransportStatus,
         \/ /\ st \in {"AlreadyOpen", "InvalidArgument", "OpenFailed", "Timeout"}
            /\ (st = "AlreadyOpen") = Up /\ ret' = Result("Open", st, 0)
         \/ /\ st \in {"NotOpen", "InvalidArgument", "Timeout", "WouldBlock", "ReadFailed"}
            /\ (st = "NotOpen") = ~Up /\ ret' = Result("ReadSome", st, 0)
         \/ /\ st \in {"NotOpen", "InvalidArgument"}
            /\ (st = "NotOpen") = ~Up
            /\ \E n \in 0..MaxSize : ret' = Result("WriteAll", st, n)
  PROVE  Stream!Next
BY DEF Same, Sent, Result, Stream!Next, Stream!OpenRefused, Stream!ReadRefused,
       Stream!WriteRefused, Stream!Session, Stream!Result

\* WriteAll takes effect when it returns: all of the buffer, or what was sent of
\* it.
LEMMA WriteReturns ==
  ASSUME Up, Up', UNCHANGED <<peerSent, delivered, fin, conn>>,
         NEW w \in 1..MaxWrites, NEW m \in 0..MaxSize, NEW n \in 0..m,
         Sent' = Sent \o Bytes(w, 0, n),
         NEW st \in {"Ok", "Timeout", "WouldBlock", "WriteFailed"},
         (st = "Ok") = (n = m), ret' = Result("WriteAll", st, m)
  PROVE  Stream!Next
<1>1. Stream!Write(w, m, n)
  BY DEF Stream!Write, Stream!Result, Result, Stream!Bytes, Bytes, Sent
<1> QED
  BY <1>1 DEF Stream!Next

\* The calls are steps of the contract, or not seen until they return.
LEMMA CallerIsStream ==
  ASSUME IInv, SessionInv, Caller
  PROVE  Stream!Next \/ UNCHANGED Stream!vars
<1>0. /\ open_ \in BOOLEAN /\ wire \in Seq(Byte) /\ wid \in 0..MaxWrites /\ MaxWrites \in Nat
      /\ MaxSize \in Nat /\ delivered \in Nat /\ peerSent \in Nat /\ delivered <= peerSent
  BY TcpStreamAssumption DEF IInv, TypeOK, FlagsOK, ValuesOK, ReadInv
<1> USE DEF Return, object, openCall, writeCall, peer, WriteSteps
<1>1. CASE CallOpen
  <2>1. Same /\ Up = open_
    BY <1>0, <1>1 DEF CallOpen, Same, Sent, Up
  <2>2. CASE UNCHANGED ret
    BY <2>1, <2>2, Unseen
  <2>3. CASE open_ /\ ret' = Result("Open", "AlreadyOpen", 0)
    BY <2>1, <2>3, Refused DEF TransportStatus
  <2>4. CASE ~open_ /\ ret' = Result("Open", "InvalidArgument", 0)
    <3>1. Same /\ Up = FALSE
      BY <1>0, <2>1, <2>4
    <3>2. ("InvalidArgument" = "AlreadyOpen") = Up
      BY <3>1
    <3> QED
      BY <2>4, <3>1, <3>2, Refused DEF TransportStatus
  <2>5. CASE ~open_ /\ ret' = Result("Open", "OpenFailed", 0)
    <3>1. Same /\ Up = FALSE
      BY <1>0, <2>1, <2>5
    <3>2. ("OpenFailed" = "AlreadyOpen") = Up
      BY <3>1
    <3> QED
      BY <2>5, <3>1, <3>2, Refused DEF TransportStatus
  <2> QED
    BY <1>1, <2>2, <2>3, <2>4, <2>5 DEF CallOpen
<1>2. CASE CallClose \/ Destroy
  <2>1. ~Up' /\ ret' = Result("Close", "Ok", 0)
    BY <1>2 DEF CallClose, Destroy, CloseSocket, Up
  <2>2. Stream!Close
    BY <2>1, DownEndsSession DEF Stream!Close, Stream!Result, Result
  <2> QED
    BY <2>2 DEF Stream!Next
<1>3. ASSUME NEW n \in 0..MaxSize, NEW isNull \in BOOLEAN, CallReadSome(n, isNull)
      PROVE  Stream!Next \/ UNCHANGED Stream!vars
  <2>1. Same /\ Up = open_
    BY <1>0, <1>3 DEF CallReadSome, Same, Sent, Up
  <2>2. CASE UNCHANGED ret
    BY <2>1, <2>2, Unseen
  <2>3. CASE ~open_ /\ ret' = Result("ReadSome", "NotOpen", 0)
    BY <2>1, <2>3, Refused DEF TransportStatus
  <2>4. CASE open_ /\ ret' = Result("ReadSome", "InvalidArgument", 0)
    BY <2>1, <2>4, Refused DEF TransportStatus
  <2>5. CASE open_ /\ ret' = Result("ReadSome", "Ok", 0)
    <3>1. Up /\ Up' /\ UNCHANGED <<peerSent, delivered, fin, conn, Sent>>
      BY <2>1, <2>5 DEF Same
    <3>2. Stream!Read(0)
      BY <1>0, <2>5, <3>1 DEF Stream!Read, Stream!Result, Result, Sent
    <3> QED
      BY <1>0, <3>2 DEF Stream!Next
  <2> QED
    BY <1>3, <2>2, <2>3, <2>4, <2>5 DEF CallReadSome
<1>4. ASSUME NEW n \in 0..MaxSize, NEW isNull \in BOOLEAN, CallWriteAll(n, isNull)
      PROVE  Stream!Next \/ UNCHANGED Stream!vars
  <2>1. Same /\ Up = open_ /\ Sent = wire /\ Sent' = wire
    BY <1>0, <1>4 DEF CallWriteAll, Same, Sent, Up
  <2>2. CASE UNCHANGED ret
    BY <2>1, <2>2, Unseen
  <2>3. CASE ~open_ /\ ret' = Result("WriteAll", "NotOpen", n)
    BY <2>1, <2>3, Refused DEF TransportStatus
  <2>4. CASE open_ /\ ret' = Result("WriteAll", "InvalidArgument", n)
    BY <2>1, <2>4, Refused DEF TransportStatus
  <2>5. CASE open_ /\ n = 0 /\ wid < MaxWrites /\ ret' = Result("WriteAll", "Ok", 0)
    <3>1. wid + 1 \in 1..MaxWrites /\ 0 \in 0..MaxSize /\ 0 \in 0..0 /\ wid + 1 \in Nat
      BY <1>0, <2>5
    <3>2. wire \o Bytes(wid + 1, 0, 0) = wire
      BY <1>0, <3>1, BytesNone
    <3>3. Sent' = Sent \o Bytes(wid + 1, 0, 0)
      BY <2>1, <3>2
    <3>4. Up /\ Up' /\ UNCHANGED <<peerSent, delivered, fin, conn>>
      BY <2>1, <2>5 DEF Same
    <3> QED
      BY <2>5, <3>1, <3>3, <3>4, WriteReturns
  <2> QED
    BY <1>4, <2>2, <2>3, <2>4, <2>5 DEF CallWriteAll
<1> QED
  BY <1>1, <1>2, <1>3, <1>4 DEF Caller

\* Open is not seen before it returns, and then is the contract's Open unless it
\* reports that select failed.
LEMMA OpenIsStream ==
  ASSUME IInv, SessionInv, OpenStep
  PROVE  Stream!Next \/ OpenReportsWriteFailed \/ UNCHANGED Stream!vars
<1>0. /\ open_ \in BOOLEAN /\ OpenInv /\ OpenOutcome
      /\ peerSent \in Nat /\ fin \in BOOLEAN
  BY TcpStreamAssumption DEF IInv, TypeOK, FlagsOK, ValuesOK
<1> USE DEF Return, object, openCall, writeCall, peer
<1>1. CASE Resolve
  <2>1. Same /\ Up = FALSE
    BY <1>0, <1>1 DEF Resolve, Same, Sent, Up, OpenInv, OpenSteps
  <2> QED
    BY <1>1, <2>1, Unseen, Refused DEF Resolve, TransportStatus
<1>2. CASE SocketFails \/ CreateSocket \/ SetNonBlocking \/ ConnectWait
  <2>1. ~open_ /\ UNCHANGED <<open_, ret>>
    BY <1>0, <1>2 DEF SocketFails, CreateSocket, SetNonBlocking, ConnectWait, GiveUpCandidate,
                      OpenInv, OpenSteps
  <2>2. Same
    BY <2>1 DEF Same, Up
  <2> QED
    BY <2>1, <2>2, Unseen
<1>3. CASE Connect \/ CheckConnected
  <2>1. ~open_ /\ UNCHANGED ret /\ (open_' = open_ \/ pc' = "freeaddrinfo")
    BY <1>0, <1>3 DEF Connect, CheckConnected, GiveUpCandidate, AdoptCandidate, OpenInv,
       OpenSteps
  <2>2. Same
    BY <2>1 DEF Same, Up
  <2> QED
    BY <2>1, <2>2, Unseen
<1>4. CASE FreeAddrInfo
  <2>1. /\ ~Up /\ Up' = open_ /\ UNCHANGED <<peerSent, delivered, fin, conn, wire>>
        /\ ret' = Result("Open", finalStatus, 0) /\ pc' = "idle"
    BY <1>0, <1>4 DEF FreeAddrInfo, Up
  <2>2. CASE open_
    <3>1. finalStatus = "Ok" /\ wire = <<>> /\ delivered = 0
      BY <1>0, <1>4, <2>2 DEF FreeAddrInfo, SessionInv, OpenOutcome
    <3>2. Stream!OpenOk
      BY <1>0, <2>1, <2>2, <3>1 DEF Stream!OpenOk, Stream!Result, Result, WriteSteps
    <3> QED
      BY <3>2 DEF Stream!Next
  <2>3. CASE ~open_
    <3>1. finalStatus \in {"OpenFailed", "Timeout", "WriteFailed"}
      BY <1>0, <1>4, <2>3 DEF FreeAddrInfo, OpenOutcome, OpenInv
    <3>2. Same /\ Up = FALSE
      BY <2>1, <2>3 DEF Same, Up
    <3>3. CASE finalStatus = "WriteFailed"
      BY <1>4, <2>1, <2>3, <3>3 DEF FreeAddrInfo, OpenReportsWriteFailed
    <3>4. CASE finalStatus \in {"OpenFailed", "Timeout"}
      BY <2>1, <3>2, <3>4, Refused DEF TransportStatus
    <3> QED
      BY <3>1, <3>3, <3>4
  <2> QED
    BY <2>2, <2>3
<1> QED
  BY <1>1, <1>2, <1>3, <1>4 DEF OpenStep

\* ReadSome takes effect when it returns.
LEMMA ReadIsStream ==
  ASSUME IInv, SessionInv, ReadStep
  PROVE  Stream!Next \/ UNCHANGED Stream!vars
<1>0. /\ open_ /\ Up /\ ReadInv /\ delivered \in Nat /\ peerSent \in Nat /\ avail \in Nat
      /\ size \in 0..MaxSize /\ MaxSize \in Nat /\ pc \in {"readWait", "recv"}
  BY TcpStreamAssumption DEF IInv, TypeOK, ValuesOK, UseInv, ReadSteps, Up, ReadStep, ReadWait,
     RecvData, RecvEof, RecvError, RecvWouldBlock
<1> USE DEF Return, object, openCall, writeCall, peer
<1>1. CASE ReadWait
  <2>1. Same /\ Up = TRUE
    BY <1>0, <1>1 DEF ReadWait, Same, Sent, Up, WriteSteps
  <2> QED
    BY <1>1, <2>1, Unseen, Refused DEF ReadWait, TransportStatus
<1>2. CASE RecvData
  <2>1. PICK n \in 1..size : /\ n <= avail /\ delivered' = delivered + n
                             /\ ret' = Result("ReadSome", "Ok", n)
    BY <1>2 DEF RecvData
  <2>2. Up' /\ UNCHANGED <<peerSent, fin, conn, Sent>>
    BY <1>0, <1>2 DEF RecvData, Sent, Up, WriteSteps
  <2>3. n \in 0..MaxSize /\ delivered + n <= peerSent
    BY <1>0, <2>1 DEF ReadInv
  <2>4. Stream!Read(n)
    BY <1>0, <2>1, <2>2, <2>3 DEF Stream!Read, Stream!Result, Result, Sent
  <2> QED
    BY <2>3, <2>4 DEF Stream!Next
<1>3. CASE RecvEof
  <2>1. ~Up' /\ ret' = Result("ReadSome", "ConnectionClosed", 0)
    BY <1>3 DEF RecvEof, CloseSocket, Up
  <2>2. (fin /\ delivered = peerSent) \/ conn = "reset"
    BY <1>0, <1>3 DEF RecvEof, EndOfStream, ReadInv, SessionInv
  <2>3. Stream!ReadClosed
    BY <1>0, <2>1, <2>2, DownEndsSession DEF Stream!ReadClosed, Stream!Result, Result
  <2> QED
    BY <2>3 DEF Stream!Next
<1>4. CASE RecvError \/ RecvWouldBlock
  <2>1. Same /\ Up = TRUE
    BY <1>0, <1>4 DEF RecvError, RecvWouldBlock, Same, Sent, Up, WriteSteps
  <2> QED
    BY <1>4, <2>1, Refused DEF RecvError, RecvWouldBlock, TransportStatus
<1> QED
  BY <1>1, <1>2, <1>3, <1>4 DEF ReadStep

\* WriteAll takes effect when it returns, however its buffer was split.
LEMMA WriteIsStream ==
  ASSUME IInv, SessionInv, WriteStep
  PROVE  Stream!Next \/ UNCHANGED Stream!vars
<1>0. /\ open_ /\ Up /\ size \in 0..MaxSize /\ MaxSize \in Nat /\ written \in Nat
      /\ pc \in {"writeWait", "send"} /\ wid \in 1..MaxWrites /\ MaxWrites \in Nat
      /\ base \in Seq(Byte) /\ Sent = base
      /\ written < size /\ wire = base \o Bytes(wid, 0, written)
  <2>1. pc \in {"writeWait", "send"}
    BY DEF WriteStep, WriteWait, SendChunk, SendWouldBlock, SendBroken, SendFails
  <2> QED
    BY <2>1, TcpStreamAssumption
       DEF IInv, TypeOK, ValuesOK, UseInv, WriteSteps, Up, Sent, SessionInv, WriteExact
<1> USE DEF Return, object, openCall, writeCall, peer
<1>1. ASSUME NEW st \in {"Timeout", "WriteFailed"}, ret' = Result("WriteAll", st, size),
             pc' = "idle", UNCHANGED <<open_, peerSent, delivered, fin, conn, wire>>
      PROVE  Stream!Next
  <2>1. Up' /\ Sent' = Sent \o Bytes(wid, 0, written)
    BY <1>0, <1>1 DEF Up, Sent, WriteSteps
  <2>2. written \in 0..size /\ written # size
    BY <1>0
  <2> QED
    BY <1>0, <1>1, <2>1, <2>2, WriteReturns
<1>2. CASE WriteWait
  <2>1. CASE UNCHANGED ret /\ pc' = "send"
    <3>1. Same
      BY <1>0, <1>2, <2>1 DEF WriteWait, Same, Sent, Up, WriteSteps
    <3> QED
      BY <2>1, <3>1, Unseen
  <2> QED
    BY <1>1, <1>2, <2>1 DEF WriteWait
<1>3. ASSUME NEW n \in 1..MaxSize, SendChunk(n)
      PROVE  Stream!Next \/ UNCHANGED Stream!vars
  <2>0. UNCHANGED <<open_, peerSent, delivered, fin, conn, base>> /\ n \in 1..(size - written)
    BY <1>3 DEF SendChunk
  <2>1. CASE written + n < size
    <3>1. pc' = "writeWait" /\ UNCHANGED ret
      BY <1>3, <2>1 DEF SendChunk
    <3>2. Same
      BY <1>0, <2>0, <3>1 DEF Same, Sent, Up, WriteSteps
    <3> QED
      BY <3>1, <3>2, Unseen
  <2>2. CASE ~(written + n < size)
    <3>1. pc' = "idle" /\ ret' = Result("WriteAll", "Ok", size)
      BY <1>3, <2>2 DEF SendChunk
    <3>2. written + n = size /\ size \in 0..size
      BY <1>0, <2>0, <2>2
    <3>3. wire' = wire \o Chunk(n)
      BY <1>3 DEF SendChunk
    <3>4. wire' = base \o Bytes(wid, 0, written + n)
      <4>1. wid \in Nat /\ n \in Nat
        BY <1>0
      <4> QED
        BY <1>0, <3>3, <4>1, ChunkExtends
    <3>5. Up' /\ Sent' = Sent \o Bytes(wid, 0, size)
      BY <1>0, <2>0, <3>1, <3>2, <3>4 DEF Up, Sent, WriteSteps
    <3> QED
      BY <1>0, <2>0, <3>1, <3>2, <3>5, WriteReturns
  <2> QED
    BY <2>1, <2>2
<1>4. CASE SendWouldBlock
  <2>1. Same /\ UNCHANGED ret
    BY <1>0, <1>4 DEF SendWouldBlock, Same, Sent, Up, WriteSteps
  <2> QED
    BY <2>1, Unseen
<1>5. CASE SendBroken
  <2>1. CASE UNCHANGED ret /\ pc' = "killed"
    <3>1. Same
      BY <1>0, <1>5, <2>1 DEF SendBroken, Same, Sent, Up, WriteSteps
    <3> QED
      BY <2>1, <3>1, Unseen
  <2> QED
    BY <1>1, <1>5, <2>1 DEF SendBroken
<1>6. CASE SendFails
  BY <1>1, <1>6 DEF SendFails
<1> QED
  BY <1>2, <1>3, <1>4, <1>5, <1>6 DEF WriteStep

\* The peer's steps are the contract's environment, while the caller can see them.
LEMMA PeerIsStream ==
  ASSUME IInv, SessionInv, Peer
  PROVE  Stream!Next \/ UNCHANGED Stream!vars
<1>0. /\ OpenOutcome /\ peerSent \in Nat /\ UNCHANGED <<pc, open_, ret, delivered, wire, base>>
  BY TcpStreamAssumption DEF IInv, TypeOK, ValuesOK, Peer, Establish, Refuse, PeerSend,
     PeerClose,
     PeerReset, code, object, writeCall
<1>1. Up' = Up /\ Sent' = Sent
  BY <1>0 DEF Up, Sent
<1>2. CASE ~Up
  BY <1>0, <1>1, <1>2, Unseen DEF Same
<1>3. CASE Up
  <2>1. CASE Establish \/ Refuse
    BY <1>0, <1>3, <2>1 DEF Up, OpenOutcome, Establish, Refuse
  <2>2. CASE PeerSend
    <3>1. Stream!PeerSends
      BY <1>0, <1>1, <1>3, <2>2 DEF Stream!PeerSends, PeerSend, Sent
    <3> QED
      BY <3>1 DEF Stream!Next
  <2>3. CASE PeerClose
    <3>1. Stream!PeerCloses
      BY <1>0, <1>1, <1>3, <2>3 DEF Stream!PeerCloses, PeerClose, Sent
    <3> QED
      BY <3>1 DEF Stream!Next
  <2>4. CASE PeerReset
    <3>1. Stream!Breaks
      BY <1>0, <1>1, <1>3, <2>4 DEF Stream!Breaks, PeerReset, Sent
    <3> QED
      BY <3>1 DEF Stream!Next
  <2> QED
    BY <2>1, <2>2, <2>3, <2>4 DEF Peer
<1> QED
  BY <1>2, <1>3

\* Every step is one of the contract's, Open's report of a failed select, or
\* unseen.
LEMMA NextIsStream ==
  IInv /\ SessionInv /\ [Next]_vars =>
    [Stream!Next \/ OpenReportsWriteFailed]_(Stream!vars)
<1> SUFFICES ASSUME IInv, SessionInv, [Next]_vars
             PROVE  Stream!Next \/ OpenReportsWriteFailed \/ UNCHANGED Stream!vars
  OBVIOUS
<1>1. CASE UNCHANGED vars
  <2>1. Same /\ UNCHANGED ret
    BY <1>1 DEF vars, object, writeCall, peer, Same, Sent, Up
  <2> QED
    BY <2>1, Unseen
<1> QED
  BY <1>1, CallerIsStream, OpenIsStream, ReadIsStream, WriteIsStream, PeerIsStream DEF Next

\* TcpStreamTransport implements the contract of IByteStream, but for the status
\* of an Open whose select failed: although a call makes many system calls and
\* the peer acts between them, its caller sees it take effect in one step, the
\* one that returns.
THEOREM TcpImplementsByteStream == Spec => ImplementsByteStream
<1>1. Init => SessionInv
  BY DEF Init, SessionInv, CandidateSteps, WriteSteps
<1>2. Init => Stream!Init
  BY DEF Init, Stream!Init, Stream!Session, Up, NoResult, Result, Stream!NoResult, Stream!Result
<1> QED
  BY <1>1, <1>2, InitIInv, NextIInv, SessionStep, NextIsStream, PTL
     DEF Spec, ImplementsByteStream

\* Where the statuses of Open are the ones its header lists, no step is Open's
\* report of a failed select.
LEMMA DocumentedIsContract ==
  [Stream!Next \/ OpenReportsWriteFailed]_(Stream!vars) /\ OpenStatusDocumented' =>
    [Stream!Next]_(Stream!vars)
<1>1. OpenReportsWriteFailed => ~OpenStatusDocumented'
  BY DEF OpenReportsWriteFailed, OpenStatusDocumented, Result
<1> QED
  BY <1>1

\* With the statuses tcp_stream_transport.hpp lists for Open, TcpStreamTransport
\* implements the contract of IByteStream exactly as the header states it.
THEOREM TcpKeepsContract == Spec /\ []OpenStatusDocumented => Stream!Spec
<1> QED
  BY TcpImplementsByteStream, DocumentedIsContract, PTL DEF ImplementsByteStream, Stream!Spec

-----------------------------------------------------------------------------
(* Accepted streams *)

\* An accepted stream is never at one of the steps that connect.
AcceptedInv == IInv /\ pc \notin OpenSteps

\* Accept constructs the stream in a state that satisfies the invariant.
LEMMA AcceptedInitInv == AcceptedInit => AcceptedInv
<1> SUFFICES ASSUME AcceptedInit PROVE AcceptedInv
  OBVIOUS
<1> USE TcpStreamAssumption
<1>1. FlagsOK
  BY DEF AcceptedInit, FlagsOK
<1>2. ValuesOK
  BY EmptySeq
     DEF AcceptedInit, ValuesOK, Steps, TransportStatus, ConnStates, Ops, NoResult, Result
<1>3. DescriptorsOwned
  BY DEF AcceptedInit, DescriptorsOwned, CandidateSteps, OpenSteps
<1>4. OpenInv /\ OpenOutcome /\ ReadInv /\ UseInv
  BY DEF AcceptedInit, OpenInv, OpenOutcome, ReadInv, UseInv, OpenSteps, CandidateSteps,
         ReadSteps, WriteSteps, NoResult, Result
<1>5. ClosedMeansDrained /\ WriteExact
  BY DEF AcceptedInit, ClosedMeansDrained, WriteExact, WriteSteps, NoResult, Result
<1>6. pc \notin OpenSteps
  BY DEF AcceptedInit, OpenSteps
<1> QED
  BY <1>1, <1>2, <1>3, <1>4, <1>5, <1>6 DEF AcceptedInv, IInv, TypeOK

\* Open of an accepted stream only returns a status.
LEMMA AcceptedOpenIInv == IInv /\ AcceptedOpen => IInv'
<1> SUFFICES ASSUME IInv, AcceptedOpen PROVE IInv'
  OBVIOUS
<1> USE TcpStreamAssumption
    DEF IInv, TypeOK, Steps, OpenSteps, CandidateSteps, ReadSteps, WriteSteps,
        ConnStates, Ops, TransportStatus, object, openCall, writeCall, peer,
        Return, Result
<1>1. FlagsOK'
  BY DEF AcceptedOpen, FlagsOK
<1>2. ValuesOK'
  BY DEF AcceptedOpen, ValuesOK
<1>3. DescriptorsOwned' /\ OpenInv' /\ UseInv' /\ OpenOutcome'
  BY DEF AcceptedOpen, FlagsOK, ValuesOK, DescriptorsOwned, OpenInv, UseInv, OpenOutcome
<1>4. ReadInv' /\ ClosedMeansDrained'
  BY DEF AcceptedOpen, ValuesOK, ReadInv, ClosedMeansDrained
<1>5. WriteExact'
  BY DEF AcceptedOpen, ValuesOK, WriteExact
<1> QED
  BY <1>1, <1>2, <1>3, <1>4, <1>5

\* No step of an accepted stream leads into the connecting part of Open.
LEMMA AcceptedNoConnect ==
  pc \notin OpenSteps /\ [AcceptedNext]_vars => pc' \notin OpenSteps
<1> SUFFICES ASSUME pc \notin OpenSteps, [AcceptedNext]_vars PROVE pc' \notin OpenSteps
  OBVIOUS
<1> USE DEF OpenSteps, Return
<1>1. CASE AcceptedOpen
  BY <1>1 DEF AcceptedOpen
<1>2. CASE AcceptedClose
  BY <1>2 DEF AcceptedClose, CallClose, Destroy
<1>3. CASE AcceptedReadSome
  BY <1>3 DEF AcceptedReadSome, CallReadSome, ReadStep, ReadWait, RecvData, RecvEof,
              RecvError, RecvWouldBlock
<1>4. CASE AcceptedWriteAll
  BY <1>4 DEF AcceptedWriteAll, CallWriteAll, WriteStep, WriteWait, SendChunk,
              SendWouldBlock, SendBroken, SendFails
<1>5. CASE PeerSend \/ PeerClose \/ PeerReset
  BY <1>5 DEF PeerSend, PeerClose, PeerReset, code
<1>6. CASE UNCHANGED vars
  BY <1>6 DEF vars
<1> QED
  BY <1>1, <1>2, <1>3, <1>4, <1>5, <1>6 DEF AcceptedNext

\* Every step keeps the invariant.
LEMMA AcceptedNextInv == AcceptedInv /\ [AcceptedNext]_vars => AcceptedInv'
<1> SUFFICES ASSUME AcceptedInv, [AcceptedNext]_vars PROVE AcceptedInv'
  OBVIOUS
<1>0. IInv /\ pc \notin OpenSteps
  BY DEF AcceptedInv
<1>1. CASE AcceptedOpen
  BY <1>0, <1>1, AcceptedOpenIInv, AcceptedNoConnect DEF AcceptedInv
<1>2. CASE AcceptedClose
  <2>1. Caller
    BY <1>2 DEF AcceptedClose, Caller
  <2> QED
    BY <1>0, <2>1, CallerIInv, AcceptedNoConnect DEF AcceptedInv
<1>3. CASE AcceptedReadSome
  <2>1. Caller \/ ReadStep
    BY <1>3 DEF AcceptedReadSome, Caller
  <2> QED
    BY <1>0, <2>1, CallerIInv, ReadStepIInv, AcceptedNoConnect DEF AcceptedInv
<1>4. CASE AcceptedWriteAll
  <2>1. Caller \/ WriteStep
    BY <1>4 DEF AcceptedWriteAll, Caller
  <2> QED
    BY <1>0, <2>1, CallerIInv, WriteStepIInv, AcceptedNoConnect DEF AcceptedInv
<1>5. CASE PeerSend \/ PeerClose \/ PeerReset
  <2>1. Peer
    BY <1>5 DEF Peer
  <2> QED
    BY <1>0, <2>1, PeerIInv, AcceptedNoConnect DEF AcceptedInv
<1>6. CASE UNCHANGED vars
  BY <1>0, <1>6, StutterIInv, AcceptedNoConnect DEF AcceptedInv
<1> QED
  BY <1>1, <1>2, <1>3, <1>4, <1>5, <1>6 DEF AcceptedNext

\* The socket calls are made on an open stream, so no step of a closed one
\* opens it, and a closed stream owns no descriptor.
LEMMA ClosedStaysClosed ==
  AcceptedInv /\ AcceptedInv' /\ [AcceptedNext]_vars =>
    (~open_ => ~open_' /\ live' = {})
<1> SUFFICES ASSUME AcceptedInv, AcceptedInv', [AcceptedNext]_vars, ~open_
             PROVE  ~open_' /\ live' = {}
  OBVIOUS
<1>0. pc \notin ReadSteps \cup WriteSteps
  BY DEF AcceptedInv, IInv, UseInv
<1>1. ~open_'
  <2> USE DEF object
  <2>1. CASE AcceptedOpen
    BY <2>1 DEF AcceptedOpen
  <2>2. CASE AcceptedClose
    BY <2>2 DEF AcceptedClose, CallClose, Destroy, CloseSocket
  <2>3. CASE AcceptedReadSome
    BY <2>3, <1>0 DEF AcceptedReadSome, CallReadSome, ReadStep, ReadWait, RecvData, RecvEof,
                      RecvError, RecvWouldBlock, ReadSteps
  <2>4. CASE AcceptedWriteAll
    BY <2>4, <1>0 DEF AcceptedWriteAll, CallWriteAll, WriteStep, WriteWait, SendChunk,
                      SendWouldBlock, SendBroken, SendFails, WriteSteps
  <2>5. CASE PeerSend \/ PeerClose \/ PeerReset
    BY <2>5 DEF PeerSend, PeerClose, PeerReset, code
  <2>6. CASE UNCHANGED vars
    BY <2>6 DEF vars
  <2> QED
    BY <2>1, <2>2, <2>3, <2>4, <2>5, <2>6 DEF AcceptedNext
<1>2. pc' \notin CandidateSteps
  BY DEF AcceptedInv, OpenSteps, CandidateSteps
<1> QED
  BY <1>1, <1>2 DEF AcceptedInv, IInv, DescriptorsOwned

\* The inductive invariant of TcpStreamTransport holds of accepted streams.
THEOREM AcceptedInvariance == AcceptedSpec => []AcceptedInv
<1> QED
  BY AcceptedInitInv, AcceptedNextInv, PTL DEF AcceptedSpec

\* An accepted stream owns its descriptor from construction to its first close
\* and closes it once.
THEOREM AcceptedNoDescriptorLeak == AcceptedSpec => []DescriptorsOwned
<1>1. AcceptedInv => DescriptorsOwned
  BY DEF AcceptedInv, IInv
<1> QED
  BY <1>1, AcceptedInvariance, PTL

\* Reading and writing on an accepted stream lose, repeat and reorder nothing.
THEOREM AcceptedBytesExact == AcceptedSpec => [](ClosedMeansDrained /\ WriteExact)
<1>1. AcceptedInv => ClosedMeansDrained /\ WriteExact
  BY DEF AcceptedInv, IInv
<1> QED
  BY <1>1, AcceptedInvariance, PTL

\* A closed accepted stream is closed for good.
THEOREM AcceptedNeverReopens == AcceptedSpec => NeverReopens
<1>1. AcceptedSpec => []AcceptedInv /\ [][AcceptedNext]_vars
  BY AcceptedInvariance, PTL DEF AcceptedSpec
<1> QED
  BY <1>1, ClosedStaysClosed, PTL DEF NeverReopens

-----------------------------------------------------------------------------
(* The serial line *)

\* Open of a serial line that fails only returns a status.
LEMMA SerialRefusedIInv == IInv /\ SerialOpenRefused => IInv'
<1> SUFFICES ASSUME IInv, SerialOpenRefused PROVE IInv'
  OBVIOUS
<1> USE TcpStreamAssumption
    DEF IInv, TypeOK, Steps, OpenSteps, CandidateSteps, ReadSteps, WriteSteps,
        ConnStates, Ops, TransportStatus, object, openCall, writeCall, peer,
        Return, Result
<1>1. FlagsOK'
  BY DEF SerialOpenRefused, FlagsOK
<1>2. ValuesOK'
  BY DEF SerialOpenRefused, ValuesOK
<1>3. DescriptorsOwned' /\ OpenInv' /\ UseInv' /\ OpenOutcome'
  BY DEF SerialOpenRefused, FlagsOK, ValuesOK, DescriptorsOwned, OpenInv, UseInv, OpenOutcome
<1>4. ReadInv' /\ ClosedMeansDrained'
  BY DEF SerialOpenRefused, ValuesOK, ReadInv, ClosedMeansDrained
<1>5. WriteExact'
  BY DEF SerialOpenRefused, ValuesOK, WriteExact
<1> QED
  BY <1>1, <1>2, <1>3, <1>4, <1>5

\* Open of a serial line adopts the handle and starts a session.
LEMMA SerialOpensIInv == IInv /\ SerialOpens => IInv'
<1> SUFFICES ASSUME IInv, SerialOpens PROVE IInv'
  OBVIOUS
<1> USE TcpStreamAssumption
    DEF IInv, TypeOK, Steps, OpenSteps, CandidateSteps, ReadSteps, WriteSteps,
        ConnStates, Ops, TransportStatus, object, openCall, writeCall, peer,
        Return, Result
<1>1. FlagsOK'
  BY DEF SerialOpens, FlagsOK
<1>2. ValuesOK'
  BY EmptySeq DEF SerialOpens, ValuesOK
<1>3. DescriptorsOwned' /\ OpenInv' /\ UseInv' /\ OpenOutcome'
  BY DEF SerialOpens, FlagsOK, ValuesOK, DescriptorsOwned, OpenInv, UseInv, OpenOutcome
<1>4. ReadInv' /\ ClosedMeansDrained'
  BY DEF SerialOpens, ValuesOK, ReadInv, ClosedMeansDrained
<1>5. WriteExact'
  BY DEF SerialOpens, ValuesOK, WriteExact
<1> QED
  BY <1>1, <1>2, <1>3, <1>4, <1>5

\* A read of no bytes.
LEMMA ReadNothingIInv == IInv /\ ReadNothing => IInv'
<1> SUFFICES ASSUME IInv, ReadNothing PROVE IInv'
  OBVIOUS
<1> USE TcpStreamAssumption
    DEF IInv, TypeOK, Steps, OpenSteps, CandidateSteps, ReadSteps, WriteSteps,
        ConnStates, Ops, TransportStatus, object, openCall, writeCall, peer,
        Return, Result
<1>1. FlagsOK'
  BY DEF ReadNothing, FlagsOK
<1>2. ValuesOK'
  BY DEF ReadNothing, ValuesOK
<1>3. DescriptorsOwned' /\ OpenInv' /\ UseInv' /\ OpenOutcome'
  BY DEF ReadNothing, FlagsOK, ValuesOK, DescriptorsOwned, OpenInv, UseInv, OpenOutcome
<1>4. ReadInv' /\ ClosedMeansDrained'
  BY DEF ReadNothing, ValuesOK, ReadInv, ClosedMeansDrained
<1>5. WriteExact'
  BY DEF ReadNothing, ValuesOK, WriteExact
<1> QED
  BY <1>1, <1>2, <1>3, <1>4, <1>5

\* A read that fails.
LEMMA ReadFailsIInv == IInv /\ ReadFails => IInv'
<1> SUFFICES ASSUME IInv, ReadFails PROVE IInv'
  OBVIOUS
<1> USE TcpStreamAssumption
    DEF IInv, TypeOK, Steps, OpenSteps, CandidateSteps, ReadSteps, WriteSteps,
        ConnStates, Ops, TransportStatus, object, openCall, writeCall, peer,
        Return, Result
<1>1. FlagsOK'
  BY DEF ReadFails, FlagsOK
<1>2. ValuesOK'
  BY DEF ReadFails, ValuesOK
<1>3. DescriptorsOwned' /\ OpenInv' /\ UseInv' /\ OpenOutcome'
  BY DEF ReadFails, FlagsOK, ValuesOK, DescriptorsOwned, OpenInv, UseInv, OpenOutcome
<1>4. ReadInv' /\ ClosedMeansDrained'
  BY DEF ReadFails, ValuesOK, ReadInv, ClosedMeansDrained
<1>5. WriteExact'
  BY DEF ReadFails, ValuesOK, WriteExact
<1> QED
  BY <1>1, <1>2, <1>3, <1>4, <1>5

\* The steps of a stream that are not TcpStreamTransport's.
OwnStep == AcceptedOpen \/ SerialOpenRefused \/ SerialOpens \/ ReadNothing \/ ReadFails

\* Every other step of an accepted stream or a serial line is TcpStreamTransport's.
LEMMA StepsAreShared == StreamsNext => Next \/ OwnStep
<1> SUFFICES ASSUME StreamsNext PROVE Next \/ OwnStep
  OBVIOUS
<1>1. CASE AcceptedNext
  BY <1>1 DEF AcceptedNext, AcceptedClose, AcceptedReadSome, AcceptedWriteAll, Next, Caller,
              Peer, OwnStep
<1>2. CASE SerialNext
  <2>1. CASE SerialClose \/ SerialReadSome \/ SerialWriteAll
    BY <2>1 DEF SerialClose, SerialReadSome, SerialWriteAll, Caller, Next
  <2>2. CASE WaitForHandle \/ NativeRead
    BY <2>2 DEF WaitForHandle, NativeRead, ReadStep, WriteStep, Next, OwnStep
  <2>3. CASE NativeWriteAll \/ Device
    BY <2>3 DEF NativeWriteAll, Device, WriteStep, Peer, Next
  <2> QED
    BY <1>2, <2>1, <2>2, <2>3 DEF SerialNext, OwnStep
<1> QED
  BY <1>1, <1>2 DEF StreamsNext

\* These steps keep the invariants ...
LEMMA OwnStepInv == IInv /\ SessionInv /\ OwnStep => IInv' /\ SessionInv'
<1> SUFFICES ASSUME IInv, SessionInv, OwnStep PROVE IInv' /\ SessionInv'
  OBVIOUS
<1>1. IInv'
  BY AcceptedOpenIInv, SerialRefusedIInv, SerialOpensIInv, ReadNothingIInv, ReadFailsIInv
     DEF OwnStep
<1>2. SessionInv'
  BY DEF OwnStep, AcceptedOpen, SerialOpenRefused, SerialOpens, ReadNothing, ReadFails,
         SessionInv, CandidateSteps, WriteSteps, Return, object, openCall, writeCall, peer
<1> QED
  BY <1>1, <1>2

\* ... and are the contract's.
LEMMA OwnStepIsStream ==
  ASSUME IInv, SessionInv, OwnStep
  PROVE  Stream!Next
<1>0. /\ open_ \in BOOLEAN /\ UseInv /\ delivered \in Nat /\ peerSent \in Nat
      /\ delivered <= peerSent /\ MaxSize \in Nat
  BY TcpStreamAssumption DEF IInv, TypeOK, FlagsOK, ValuesOK, ReadInv
<1> USE DEF Return, object, openCall, writeCall, peer, WriteSteps
<1>1. CASE AcceptedOpen \/ SerialOpenRefused
  <2>1. Same /\ Up = open_
    BY <1>0, <1>1 DEF AcceptedOpen, SerialOpenRefused, Same, Sent, Up
  <2>2. CASE open_
    <3>1. ret' = Result("Open", "AlreadyOpen", 0)
      BY <1>1, <2>2 DEF AcceptedOpen, SerialOpenRefused
    <3> QED
      BY <2>1, <2>2, <3>1, Refused DEF TransportStatus
  <2>3. CASE ~open_
    <3>1. PICK st \in {"InvalidArgument", "OpenFailed"} : ret' = Result("Open", st, 0)
      BY <1>1, <2>3 DEF AcceptedOpen, SerialOpenRefused
    <3>2. Same /\ Up = FALSE
      BY <1>0, <2>1, <2>3
    <3>3. (st = "AlreadyOpen") = Up
      BY <3>2
    <3> QED
      BY <3>1, <3>2, <3>3, Refused DEF TransportStatus
  <2> QED
    BY <2>2, <2>3
<1>2. CASE SerialOpens
  <2>1. Stream!OpenOk
    BY <1>2 DEF SerialOpens, Up, Stream!OpenOk, Stream!Result, Result
  <2> QED
    BY <2>1 DEF Stream!Next
<1>3. CASE ReadNothing
  <2>1. Up /\ Up' /\ UNCHANGED <<peerSent, delivered, fin, conn, Sent>>
    BY <1>0, <1>3 DEF ReadNothing, UseInv, ReadSteps, Sent, Up
  <2>2. Stream!Read(0)
    BY <1>0, <1>3, <2>1 DEF ReadNothing, Stream!Read, Stream!Result, Result, Sent
  <2> QED
    BY <1>0, <2>2 DEF Stream!Next
<1>4. CASE ReadFails
  <2>1. Same /\ Up = TRUE
    BY <1>0, <1>4 DEF ReadFails, UseInv, ReadSteps, Same, Sent, Up
  <2> QED
    BY <1>4, <2>1, Refused DEF ReadFails, TransportStatus
<1> QED
  BY <1>1, <1>2, <1>3, <1>4 DEF OwnStep

-----------------------------------------------------------------------------
(* All the streams *)

StreamsInv ==
  /\ IInv
  /\ SessionInv
  /\ kind = "accepted" => pc \notin OpenSteps

\* Every stream starts with the invariant ...
LEMMA StreamsInitInv == StreamsInit => StreamsInv
<1> SUFFICES ASSUME StreamsInit PROVE StreamsInv
  OBVIOUS
<1>1. IInv /\ (kind = "accepted" => pc \notin OpenSteps)
  BY InitIInv, AcceptedInitInv DEF StreamsInit, SerialInit, AcceptedInv
<1>2. SessionInv
  BY DEF StreamsInit, Init, SerialInit, AcceptedInit, SessionInv, CandidateSteps, WriteSteps
<1> QED
  BY <1>1, <1>2 DEF StreamsInv

\* ... and keeps it.
LEMMA StreamsNextInv == StreamsInv /\ [StreamsNext]_streamVars => StreamsInv'
<1> SUFFICES ASSUME StreamsInv, [StreamsNext]_streamVars PROVE StreamsInv'
  OBVIOUS
<1>0. IInv /\ SessionInv /\ (kind = "accepted" => pc \notin OpenSteps)
  BY DEF StreamsInv
<1>1. [Next]_vars \/ OwnStep
  BY StepsAreShared DEF streamVars
<1>2. IInv' /\ SessionInv'
  BY <1>0, <1>1, NextIInv, SessionStep, OwnStepInv
<1>3. kind' = kind /\ (kind = "accepted" => [AcceptedNext]_vars)
  BY DEF StreamsNext, streamVars
<1> QED
  BY <1>0, <1>2, <1>3, AcceptedNoConnect DEF StreamsInv

\* The invariant holds of every stream, whichever its kind.
THEOREM StreamsInvariance == StreamsSpec => []StreamsInv
BY StreamsInitInv, StreamsNextInv, PTL DEF StreamsSpec

\* The safety invariants of TcpStreamTransport hold of accepted streams and of
\* serial lines too: types, descriptors, what Open reports, no byte lost before
\* the end of the stream is reported, and WriteAll's buffer sent exactly once.
THEOREM StreamsSafe ==
  StreamsSpec => [](TypeOK /\ DescriptorsOwned /\ OpenOutcome /\ ClosedMeansDrained /\ WriteExact)
<1>1. StreamsInv => TypeOK /\ DescriptorsOwned /\ OpenOutcome /\ ClosedMeansDrained /\ WriteExact
  BY DEF StreamsInv, IInv
<1> QED
  BY <1>1, StreamsInvariance, PTL

\* Whichever its kind, a stream implements the contract of IByteStream, but for
\* the status of a client's Open whose select failed: code written against
\* IByteStream may be given any of them.
THEOREM StreamsImplementByteStream == StreamsSpec => ImplementsByteStream
<1>1. StreamsInit => Stream!Init
  BY DEF StreamsInit, Init, SerialInit, AcceptedInit, Stream!Init, Stream!Session, Up,
         WriteSteps, NoResult, Result, Stream!NoResult, Stream!Result
<1>2. StreamsInv /\ [StreamsNext]_streamVars =>
        [Stream!Next \/ OpenReportsWriteFailed]_(Stream!vars)
  <2> SUFFICES ASSUME StreamsInv, [StreamsNext]_streamVars
               PROVE  [Stream!Next \/ OpenReportsWriteFailed]_(Stream!vars)
    OBVIOUS
  <2>1. [Next]_vars \/ OwnStep
    BY StepsAreShared DEF streamVars
  <2> QED
    BY <2>1, NextIsStream, OwnStepIsStream DEF StreamsInv
<1> QED
  BY <1>1, <1>2, StreamsInvariance, PTL DEF StreamsSpec, ImplementsByteStream

\* No step of an accepted stream or of a serial line is a client's Open.
LEMMA OnlyClientsConnect ==
  ASSUME StreamsInv, StreamsNext, OpenReportsWriteFailed
  PROVE  kind = "client"
<1>1. CASE kind = "accepted"
  BY <1>1 DEF StreamsInv, OpenReportsWriteFailed, OpenSteps
<1>2. CASE kind = "serial"
  <2>1. SerialNext /\ pc = "freeaddrinfo" /\ pc' = "idle"
    BY <1>2 DEF StreamsNext, OpenReportsWriteFailed
  <2>2. CASE SerialOpenRefused \/ SerialOpens \/ SerialClose
    BY <2>1, <2>2 DEF SerialOpenRefused, SerialOpens, SerialClose, CallClose, Destroy
  <2>3. CASE SerialReadSome \/ SerialWriteAll
    BY <2>1, <2>3 DEF SerialReadSome, SerialWriteAll, CallReadSome, CallWriteAll
  <2>4. CASE WaitForHandle \/ NativeRead
    BY <2>1, <2>4 DEF WaitForHandle, NativeRead, ReadWait, WriteWait, RecvData, ReadNothing,
                      ReadFails, RecvWouldBlock
  <2>5. CASE NativeWriteAll \/ Device
    BY <2>1, <2>5 DEF NativeWriteAll, SendChunk, SendWouldBlock, SendFails, Device, PeerSend,
                      PeerClose, code
  <2> QED
    BY <2>1, <2>2, <2>3, <2>4, <2>5 DEF SerialNext
<1> QED
  BY <1>1, <1>2 DEF StreamsNext

\* Accepted streams and serial lines implement the contract of IByteStream
\* exactly as the header states it, without exception.
THEOREM OthersKeepContract == StreamsSpec /\ [](kind # "client") => Stream!Spec
<1>1. StreamsInit => Stream!Init
  BY DEF StreamsInit, Init, SerialInit, AcceptedInit, Stream!Init, Stream!Session, Up,
         WriteSteps, NoResult, Result, Stream!NoResult, Stream!Result
<1>2. StreamsInv /\ [StreamsNext]_streamVars /\ kind # "client" => [Stream!Next]_(Stream!vars)
  <2> SUFFICES ASSUME StreamsInv, [StreamsNext]_streamVars, kind # "client"
               PROVE  [Stream!Next]_(Stream!vars)
    OBVIOUS
  <2>1. CASE UNCHANGED streamVars
    <3>1. Same /\ UNCHANGED ret
      BY <2>1 DEF streamVars, vars, object, writeCall, peer, Same, Sent, Up
    <3> QED
      BY <3>1, Unseen
  <2>2. CASE StreamsNext
    BY <2>2, StepsAreShared, NextIsStream, OwnStepIsStream, OnlyClientsConnect DEF StreamsInv
  <2> QED
    BY <2>1, <2>2
<1> QED
  BY <1>1, <1>2, StreamsInvariance, PTL DEF StreamsSpec, Stream!Spec

\* With the statuses the headers list for Open, every stream does.
THEOREM StreamsKeepContract == StreamsSpec /\ []OpenStatusDocumented => Stream!Spec
<1> QED
  BY StreamsImplementByteStream, DocumentedIsContract, PTL
     DEF ImplementsByteStream, Stream!Spec

\* Among the streams, an accepted one that is closed is closed for good.
THEOREM AcceptedStreamIsOnce == StreamsSpec => AcceptedIsOnce
<1>1. ASSUME StreamsInv, StreamsInv', [StreamsNext]_streamVars
      PROVE  [kind = "accepted" /\ ~open_ => ~open_' /\ live' = {}]_streamVars
  <2> SUFFICES ASSUME kind = "accepted", ~open_ PROVE ~open_' /\ live' = {}
    OBVIOUS
  <2>1. [AcceptedNext]_vars /\ kind' = kind
    BY <1>1 DEF StreamsNext, streamVars
  <2>2. AcceptedInv /\ AcceptedInv'
    BY <1>1, <2>1 DEF StreamsInv, AcceptedInv
  <2>3. ~open_ => ~open_' /\ live' = {}
    BY <2>1, <2>2, ClosedStaysClosed
  <2> QED
    BY <2>3
<1> QED
  BY <1>1, StreamsInvariance, PTL DEF StreamsSpec, AcceptedIsOnce
=============================================================================
