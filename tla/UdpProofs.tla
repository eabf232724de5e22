----------------------------- MODULE UdpProofs -----------------------------
(***************************************************************************)
(* UdpTransport's invariants, and that it implements the contract of       *)
(* IDatagramTransport, for every number of descriptors, addresses and      *)
(* datagrams and every size.                                               *)
(***************************************************************************)
EXTENDS Udp, SequenceTheorems, WellFoundedInduction, TLAPS

\* What holds at the steps of a call: an address is left to try and the stream
\* not open while Open tries one, a local address is left to bind while it binds,
\* and `bound' is set only from bind to the end of its loop; Send and Receive run
\* on an open one.
CallInv ==
  /\ pc \in OpenSteps \ {"freeaddrinfo"} => ~open_
  /\ pc \in {"socket"} \cup CandidateSteps => addresses >= 1
  /\ pc = "bind" => locals >= 1
  /\ bound => pc = "freeLocal"
  /\ pc = "connect" => HasRemote
  /\ pc \in {"receiveWait", "pendingSize", "recv", "sendWait", "send"} => open_

\* The connection and the sends of the session: an endpoint with a remote is open
\* only once connect succeeded, and has sent nothing before Open returns.
SessionInv ==
  /\ open_ /\ HasRemote => connected
  /\ pc \in CandidateSteps => sent = <<>>
  /\ pc = "freeaddrinfo" /\ open_ => sent = <<>>
  /\ pc \in {"sendWait", "send"} => Len(sent) < MaxSends

\* Datagrams are taken in order of arrival.
Ordered ==
  /\ \A i, j \in 1..Len(got) : i < j => got[i].id < got[j].id
  /\ \A i, j \in 1..Len(queue) : i < j => queue[i].id < queue[j].id
  /\ \A i \in 1..Len(got), j \in 1..Len(queue) : got[i].id < queue[j].id
  /\ \A i \in 1..Len(got) : got[i].id <= arrived
  /\ \A i \in 1..Len(queue) : queue[i].id <= arrived

\* What arrived was taken, is queued, or fails its checksum.
Accounted ==
  \A id \in 1..arrived : \/ id \in spoiled
                         \/ \E i \in 1..Len(got) : got[i].id = id
                         \/ \E i \in 1..Len(queue) : queue[i].id = id

\* Nothing is lost but what fails its checksum, and on a network that corrupts
\* nothing, nothing fails it.
Lossless ==
  /\ Accounted
  /\ \A i \in 1..Len(queue) : ~queue[i].good => queue[i].id \in spoiled
  /\ ~options_.corrupts => \A i \in 1..Len(queue) : queue[i].good

\* What select and FIONREAD found is still true when recv is called: an error is
\* pending, or the first datagram is there and fits.
RecvInv ==
  ~options_.corrupts =>
    /\ pc = "pendingSize" => Readable
    /\ pc = "recv" => soError \/ (queue # <<>> /\ Head(queue).size <= size)

IInv ==
  /\ TypeOK /\ DescriptorsOwned /\ CallInv /\ SessionInv
  /\ Ordered /\ Lossless /\ RecvInv
  /\ TooSmallIsTrue /\ WholeDatagrams /\ StrangersOnlyEarly

-----------------------------------------------------------------------------
(* The bounds, and the queue after the checksums *)

\* The bounds are naturals.
LEMMA Bounds ==
  /\ MaxAddresses \in Nat \ {0} /\ MaxSize \in Nat /\ MaxArrivals \in Nat /\ MaxSends \in Nat
  /\ kInvalidSocket \notin Descriptors
BY UdpAssumption

\* A set of positions that is not empty has a least one.
LEMMA LeastPosition ==
  ASSUME NEW S \in SUBSET Nat, S # {}
  PROVE  \E m \in S : \A i \in S : m <= i
<1> DEFINE R == OpToRel(<, Nat)
<1>1. PICK m \in S : \A i \in S : ~(<<i, m>> \in R)
  <2>1. IsWellFoundedOn(R, Nat)
    BY NatLessThanWellFounded
  <2> HIDE DEF R
  <2> QED
    BY <2>1, WFMin
<1>2. ASSUME NEW i \in S, i < m
      PROVE  <<i, m>> \in R
  BY <1>2 DEF OpToRel
<1> HIDE DEF R
<1>3. \A i \in S : ~(i < m)
  BY <1>1, <1>2, Zenon
<1> QED
  BY <1>3

\* What is left of the queue is an end of it, and what was dropped is bad.
LEMMA VerifiedIsEnd ==
  ASSUME queue \in Seq(Datagrams)
  PROVE  /\ Verified \in Seq(Datagrams)
         /\ \E k \in 0..Len(queue) :
              /\ Len(Verified) = Len(queue) - k
              /\ \A i \in 1..Len(Verified) : Verified[i] = queue[i + k]
              /\ \A i \in 1..k : ~queue[i].good
<1> DEFINE firstGood == {i \in 1..Len(queue) : queue[i].good
                                              /\ \A j \in 1..(i - 1) : ~queue[j].good}
<1>0. Len(queue) \in Nat
  BY LenProperties
<1>1. CASE firstGood = {}
  <2>1. Verified = <<>>
    BY <1>1 DEF Verified
  <2>2. <<>> \in Seq(Datagrams) /\ Len(<<>>) = 0
    BY EmptySeq
  <2>3. Len(queue) \in 0..Len(queue) /\ Len(Verified) = Len(queue) - Len(queue)
    BY <1>0, <2>1, <2>2
  <2>4. \A i \in 1..Len(queue) : ~queue[i].good
    <3> DEFINE S == {i \in 1..Len(queue) : queue[i].good}
    <3> SUFFICES ASSUME S # {} PROVE FALSE
      OBVIOUS
    <3>1. S \in SUBSET Nat
      BY <1>0
    <3>2. PICK m \in S : \A i \in S : m <= i
      <4> HIDE DEF S
      <4> QED
        BY <3>1, LeastPosition
    <3>3. ASSUME NEW j \in 1..(m - 1)
          PROVE  ~queue[j].good
      <4>1. j \in 1..Len(queue) /\ ~(m <= j)
        BY <1>0, <3>2
      <4> QED
        BY <3>2, <4>1
    <3>4. m \in firstGood
      BY <3>2, <3>3
    <3> QED
      BY <1>1, <3>4
  <2> QED
    BY <2>1, <2>2, <2>3, <2>4
<1>2. CASE firstGood # {}
  <2>1. PICK m \in 1..Len(queue) : /\ Verified = SubSeq(queue, m, Len(queue))
                                   /\ \A j \in 1..(m - 1) : ~queue[j].good
    <3> DEFINE m == CHOOSE i \in firstGood : TRUE
    <3>1. m \in firstGood
      BY <1>2
    <3>2. Verified = SubSeq(queue, m, Len(queue))
      BY <1>2 DEF Verified
    <3> QED
      BY <3>1, <3>2
  <2>2. \A i \in m..Len(queue) : queue[i] \in Datagrams
    BY <1>0, ElementOfSeq
  <2>3. /\ SubSeq(queue, m, Len(queue)) \in Seq(Datagrams)
        /\ Len(SubSeq(queue, m, Len(queue))) = IF m <= Len(queue) THEN Len(queue) - m + 1 ELSE 0
        /\ \A i \in 1..(Len(queue) - m + 1) : SubSeq(queue, m, Len(queue))[i] = queue[m + i - 1]
    BY <1>0, <2>2, SubSeqProperties
  <2>4. PICK k \in 0..Len(queue) : k = m - 1
    BY <1>0
  <2>5. Len(Verified) = Len(queue) - k
    BY <1>0, <2>1, <2>3, <2>4
  <2>6. ASSUME NEW i \in 1..Len(Verified)
        PROVE  Verified[i] = queue[i + k]
    <3>1. i \in 1..(Len(queue) - m + 1) /\ m + i - 1 = i + k
      BY <1>0, <2>4, <2>5
    <3> QED
      BY <2>1, <2>3, <3>1
  <2>7. \A i \in 1..k : ~queue[i].good
    BY <2>1, <2>4
  <2> QED
    BY <2>1, <2>3, <2>5, <2>6, <2>7
<1> QED
  BY <1>1, <1>2

\* A queue without bad checksums is left as it is.
LEMMA VerifiedIsAll ==
  ASSUME queue \in Seq(Datagrams), \A i \in 1..Len(queue) : queue[i].good
  PROVE  Verified = queue
<1> DEFINE firstGood == {i \in 1..Len(queue) : queue[i].good
                                              /\ \A j \in 1..(i - 1) : ~queue[j].good}
<1>0. Len(queue) \in Nat
  BY LenProperties
<1>1. CASE queue = <<>>
  <2>1. Len(queue) = 0
    BY <1>1, EmptySeq
  <2>2. firstGood = {}
    BY <2>1
  <2> QED
    BY <1>1, <2>2 DEF Verified
<1>2. CASE queue # <<>>
  <2>1. Len(queue) \in Nat \ {0}
    BY <1>2, EmptySeq
  <2>2. 1 \in 1..Len(queue) /\ 1..(1 - 1) = {}
    BY <2>1
  <2>3. \A i \in firstGood : i = 1
    <3> SUFFICES ASSUME NEW i \in firstGood, i # 1 PROVE FALSE
      OBVIOUS
    <3>1. 1 \in 1..(i - 1)
      BY <1>0
    <3> QED
      BY <2>2, <3>1
  <2>4. firstGood = {1}
    BY <2>2, <2>3
  <2>5. Verified = SubSeq(queue, 1, Len(queue))
    BY <2>4 DEF Verified
  <2> QED
    BY <2>5, SubSeqFull
<1> QED
  BY <1>1, <1>2
-----------------------------------------------------------------------------
(* Control: the flags, the descriptors and the steps of a call *)

\* Initially.
LEMMA InitIInv == Init => IInv
<1> SUFFICES ASSUME Init PROVE IInv
  OBVIOUS
<1>1. FlagsOK
  BY DEF Init, FlagsOK
<1>2. ValuesOK
  BY Bounds DEF Init, ValuesOK, Steps, Ops, NoResult, Result, TransportStatus
<1>3. TrafficOK
  BY Bounds, EmptySeq DEF Init, TrafficOK
<1>4. DescriptorsOwned /\ CallInv /\ SessionInv
  BY DEF Init, DescriptorsOwned, CallInv, SessionInv, OpenSteps, CandidateSteps, HasRemote
<1>5. Len(got) = 0 /\ Len(queue) = 0 /\ Range(queue) = {} /\ Range(got) = {}
  BY DEF Init, Range
<1>6. Ordered /\ Lossless
  BY <1>5 DEF Init, Ordered, Lossless, Accounted
<1>7. RecvInv /\ TooSmallIsTrue
  BY DEF Init, RecvInv, TooSmallIsTrue, NoResult, Result
<1>8. WholeDatagrams /\ StrangersOnlyEarly
  BY <1>5 DEF Init, WholeDatagrams, NeverTruncates, StrangersOnlyEarly
<1> QED
  BY <1>1, <1>2, <1>3, <1>4, <1>6, <1>7, <1>8 DEF IInv, TypeOK

\* Every action keeps the flags, the descriptors and the steps in order.
LEMMA ControlStep ==
  ASSUME IInv, [Next]_vars
  PROVE  FlagsOK' /\ ValuesOK' /\ DescriptorsOwned' /\ CallInv'
<1> USE Bounds DEF IInv, TypeOK, Steps, OpenSteps, CandidateSteps, Ops, TransportStatus,
                   object, openCall, local, filter, net, Return, Result, HasRemote
<1>1. CASE CallOpen
  <2>1. FlagsOK'
    BY <1>1 DEF CallOpen, FlagsOK
  <2>2. ValuesOK'
    BY <1>1 DEF CallOpen, ValuesOK, FlagsOK, CallInv, DescriptorsOwned, TrafficOK
  <2>3. DescriptorsOwned' /\ CallInv'
    BY <1>1 DEF CallOpen, ValuesOK, FlagsOK, CallInv, DescriptorsOwned
  <2> QED
    BY <2>1, <2>2, <2>3
<1>2. CASE Resolve
  <2>1. FlagsOK'
    BY <1>2 DEF Resolve, FlagsOK
  <2>2. ValuesOK'
    BY <1>2 DEF Resolve, ValuesOK, FlagsOK, CallInv, DescriptorsOwned, TrafficOK
  <2>3. DescriptorsOwned' /\ CallInv'
    BY <1>2 DEF Resolve, ValuesOK, FlagsOK, CallInv, DescriptorsOwned
  <2> QED
    BY <2>1, <2>2, <2>3
<1>3. CASE SocketFails
  <2>1. FlagsOK'
    BY <1>3 DEF SocketFails, NextAddress, FlagsOK
  <2>2. ValuesOK'
    BY <1>3 DEF SocketFails, NextAddress, ValuesOK, FlagsOK, CallInv, DescriptorsOwned,
       TrafficOK
  <2>3. DescriptorsOwned' /\ CallInv'
    BY <1>3 DEF SocketFails, NextAddress, ValuesOK, FlagsOK, CallInv, DescriptorsOwned
  <2> QED
    BY <2>1, <2>2, <2>3
<1>4. CASE CreateSocket
  <2>1. FlagsOK'
    BY <1>4 DEF CreateSocket, FlagsOK
  <2>2. ValuesOK'
    BY <1>4 DEF CreateSocket, ValuesOK, FlagsOK, CallInv, DescriptorsOwned, TrafficOK
  <2>3. DescriptorsOwned' /\ CallInv'
    BY <1>4 DEF CreateSocket, ValuesOK, FlagsOK, CallInv, DescriptorsOwned
  <2> QED
    BY <2>1, <2>2, <2>3
<1>5. CASE SetNonBlocking
  <2>1. FlagsOK'
    BY <1>5 DEF SetNonBlocking, GiveUpCandidate, NextAddress, FlagsOK
  <2>2. ValuesOK'
    BY <1>5 DEF SetNonBlocking, GiveUpCandidate, NextAddress, ValuesOK, FlagsOK, CallInv,
       DescriptorsOwned, TrafficOK
  <2>3. DescriptorsOwned' /\ CallInv'
    BY <1>5 DEF SetNonBlocking, GiveUpCandidate, NextAddress, ValuesOK, FlagsOK, CallInv,
       DescriptorsOwned
  <2> QED
    BY <2>1, <2>2, <2>3
<1>6. CASE ResolveLocal
  <2>1. FlagsOK'
    BY <1>6 DEF ResolveLocal, GiveUpCandidate, NextAddress, FlagsOK
  <2>2. ValuesOK'
    BY <1>6 DEF ResolveLocal, GiveUpCandidate, NextAddress, ValuesOK, FlagsOK, CallInv,
       DescriptorsOwned, TrafficOK
  <2>3. DescriptorsOwned' /\ CallInv'
    BY <1>6 DEF ResolveLocal, GiveUpCandidate, NextAddress, ValuesOK, FlagsOK, CallInv,
       DescriptorsOwned
  <2> QED
    BY <2>1, <2>2, <2>3
<1>6a. CASE BindLocal
  <2>1. FlagsOK'
    BY <1>6a DEF BindLocal, FlagsOK
  <2>2. ValuesOK'
    BY <1>6a DEF BindLocal, ValuesOK, FlagsOK, CallInv, DescriptorsOwned, TrafficOK
  <2>3. DescriptorsOwned' /\ CallInv'
    BY <1>6a DEF BindLocal, ValuesOK, FlagsOK, CallInv, DescriptorsOwned
  <2> QED
    BY <2>1, <2>2, <2>3
<1>6b. CASE FreeLocal
  <2>1. FlagsOK'
    BY <1>6b DEF FreeLocal, AfterBind, GiveUpCandidate, NextAddress, AdoptCandidate, FlagsOK
  <2>2. ValuesOK'
    BY <1>6b DEF FreeLocal, AfterBind, GiveUpCandidate, NextAddress, AdoptCandidate, ValuesOK,
       FlagsOK, CallInv, DescriptorsOwned, TrafficOK
  <2>3. DescriptorsOwned' /\ CallInv'
    <3>1. CASE GiveUpCandidate
      BY <1>6b, <3>1 DEF FreeLocal, GiveUpCandidate, NextAddress, ValuesOK, FlagsOK, CallInv,
                         DescriptorsOwned
    <3>2. CASE HasRemote /\ pc' = "connect" /\ UNCHANGED <<object, addresses, live>>
      BY <1>6b, <3>2 DEF FreeLocal, ValuesOK, FlagsOK, CallInv, DescriptorsOwned
    <3>3. CASE ~HasRemote /\ AdoptCandidate
      <4>1. live = {candidate} /\ candidate \in Descriptors /\ lists = 1 /\ localLists = 1
        BY <1>6b DEF FreeLocal, ValuesOK, DescriptorsOwned
      <4>2. CallInv'
        BY <1>6b, <3>3 DEF FreeLocal, AdoptCandidate, CallInv
      <4>3. /\ socket_' = candidate /\ lists' = 1 /\ localLists' = 0
            /\ live' = {candidate} /\ pc' = "freeaddrinfo"
        BY <1>6b, <3>3, <4>1 DEF FreeLocal, AdoptCandidate
      <4>4. open_' = TRUE
        BY <3>3 DEF AdoptCandidate
      <4>5. remoteConfigured_' = HasRemote /\ ~HasRemote /\ HasRemote' = HasRemote
        BY <3>3 DEF AdoptCandidate, HasRemote
      <4>6. ~remoteConfigured_' /\ ~HasRemote'
        BY <4>5, Zenon
      <4>7. DescriptorsOwned'
        BY <4>1, <4>3, <4>4, <4>6 DEF DescriptorsOwned
      <4> QED
        BY <4>2, <4>7
    <3> QED
      BY <1>6b, <3>1, <3>2, <3>3 DEF FreeLocal, AfterBind
  <2> QED
    BY <2>1, <2>2, <2>3
<1>7. CASE Connect
  <2>1. FlagsOK'
    BY <1>7 DEF Connect, GiveUpCandidate, NextAddress, AdoptCandidate, FlagsOK
  <2>2. ValuesOK'
    BY <1>7 DEF Connect, GiveUpCandidate, NextAddress, AdoptCandidate, ValuesOK, FlagsOK,
       CallInv, DescriptorsOwned, TrafficOK
  <2>3. DescriptorsOwned' /\ CallInv'
    <3>1. CASE GiveUpCandidate
      BY <1>7, <3>1 DEF Connect, GiveUpCandidate, NextAddress, ValuesOK, FlagsOK, CallInv,
                        DescriptorsOwned
    <3>2. CASE AdoptCandidate
      BY <1>7, <3>2 DEF Connect, AdoptCandidate, ValuesOK, FlagsOK, CallInv, DescriptorsOwned
    <3> QED
      BY <1>7, <3>1, <3>2 DEF Connect
  <2> QED
    BY <2>1, <2>2, <2>3
<1>8. CASE FreeAddrInfo
  <2>1. FlagsOK'
    BY <1>8 DEF FreeAddrInfo, FlagsOK
  <2>2. ValuesOK'
    BY <1>8 DEF FreeAddrInfo, ValuesOK, FlagsOK, CallInv, DescriptorsOwned, TrafficOK
  <2>3. DescriptorsOwned' /\ CallInv'
    BY <1>8 DEF FreeAddrInfo, ValuesOK, FlagsOK, CallInv, DescriptorsOwned
  <2> QED
    BY <2>1, <2>2, <2>3
<1>9. CASE CallClose
  <2>1. FlagsOK'
    BY <1>9 DEF CallClose, CloseSocket, FlagsOK
  <2>2. ValuesOK'
    BY <1>9 DEF CallClose, CloseSocket, ValuesOK, FlagsOK, CallInv, DescriptorsOwned, TrafficOK
  <2>3. DescriptorsOwned' /\ CallInv'
    BY <1>9 DEF CallClose, CloseSocket, ValuesOK, FlagsOK, CallInv, DescriptorsOwned
  <2> QED
    BY <2>1, <2>2, <2>3
<1>10. ASSUME NEW m \in 0..MaxSize, NEW isNull \in BOOLEAN, CallSend(m, isNull)
      PROVE  FlagsOK' /\ ValuesOK' /\ DescriptorsOwned' /\ CallInv'
  <2>1. FlagsOK'
    BY <1>10 DEF CallSend, FlagsOK
  <2>2. ValuesOK'
    BY <1>10 DEF CallSend, ValuesOK, FlagsOK, CallInv, DescriptorsOwned, TrafficOK
  <2>3. DescriptorsOwned' /\ CallInv'
    BY <1>10 DEF CallSend, ValuesOK, FlagsOK, CallInv, DescriptorsOwned
  <2> QED
    BY <2>1, <2>2, <2>3
<1>11. CASE SendWait
  <2>1. FlagsOK'
    BY <1>11 DEF SendWait, FlagsOK
  <2>2. ValuesOK'
    BY <1>11 DEF SendWait, ValuesOK, FlagsOK, CallInv, DescriptorsOwned, TrafficOK
  <2>3. DescriptorsOwned' /\ CallInv'
    BY <1>11 DEF SendWait, ValuesOK, FlagsOK, CallInv, DescriptorsOwned
  <2> QED
    BY <2>1, <2>2, <2>3
<1>12. CASE SendDatagram
  <2>1. FlagsOK'
    BY <1>12 DEF SendDatagram, FlagsOK
  <2>2. ValuesOK'
    BY <1>12 DEF SendDatagram, ValuesOK, FlagsOK, CallInv, DescriptorsOwned, TrafficOK
  <2>3. DescriptorsOwned' /\ CallInv'
    BY <1>12 DEF SendDatagram, ValuesOK, FlagsOK, CallInv, DescriptorsOwned
  <2> QED
    BY <2>1, <2>2, <2>3
<1>13. CASE SendRefused
  <2>1. FlagsOK'
    BY <1>13 DEF SendRefused, FlagsOK
  <2>2. ValuesOK'
    BY <1>13 DEF SendRefused, ValuesOK, FlagsOK, CallInv, DescriptorsOwned, TrafficOK
  <2>3. DescriptorsOwned' /\ CallInv'
    BY <1>13 DEF SendRefused, ValuesOK, FlagsOK, CallInv, DescriptorsOwned
  <2> QED
    BY <2>1, <2>2, <2>3
<1>14. ASSUME NEW m \in 0..MaxSize, NEW isNull \in BOOLEAN, CallReceive(m, isNull)
      PROVE  FlagsOK' /\ ValuesOK' /\ DescriptorsOwned' /\ CallInv'
  <2>1. FlagsOK'
    BY <1>14 DEF CallReceive, FlagsOK
  <2>2. ValuesOK'
    BY <1>14 DEF CallReceive, ValuesOK, FlagsOK, CallInv, DescriptorsOwned, TrafficOK
  <2>3. DescriptorsOwned' /\ CallInv'
    BY <1>14 DEF CallReceive, ValuesOK, FlagsOK, CallInv, DescriptorsOwned
  <2> QED
    BY <2>1, <2>2, <2>3
<1>15. CASE ReceiveWait
  <2>1. FlagsOK'
    BY <1>15 DEF ReceiveWait, FlagsOK
  <2>2. ValuesOK'
    BY <1>15 DEF ReceiveWait, ValuesOK, FlagsOK, CallInv, DescriptorsOwned, TrafficOK
  <2>3. DescriptorsOwned' /\ CallInv'
    BY <1>15 DEF ReceiveWait, ValuesOK, FlagsOK, CallInv, DescriptorsOwned
  <2> QED
    BY <2>1, <2>2, <2>3
<1>16. CASE PendingSize
  <2>1. FlagsOK'
    BY <1>16 DEF PendingSize, FlagsOK
  <2>2. ValuesOK'
    BY <1>16 DEF PendingSize, ValuesOK, FlagsOK, CallInv, DescriptorsOwned, TrafficOK
  <2>3. DescriptorsOwned' /\ CallInv'
    BY <1>16 DEF PendingSize, ValuesOK, FlagsOK, CallInv, DescriptorsOwned
  <2> QED
    BY <2>1, <2>2, <2>3
<1>17. CASE RecvDatagram
  <2>1. FlagsOK'
    BY <1>17 DEF RecvDatagram, FlagsOK
  <2>2. ValuesOK'
    <3>1. Head(Verified) \in Datagrams
      BY <1>17, VerifiedIsEnd, HeadTailProperties DEF RecvDatagram, TrafficOK
    <3>2. Head(Verified).size \in 0..MaxSize
      BY <3>1 DEF Datagrams
    <3>3. size \in 0..MaxSize
      BY DEF ValuesOK
    <3>4. PICK n \in 0..MaxSize : ret' = Result("Receive", "Ok", n)
      BY <1>17, <3>2, <3>3 DEF RecvDatagram
    <3> QED
      BY <1>17, <3>4 DEF RecvDatagram, ValuesOK
  <2>3. DescriptorsOwned' /\ CallInv'
    BY <1>17 DEF RecvDatagram, ValuesOK, FlagsOK, CallInv, DescriptorsOwned
  <2> QED
    BY <2>1, <2>2, <2>3
<1>18. CASE RecvError
  <2>1. FlagsOK'
    BY <1>18 DEF RecvError, FlagsOK
  <2>2. ValuesOK'
    BY <1>18 DEF RecvError, ValuesOK, FlagsOK, CallInv, DescriptorsOwned, TrafficOK
  <2>3. DescriptorsOwned' /\ CallInv'
    BY <1>18 DEF RecvError, ValuesOK, FlagsOK, CallInv, DescriptorsOwned
  <2> QED
    BY <2>1, <2>2, <2>3
<1>19. CASE RecvWouldBlock
  <2>1. FlagsOK'
    BY <1>19 DEF RecvWouldBlock, FlagsOK
  <2>2. ValuesOK'
    BY <1>19 DEF RecvWouldBlock, ValuesOK, FlagsOK, CallInv, DescriptorsOwned, TrafficOK
  <2>3. DescriptorsOwned' /\ CallInv'
    BY <1>19 DEF RecvWouldBlock, ValuesOK, FlagsOK, CallInv, DescriptorsOwned
  <2> QED
    BY <2>1, <2>2, <2>3
<1>20. CASE Arrive
  <2>1. FlagsOK'
    BY <1>20 DEF Arrive, FlagsOK
  <2>2. ValuesOK'
    BY <1>20 DEF Arrive, ValuesOK, FlagsOK, CallInv, DescriptorsOwned, TrafficOK
  <2>3. DescriptorsOwned' /\ CallInv'
    BY <1>20 DEF Arrive, ValuesOK, FlagsOK, CallInv, DescriptorsOwned
  <2> QED
    BY <2>1, <2>2, <2>3
<1>21. CASE IcmpError
  <2>1. FlagsOK'
    BY <1>21 DEF IcmpError, FlagsOK
  <2>2. ValuesOK'
    BY <1>21 DEF IcmpError, ValuesOK, FlagsOK, CallInv, DescriptorsOwned, TrafficOK
  <2>3. DescriptorsOwned' /\ CallInv'
    BY <1>21 DEF IcmpError, ValuesOK, FlagsOK, CallInv, DescriptorsOwned
  <2> QED
    BY <2>1, <2>2, <2>3
<1>22. CASE UNCHANGED vars
  BY <1>22 DEF vars, FlagsOK, ValuesOK, DescriptorsOwned, CallInv
<1> QED
  BY <1>1, <1>2, <1>3, <1>4, <1>5, <1>6, <1>6a, <1>6b, <1>7, <1>8, <1>9, <1>10, <1>11,
     <1>12, <1>13, <1>14, <1>15, <1>16, <1>17, <1>18, <1>19, <1>20, <1>21, <1>22 DEF Next

-----------------------------------------------------------------------------
(* The session *)

\* The session: connected before it is open, nothing sent before Open returns.
LEMMA SessionStep ==
  ASSUME IInv, [Next]_vars
  PROVE  SessionInv' /\ sent' \in Seq(0..MaxSize) /\ Len(sent') <= MaxSends
<1>0. /\ SessionInv /\ CallInv /\ sent \in Seq(0..MaxSize) /\ Len(sent) <= MaxSends
      /\ Len(sent) \in Nat /\ size \in 0..MaxSize
      /\ <<>> \in Seq(0..MaxSize) /\ Len(<<>>) = 0 /\ 0 <= MaxSends
  BY Bounds, EmptySeq, LenProperties DEF IInv, TypeOK, TrafficOK, ValuesOK
<1> USE <1>0 DEF SessionInv, CallInv, OpenSteps, CandidateSteps, HasRemote, object, openCall,
                 local, filter, net, Return
<1>1. CASE CallOpen \/ Resolve \/ SocketFails
  BY <1>1 DEF CallOpen, Resolve, SocketFails, NextAddress
<1>2. CASE CreateSocket
  BY <1>2 DEF CreateSocket
<1>3. CASE SetNonBlocking
  BY <1>3 DEF SetNonBlocking, GiveUpCandidate, NextAddress
<1>4. CASE ResolveLocal \/ BindLocal \/ FreeLocal
  <2>1. CASE ResolveLocal \/ BindLocal
    BY <2>1 DEF ResolveLocal, BindLocal, GiveUpCandidate, NextAddress
  <2>2. CASE FreeLocal
    BY <2>2 DEF FreeLocal, AfterBind, GiveUpCandidate, NextAddress, AdoptCandidate
  <2> QED
    BY <1>4, <2>1, <2>2
<1>5. CASE Connect
  <2>1. CASE GiveUpCandidate
    BY <1>5, <2>1 DEF Connect, GiveUpCandidate, NextAddress
  <2>2. CASE AdoptCandidate /\ connected' = TRUE
    BY <1>5, <2>2 DEF Connect, AdoptCandidate
  <2> QED
    BY <1>5, <2>1, <2>2 DEF Connect
<1>6. CASE FreeAddrInfo \/ CallClose
  BY <1>6 DEF FreeAddrInfo, CallClose, CloseSocket
<1>7. ASSUME NEW m \in 0..MaxSize, NEW isNull \in BOOLEAN, CallSend(m, isNull)
      PROVE  SessionInv' /\ sent' \in Seq(0..MaxSize) /\ Len(sent') <= MaxSends
  BY <1>7 DEF CallSend
<1>8. CASE SendWait \/ SendRefused
  BY <1>8 DEF SendWait, SendRefused
<1>9. CASE SendDatagram
  <2>1. sent' \in Seq(0..MaxSize) /\ Len(sent') = Len(sent) + 1
    BY <1>9, AppendProperties DEF SendDatagram
  <2>2. Len(sent') <= MaxSends
    BY <1>9, <2>1, Bounds DEF SendDatagram
  <2> QED
    BY <1>9, <2>1, <2>2 DEF SendDatagram
<1>10. ASSUME NEW m \in 0..MaxSize, NEW isNull \in BOOLEAN, CallReceive(m, isNull)
       PROVE  SessionInv' /\ sent' \in Seq(0..MaxSize) /\ Len(sent') <= MaxSends
  BY <1>10 DEF CallReceive
<1>11. CASE ReceiveWait \/ PendingSize
  BY <1>11 DEF ReceiveWait, PendingSize
<1>12. CASE RecvDatagram \/ RecvError \/ RecvWouldBlock
  BY <1>12 DEF RecvDatagram, RecvError, RecvWouldBlock
<1>13. CASE Arrive \/ IcmpError
  BY <1>13 DEF Arrive, IcmpError
<1>14. CASE UNCHANGED vars
  BY <1>14 DEF vars
<1> QED
  BY <1>1, <1>2, <1>3, <1>4, <1>5, <1>6, <1>7, <1>8, <1>9, <1>10, <1>11, <1>12, <1>13, <1>14
     DEF Next

-----------------------------------------------------------------------------
(* The datagrams *)

Received == [id : 1..MaxArrivals, size : 0..MaxSize, n : 0..MaxSize, peer : BOOLEAN]

\* What is said of the datagrams that arrived.
Conserved ==
  /\ queue \in Seq(Datagrams) /\ got \in Seq(Received)
  /\ arrived \in 0..MaxArrivals /\ spoiled \subseteq 1..arrived
  /\ Ordered /\ Lossless /\ WholeDatagrams

\* The traffic of an open endpoint with a remote.
Heard == \A d \in Range(queue) \cup Range(got) : ~d.peer => d.id <= early

\* The elements of the two sequences.
LEMMA HeardByIndex ==
  ASSUME queue \in Seq(Datagrams), got \in Seq(Received)
  PROVE  Heard <=> /\ \A i \in 1..Len(queue) : ~queue[i].peer => queue[i].id <= early
                   /\ \A i \in 1..Len(got) : ~got[i].peer => got[i].id <= early
<1>1. DOMAIN queue = 1..Len(queue) /\ DOMAIN got = 1..Len(got)
  BY LenProperties
<1> QED
  BY <1>1 DEF Heard, Range

\* Dropping what failed its checksum keeps the order and, where nothing fails,
\* everything.
LEMMA DropBad ==
  ASSUME Conserved, queue' = Verified, UNCHANGED <<got, arrived, spoiled, options_>>
  PROVE  Conserved' /\ (Heard /\ early' = early => Heard')
<1>0. Len(queue) \in Nat /\ queue \in Seq(Datagrams) /\ got \in Seq(Received)
  BY LenProperties DEF Conserved
<1>1. queue' \in Seq(Datagrams)
  BY <1>0, VerifiedIsEnd
<1>2. PICK k \in 0..Len(queue) :
        /\ Len(queue') = Len(queue) - k /\ \A i \in 1..Len(queue') : queue'[i] = queue[i + k]
        /\ \A i \in 1..k : ~queue[i].good
  BY <1>0, VerifiedIsEnd
<1>3. \A i \in 1..Len(queue') : i + k \in 1..Len(queue)
  BY <1>0, <1>2
<1>4. \A i, j \in 1..Len(queue') : i < j => i + k < j + k
  BY <1>0, <1>1, <1>2, LenProperties
<1>5. Ordered'
  <2>0. Ordered
    BY DEF Conserved
  <2>1. ASSUME NEW i \in 1..Len(queue'), NEW j \in 1..Len(queue'), i < j
        PROVE  queue'[i].id < queue'[j].id
    BY <1>2, <1>3, <1>4, <2>0, <2>1 DEF Ordered
  <2>2. ASSUME NEW i \in 1..Len(got), NEW j \in 1..Len(queue')
        PROVE  got[i].id < queue'[j].id
    BY <1>2, <1>3, <2>0 DEF Ordered
  <2>3. ASSUME NEW i \in 1..Len(queue')
        PROVE  queue'[i].id <= arrived
    BY <1>2, <1>3, <2>0 DEF Ordered
  <2> QED
    BY <2>0, <2>1, <2>2, <2>3 DEF Ordered
<1>6. Lossless'
  <2>1. ~options_.corrupts => queue' = queue
    BY <1>0, VerifiedIsAll DEF Conserved, Lossless
  <2>2. \A i \in 1..Len(queue') : ~queue'[i].good => queue'[i].id \in spoiled
    BY <1>2, <1>3 DEF Conserved, Lossless
  <2>3. ASSUME NEW id \in 1..arrived, id \notin spoiled, NEW i \in 1..Len(queue),
               queue[i].id = id
        PROVE  \E j \in 1..Len(queue') : queue'[j].id = id
    <3>1. queue[i].good
      BY <2>3 DEF Conserved, Lossless
    <3>2. i \notin 1..k
      BY <1>2, <3>1
    <3>3. i - k \in 1..Len(queue') /\ (i - k) + k = i
      BY <1>0, <1>2, <3>2
    <3> QED
      BY <1>2, <2>3, <3>3
  <2>4. Accounted'
    BY <2>3 DEF Conserved, Lossless, Accounted
  <2> QED
    BY <2>1, <2>2, <2>4 DEF Conserved, Lossless
<1>7. Heard /\ early' = early => Heard'
  <2> SUFFICES ASSUME Heard, early' = early PROVE Heard'
    OBVIOUS
  <2>1. \A i \in 1..Len(queue) : ~queue[i].peer => queue[i].id <= early
    BY <1>0, HeardByIndex
  <2>2. \A i \in 1..Len(got) : ~got[i].peer => got[i].id <= early
    BY <1>0, HeardByIndex
  <2>3. \A i \in 1..Len(queue') : ~queue'[i].peer => queue'[i].id <= early
    BY <1>2, <1>3, <2>1
  <2>4. DOMAIN queue' = 1..Len(queue') /\ DOMAIN got = 1..Len(got)
    BY <1>0, <1>1, LenProperties
  <2> QED
    BY <2>2, <2>3, <2>4 DEF Heard, Range
<1> QED
  BY <1>1, <1>5, <1>6, <1>7 DEF Conserved, WholeDatagrams, NeverTruncates

\* A datagram that arrives is the last of the queue.
LEMMA QueueLast ==
  ASSUME Conserved, arrived < MaxArrivals, NEW d \in Datagrams, d.id = arrived + 1,
         d.good \/ options_.corrupts,
         queue' = Append(queue, d), arrived' = arrived + 1, UNCHANGED <<got, options_>>,
         spoiled' = IF d.good THEN spoiled ELSE spoiled \cup {arrived + 1}
  PROVE  Conserved' /\ (Heard /\ early' = early /\ d.peer => Heard')
<1>0. /\ Len(queue) \in Nat /\ queue \in Seq(Datagrams) /\ got \in Seq(Received)
      /\ Len(got) \in Nat /\ arrived \in Nat /\ MaxArrivals \in Nat
      /\ arrived \in 0..MaxArrivals
  BY Bounds, LenProperties DEF Conserved
<1>1. /\ queue' \in Seq(Datagrams) /\ Len(queue') = Len(queue) + 1
      /\ \A i \in 1..Len(queue) : queue'[i] = queue[i]
      /\ queue'[Len(queue) + 1] = d
  BY <1>0, AppendProperties
<1>2. \A i \in 1..Len(queue') : i \in 1..Len(queue) \/ i = Len(queue) + 1
  BY <1>0, <1>1
<1>3. /\ \A i \in 1..Len(queue) : queue[i].id \in Nat /\ queue[i].id <= arrived
      /\ \A i \in 1..Len(got) : got[i].id \in Nat /\ got[i].id <= arrived
  <2>1. \A i \in 1..Len(queue) : queue[i] \in Datagrams
    BY <1>0, ElementOfSeq
  <2>2. \A i \in 1..Len(got) : got[i] \in Received
    BY <1>0, ElementOfSeq
  <2>3. 1..MaxArrivals \subseteq Nat
    BY <1>0
  <2>4. \A i \in 1..Len(queue) : queue[i].id \in Nat
    BY <2>1, <2>3 DEF Datagrams
  <2>5. \A i \in 1..Len(got) : got[i].id \in Nat
    BY <2>2, <2>3 DEF Received
  <2> QED
    BY <2>4, <2>5 DEF Conserved, Ordered
<1>4. Ordered'
  <2>1. \A i, j \in 1..Len(got) : i < j => got[i].id < got[j].id
    BY DEF Conserved, Ordered
  <2>2. ASSUME NEW i \in 1..Len(queue'), NEW j \in 1..Len(queue'), i < j
        PROVE  queue'[i].id < queue'[j].id
    <3>1. i \in 1..Len(queue)
      BY <1>0, <1>1, <2>2
    <3>2. CASE j \in 1..Len(queue)
      BY <1>1, <2>2, <3>1, <3>2 DEF Conserved, Ordered
    <3>3. CASE j = Len(queue) + 1
      <4>1. queue'[i] = queue[i] /\ queue'[j] = d
        BY <1>1, <3>1, <3>3
      <4> QED
        BY <1>0, <1>3, <3>1, <4>1
    <3> QED
      BY <1>2, <3>2, <3>3
  <2>3. ASSUME NEW i \in 1..Len(got), NEW j \in 1..Len(queue')
        PROVE  got[i].id < queue'[j].id
    <3>1. CASE j \in 1..Len(queue)
      BY <1>1, <3>1 DEF Conserved, Ordered
    <3>2. CASE j = Len(queue) + 1
      <4>1. queue'[j] = d
        BY <1>1, <3>2
      <4> QED
        BY <1>0, <1>3, <4>1
    <3> QED
      BY <1>2, <3>1, <3>2
  <2>4. ASSUME NEW i \in 1..Len(queue')
        PROVE  queue'[i].id <= arrived'
    <3>1. CASE i \in 1..Len(queue)
      <4>1. queue'[i] = queue[i]
        BY <1>1, <3>1
      <4> QED
        BY <1>0, <1>3, <3>1, <4>1
    <3>2. CASE i = Len(queue) + 1
      BY <1>0, <1>1, <3>2
    <3> QED
      BY <1>2, <3>1, <3>2
  <2>5. \A i \in 1..Len(got) : got[i].id <= arrived'
    BY <1>0, <1>3
  <2> QED
    BY <2>1, <2>2, <2>3, <2>4, <2>5 DEF Ordered
<1>5. Lossless'
  <2>1. ~options_.corrupts => \A i \in 1..Len(queue') : queue'[i].good
    BY <1>1, <1>2 DEF Conserved, Lossless
  <2>2. ASSUME NEW i \in 1..Len(queue'), ~queue'[i].good
        PROVE  queue'[i].id \in spoiled'
    <3>1. CASE i \in 1..Len(queue)
      BY <1>1, <2>2, <3>1 DEF Conserved, Lossless
    <3>2. CASE i = Len(queue) + 1
      BY <1>1, <2>2, <3>2
    <3> QED
      BY <1>2, <3>1, <3>2
  <2>3. ASSUME NEW id \in 1..arrived'
        PROVE  \/ id \in spoiled'
               \/ \E i \in 1..Len(got) : got[i].id = id
               \/ \E i \in 1..Len(queue') : queue'[i].id = id
    <3>1. CASE id \in 1..arrived
      <4>1. ASSUME NEW i \in 1..Len(queue), queue[i].id = id
            PROVE  \E j \in 1..Len(queue') : queue'[j].id = id
        <5>1. i \in 1..Len(queue') /\ queue'[i] = queue[i]
          BY <1>0, <1>1
        <5> QED
          BY <4>1, <5>1
      <4> QED
        BY <3>1, <4>1 DEF Conserved, Lossless, Accounted
    <3>2. CASE id = arrived + 1
      <4>1. Len(queue) + 1 \in 1..Len(queue') /\ queue'[Len(queue) + 1].id = id
        BY <1>0, <1>1, <3>2
      <4> QED
        BY <4>1
    <3>3. id \in 1..arrived \/ id = arrived + 1
      <4>1. id \in 1..(arrived + 1)
        BY <2>3
      <4> QED
        BY <1>0, <4>1
    <3> QED
      BY <3>1, <3>2, <3>3
  <2> QED
    BY <2>1, <2>2, <2>3 DEF Lossless, Accounted
<1>6. Heard /\ early' = early /\ d.peer => Heard'
  <2> SUFFICES ASSUME Heard, early' = early, d.peer PROVE Heard'
    OBVIOUS
  <2>1. \A i \in 1..Len(queue) : ~queue[i].peer => queue[i].id <= early
    BY <1>0, HeardByIndex
  <2>2. \A i \in 1..Len(got) : ~got[i].peer => got[i].id <= early
    BY <1>0, HeardByIndex
  <2>3. \A i \in 1..Len(queue') : ~queue'[i].peer => queue'[i].id <= early
    BY <1>1, <1>2, <2>1
  <2>4. DOMAIN queue' = 1..Len(queue') /\ DOMAIN got = 1..Len(got)
    BY <1>0, <1>1, LenProperties
  <2> QED
    BY <2>2, <2>3, <2>4 DEF Heard, Range
<1>7. arrived' \in 0..MaxArrivals /\ spoiled' \subseteq 1..arrived'
  BY <1>0 DEF Conserved
<1> QED
  BY <1>0, <1>1, <1>4, <1>5, <1>6, <1>7 DEF Conserved, WholeDatagrams, NeverTruncates

\* The first datagram that passes its checksum is taken, whole where no datagram
\* fails.
LEMMA QueueFirst ==
  ASSUME Conserved, Verified # <<>>, NEW n \in 0..MaxSize,
         ~options_.corrupts => n = Head(Verified).size,
         queue' = Tail(Verified),
         got' = Append(got, [id |-> Head(Verified).id, size |-> Head(Verified).size,
                             n |-> n, peer |-> Head(Verified).peer]),
         UNCHANGED <<arrived, spoiled, options_>>
  PROVE  Conserved' /\ (Heard /\ early' = early => Heard')
<1>0. /\ Len(queue) \in Nat /\ queue \in Seq(Datagrams) /\ got \in Seq(Received)
      /\ Len(got) \in Nat /\ arrived \in Nat /\ arrived \in 0..MaxArrivals
  BY Bounds, LenProperties DEF Conserved
<1>1. PICK v \in Seq(Datagrams) : v = Verified
  BY <1>0, VerifiedIsEnd
<1>2. PICK k \in 0..Len(queue) :
        /\ Len(v) = Len(queue) - k /\ \A i \in 1..Len(v) : v[i] = queue[i + k]
        /\ \A i \in 1..k : ~queue[i].good
  BY <1>0, <1>1, VerifiedIsEnd
<1>3. Len(v) \in Nat \ {0} /\ v # <<>>
  BY <1>1, EmptySeq, LenProperties
<1>4. /\ queue' \in Seq(Datagrams) /\ Len(queue') = Len(v) - 1
      /\ \A i \in 1..Len(queue') : queue'[i] = v[i + 1]
      /\ Head(v) = v[1] /\ v[1] \in Datagrams
  BY <1>1, <1>3, HeadTailProperties, ElementOfSeq
<1>5. PICK p \in Nat : p = k + 1 /\ p \in 1..Len(queue) /\ Len(queue') = Len(queue) - p
  <2>1. PICK a \in Nat, b \in Nat : a = Len(queue) /\ b = Len(v)
    BY <1>0, <1>3
  <2>2. k \in 0..a /\ b = a - k /\ b # 0
    BY <1>2, <1>3, <2>1
  <2>3. k + 1 \in Nat /\ k + 1 \in 1..a /\ b - 1 = a - (k + 1)
    BY <2>2
  <2> QED
    BY <1>4, <2>1, <2>3
<1>6. v[1] = queue[p]
  BY <1>2, <1>3, <1>5
<1>7. \A i \in 1..Len(queue') : queue'[i] = queue[i + p] /\ i + p \in 1..Len(queue) /\ p < i + p
  <2> SUFFICES ASSUME NEW i \in 1..Len(queue')
               PROVE  queue'[i] = queue[i + p] /\ i + p \in 1..Len(queue) /\ p < i + p
    OBVIOUS
  <2>1. i + 1 \in 1..Len(v) /\ (i + 1) + k = i + p /\ i + p \in 1..Len(queue) /\ p < i + p
    BY <1>0, <1>2, <1>3, <1>4, <1>5
  <2> QED
    BY <1>2, <1>4, <2>1
<1>8. PICK r \in Received : /\ got' = Append(got, r)
                            /\ r.id = queue[p].id /\ r.peer = queue[p].peer
                            /\ r.size = queue[p].size /\ r.n = n
  <2>1. [id |-> v[1].id, size |-> v[1].size, n |-> n, peer |-> v[1].peer] \in Received
    BY <1>4 DEF Datagrams, Received
  <2> QED
    BY <1>1, <1>4, <1>6, <2>1
<1>9. /\ got' \in Seq(Received) /\ Len(got') = Len(got) + 1
      /\ \A i \in 1..Len(got) : got'[i] = got[i]
      /\ got'[Len(got) + 1] = r
  BY <1>0, <1>8, AppendProperties
<1>10. \A i \in 1..Len(got') : i \in 1..Len(got) \/ i = Len(got) + 1
  BY <1>0, <1>9
<1>11. Ordered'
  <2>1. ASSUME NEW i \in 1..Len(got'), NEW j \in 1..Len(got'), i < j
        PROVE  got'[i].id < got'[j].id
    <3>1. i \in 1..Len(got) /\ got'[i] = got[i]
      BY <1>0, <1>9, <2>1
    <3>2. CASE j \in 1..Len(got)
      BY <1>9, <2>1, <3>1, <3>2 DEF Conserved, Ordered
    <3>3. CASE j = Len(got) + 1
      BY <1>5, <1>8, <1>9, <3>1, <3>3 DEF Conserved, Ordered
    <3> QED
      BY <1>10, <3>2, <3>3
  <2>2. ASSUME NEW i \in 1..Len(queue'), NEW j \in 1..Len(queue'), i < j
        PROVE  queue'[i].id < queue'[j].id
    <3>1. i + p < j + p
      BY <1>0, <1>3, <1>4, <2>2
    <3> QED
      BY <1>7, <3>1 DEF Conserved, Ordered
  <2>3. ASSUME NEW i \in 1..Len(got'), NEW j \in 1..Len(queue')
        PROVE  got'[i].id < queue'[j].id
    <3>1. CASE i \in 1..Len(got)
      BY <1>7, <1>9, <3>1 DEF Conserved, Ordered
    <3>2. CASE i = Len(got) + 1
      BY <1>5, <1>7, <1>8, <1>9, <3>2 DEF Conserved, Ordered
    <3> QED
      BY <1>10, <3>1, <3>2
  <2>4. \A i \in 1..Len(got') : got'[i].id <= arrived
    BY <1>5, <1>8, <1>9, <1>10 DEF Conserved, Ordered
  <2>5. \A i \in 1..Len(queue') : queue'[i].id <= arrived
    BY <1>7 DEF Conserved, Ordered
  <2> QED
    BY <2>1, <2>2, <2>3, <2>4, <2>5 DEF Ordered
<1>13. Lossless'
  <2>1. ~options_.corrupts => \A i \in 1..Len(queue') : queue'[i].good
    BY <1>7 DEF Conserved, Lossless
  <2>2. \A i \in 1..Len(queue') : ~queue'[i].good => queue'[i].id \in spoiled
    BY <1>7 DEF Conserved, Lossless
  <2>3. ASSUME NEW id \in 1..arrived, id \notin spoiled, NEW i \in 1..Len(queue),
               queue[i].id = id
        PROVE  \/ \E j \in 1..Len(got') : got'[j].id = id
               \/ \E j \in 1..Len(queue') : queue'[j].id = id
    <3>1. queue[i].good
      BY <2>3 DEF Conserved, Lossless
    <3>2. i \notin 1..k
      BY <1>2, <3>1
    <3>3. CASE i = p
      <4>1. Len(got) + 1 \in 1..Len(got') /\ got'[Len(got) + 1].id = id
        BY <1>0, <1>8, <1>9, <2>3, <3>3
      <4> QED
        BY <4>1
    <3>4. CASE i # p
      <4>1. i - p \in 1..Len(queue') /\ (i - p) + p = i
        BY <1>0, <1>5, <3>2, <3>4
      <4> QED
        BY <1>7, <2>3, <4>1
    <3> QED
      BY <3>3, <3>4
  <2>4. ASSUME NEW id \in 1..arrived, NEW i \in 1..Len(got), got[i].id = id
        PROVE  \E j \in 1..Len(got') : got'[j].id = id
    <3>1. i \in 1..Len(got') /\ got'[i] = got[i]
      BY <1>0, <1>9
    <3> QED
      BY <2>4, <3>1
  <2>5. ASSUME NEW id \in 1..arrived, id \notin spoiled
        PROVE  \/ \E j \in 1..Len(got') : got'[j].id = id
               \/ \E j \in 1..Len(queue') : queue'[j].id = id
    <3>1. \/ \E i \in 1..Len(got) : got[i].id = id
          \/ \E i \in 1..Len(queue) : queue[i].id = id
      BY <2>5 DEF Conserved, Lossless, Accounted
    <3>2. CASE \E i \in 1..Len(got) : got[i].id = id
      BY <2>4, <3>2, Zenon
    <3>3. CASE \E i \in 1..Len(queue) : queue[i].id = id
      BY <2>3, <2>5, <3>3, Zenon
    <3> QED
      BY <3>1, <3>2, <3>3, Zenon
  <2>6. Accounted'
    BY <2>5 DEF Accounted
  <2> QED
    BY <2>1, <2>2, <2>6 DEF Lossless
<1>14. WholeDatagrams'
  <2> SUFFICES ASSUME ~options_.corrupts, NEW i \in 1..Len(got')
               PROVE  got'[i].n = got'[i].size
    BY DEF WholeDatagrams, NeverTruncates
  <2>1. \A j \in 1..Len(got) : got[j].n = got[j].size
    BY DEF Conserved, WholeDatagrams, NeverTruncates
  <2>2. r.n = r.size
    BY <1>1, <1>4, <1>6, <1>8
  <2> QED
    BY <1>9, <1>10, <2>1, <2>2
<1>15. Heard /\ early' = early => Heard'
  <2> SUFFICES ASSUME Heard, early' = early PROVE Heard'
    OBVIOUS
  <2>1. \A i \in 1..Len(queue) : ~queue[i].peer => queue[i].id <= early
    BY <1>0, HeardByIndex
  <2>2. \A i \in 1..Len(got) : ~got[i].peer => got[i].id <= early
    BY <1>0, HeardByIndex
  <2>3. \A i \in 1..Len(queue') : ~queue'[i].peer => queue'[i].id <= early
    BY <1>7, <2>1
  <2>4. \A i \in 1..Len(got') : ~got'[i].peer => got'[i].id <= early
    BY <1>5, <1>8, <1>9, <1>10, <2>1, <2>2
  <2>5. DOMAIN queue' = 1..Len(queue') /\ DOMAIN got' = 1..Len(got')
    BY <1>4, <1>9, LenProperties
  <2> QED
    BY <2>3, <2>4, <2>5 DEF Heard, Range
<1> QED
  BY <1>0, <1>4, <1>9, <1>11, <1>13, <1>14, <1>15 DEF Conserved

\* A step that touches none of this.
LEMMA TrafficKept ==
  ASSUME Conserved, UNCHANGED <<queue, got, arrived, spoiled, options_>>
  PROVE  Conserved' /\ (Heard /\ early' = early => Heard')
<1>1. Ordered' /\ WholeDatagrams'
  BY DEF Conserved, Ordered, WholeDatagrams, NeverTruncates
<1>2. Lossless'
  BY DEF Conserved, Lossless, Accounted
<1>3. Heard /\ early' = early => Heard'
  BY DEF Heard, Range
<1> QED
  BY <1>1, <1>2, <1>3 DEF Conserved

\* All that has arrived is early when connect returns.
LEMMA AllEarly ==
  ASSUME Conserved, UNCHANGED <<queue, got>>, early' = arrived
  PROVE  Heard'
<1>1. DOMAIN queue = 1..Len(queue) /\ DOMAIN got = 1..Len(got)
  BY LenProperties DEF Conserved
<1> QED
  BY <1>1 DEF Conserved, Ordered, Heard, Range

\* The invariant of the datagrams, as one.
LEMMA TrafficParts ==
  IInv <=> /\ FlagsOK /\ ValuesOK /\ DescriptorsOwned /\ CallInv /\ SessionInv
           /\ sent \in Seq(0..MaxSize) /\ Len(sent) <= MaxSends
           /\ Conserved /\ early \in 0..arrived /\ (open_ /\ HasRemote => Heard)
           /\ RecvInv /\ TooSmallIsTrue
BY DEF IInv, TypeOK, TrafficOK, Conserved, StrangersOnlyEarly, Heard, Received

\* Every action conserves the datagrams, and lets strangers in only early.
LEMMA TrafficStep ==
  ASSUME IInv, [Next]_vars
  PROVE  Conserved' /\ early' \in 0..arrived' /\ (open_' /\ HasRemote' => Heard')
<1>0. /\ Conserved /\ early \in 0..arrived /\ (open_ /\ HasRemote => Heard)
      /\ arrived \in 0..MaxArrivals /\ MaxArrivals \in Nat /\ MaxSize \in Nat
  BY TrafficParts, Bounds DEF Conserved
<1>1. ASSUME UNCHANGED <<queue, got, arrived, spoiled, options_, early>>, open_' => open_ \/ ~HasRemote
      PROVE  Conserved' /\ early' \in 0..arrived' /\ (open_' /\ HasRemote' => Heard')
  BY <1>0, <1>1, TrafficKept DEF HasRemote
<1>2. CASE CallOpen \/ Resolve \/ SocketFails
  BY <1>1, <1>2 DEF CallOpen, Resolve, SocketFails, NextAddress, object, net, filter
<1>3. CASE CreateSocket
  <2>1. ~open_' /\ early' \in 0..arrived'
    BY <1>3, TrafficParts DEF CreateSocket, object, CallInv, OpenSteps
  <2>2. /\ <<>> \in Seq(Datagrams) /\ <<>> \in Seq(Received) /\ Len(<<>>) = 0
        /\ queue' = <<>> /\ got' = <<>> /\ arrived' = 0 /\ spoiled' = {}
    BY <1>3, EmptySeq DEF CreateSocket
  <2>3. Conserved'
    BY <1>0, <2>2 DEF Conserved, Ordered, Lossless, Accounted, WholeDatagrams, NeverTruncates
  <2> QED
    BY <2>1, <2>3
<1>4. CASE SetNonBlocking
  BY <1>1, <1>4 DEF SetNonBlocking, GiveUpCandidate, object, net, filter
<1>5. CASE ResolveLocal \/ BindLocal \/ FreeLocal
  BY <1>1, <1>5 DEF ResolveLocal, BindLocal, FreeLocal, AfterBind, GiveUpCandidate,
                    AdoptCandidate, object, net, filter
<1>6. CASE Connect
  <2>1. CASE GiveUpCandidate /\ UNCHANGED filter
    BY <1>1, <1>6, <2>1 DEF Connect, GiveUpCandidate, object, filter
  <2>2. CASE AdoptCandidate /\ early' = arrived /\ UNCHANGED spoiled
    <3>1. UNCHANGED <<queue, got, arrived, spoiled, options_>>
      BY <1>6, <2>2 DEF Connect, AdoptCandidate
    <3> QED
      BY <1>0, <2>2, <3>1, TrafficKept, AllEarly
  <2> QED
    BY <1>6, <2>1, <2>2 DEF Connect
<1>7. CASE FreeAddrInfo \/ CallClose
  BY <1>1, <1>7 DEF FreeAddrInfo, CallClose, CloseSocket, object, net, filter
<1>8. CASE \E n \in 0..MaxSize, isNull \in BOOLEAN : CallSend(n, isNull)
  BY <1>1, <1>8 DEF CallSend, object, net, filter
<1>9. CASE SendWait \/ SendDatagram \/ SendRefused
  BY <1>1, <1>9 DEF SendWait, SendDatagram, SendRefused, object, net, filter
<1>10. CASE \E n \in 0..MaxSize, isNull \in BOOLEAN : CallReceive(n, isNull)
  BY <1>1, <1>10 DEF CallReceive, object, net, filter
<1>11. CASE ReceiveWait \/ RecvError \/ IcmpError
  BY <1>1, <1>11 DEF ReceiveWait, RecvError, IcmpError, object, net, filter
<1>12. CASE PendingSize
  <2>1. CASE queue' = Verified
    <3>1. UNCHANGED <<got, arrived, spoiled, options_, open_, early>>
      BY <1>12 DEF PendingSize, object, filter
    <3> QED
      BY <1>0, <2>1, <3>1, DropBad DEF HasRemote
  <2>2. CASE UNCHANGED queue
    BY <1>1, <1>12, <2>2 DEF PendingSize, object, filter
  <2> QED
    BY <1>12, <2>1, <2>2 DEF PendingSize
<1>13. CASE RecvWouldBlock
  <2>1. UNCHANGED <<got, arrived, spoiled, options_, open_, early>> /\ queue' = Verified
    BY <1>13 DEF RecvWouldBlock, object, filter
  <2> QED
    BY <1>0, <2>1, DropBad DEF HasRemote
<1>14. CASE RecvDatagram
  <2>1. UNCHANGED <<arrived, spoiled, options_, open_, early>> /\ Verified # <<>>
    BY <1>14 DEF RecvDatagram, object, filter
  <2>2. Head(Verified) \in Datagrams
    BY <1>0, <2>1, VerifiedIsEnd, HeadTailProperties DEF Conserved
  <2>3. Head(Verified).size \in 0..MaxSize /\ size \in 0..MaxSize
    BY <2>2, TrafficParts DEF Datagrams, ValuesOK
  <2>4. PICK n \in 0..MaxSize :
          n = IF Head(Verified).size <= size THEN Head(Verified).size ELSE size
    BY <2>3
  <2>5. ~options_.corrupts => n = Head(Verified).size
    <3> SUFFICES ASSUME ~options_.corrupts PROVE Head(Verified).size <= size
      BY <2>4
    <3>1. Verified = queue
      BY <1>0, VerifiedIsAll DEF Conserved, Lossless
    <3> QED
      BY <1>14, <3>1, TrafficParts DEF RecvInv, RecvDatagram
  <2>6. /\ queue' = Tail(Verified)
        /\ got' = Append(got, [id |-> Head(Verified).id, size |-> Head(Verified).size,
                               n |-> n, peer |-> Head(Verified).peer])
    BY <1>14, <2>4 DEF RecvDatagram
  <2> QED
    BY <1>0, <2>1, <2>5, <2>6, QueueFirst DEF HasRemote
<1>15. CASE Arrive
  <2>1. /\ UNCHANGED <<got, options_, open_, early>>
        /\ arrived' = arrived + 1 /\ arrived < MaxArrivals
    BY <1>15 DEF Arrive, object, filter
  <2>2. early' \in 0..arrived' /\ arrived + 1 \in 1..MaxArrivals
    BY <1>0, <2>1
  <2>3. open_ /\ HasRemote => Senders = {TRUE}
    BY TrafficParts DEF SessionInv, Senders
  <2>4. PICK d \in Datagrams : /\ queue' = Append(queue, d)
                               /\ d.id = arrived + 1
                               /\ d.good \/ options_.corrupts
                               /\ spoiled' = IF d.good THEN spoiled
                                             ELSE spoiled \cup {arrived + 1}
                               /\ open_ /\ HasRemote => d.peer
    <3>1. CASE /\ \E n \in 0..MaxSize, p \in Senders : queue' = Append(queue,
                    [id |-> arrived + 1, size |-> n, good |-> TRUE, peer |-> p])
               /\ UNCHANGED spoiled
      <4>1. PICK n \in 0..MaxSize, p \in Senders : queue' = Append(queue,
                    [id |-> arrived + 1, size |-> n, good |-> TRUE, peer |-> p])
        BY <3>1
      <4>2. p \in BOOLEAN /\ (open_ /\ HasRemote => p)
        BY <2>3 DEF Senders
      <4>3. [id |-> arrived + 1, size |-> n, good |-> TRUE, peer |-> p] \in Datagrams
        BY <2>2, <4>2 DEF Datagrams
      <4> QED
        BY <3>1, <4>1, <4>2, <4>3
    <3>2. CASE /\ options_.corrupts
               /\ queue' = Append(queue, [id |-> arrived + 1, size |-> 0, good |-> FALSE,
                                          peer |-> TRUE])
               /\ spoiled' = spoiled \cup {arrived + 1}
      <4>1. [id |-> arrived + 1, size |-> 0, good |-> FALSE, peer |-> TRUE] \in Datagrams
        BY <1>0, <2>2 DEF Datagrams
      <4> QED
        BY <3>2, <4>1
    <3> QED
      BY <1>15, <3>1, <3>2 DEF Arrive
  <2>5. Conserved' /\ (Heard /\ early' = early /\ d.peer => Heard')
    BY <1>0, <2>1, <2>4, QueueLast
  <2> QED
    BY <1>0, <2>1, <2>2, <2>4, <2>5 DEF HasRemote
<1>16. CASE UNCHANGED vars
  BY <1>1, <1>16 DEF vars, object, net, filter
<1> QED
  BY <1>2, <1>3, <1>4, <1>5, <1>6, <1>7, <1>8, <1>9, <1>10, <1>11, <1>12, <1>13, <1>14,
     <1>15, <1>16 DEF Next

\* What Receive found at one system call still holds at the next, and what it
\* returned when it has returned.
LEMMA ReceiveStep ==
  ASSUME IInv, [Next]_vars
  PROVE  RecvInv' /\ TooSmallIsTrue'
<1>0. /\ RecvInv /\ TooSmallIsTrue /\ CallInv /\ Conserved
      /\ queue \in Seq(Datagrams) /\ queue' \in Seq(Datagrams)
      /\ size \in 0..MaxSize /\ MaxSize \in Nat
  BY TrafficParts, TrafficStep, Bounds DEF Conserved, ValuesOK
<1>1. ASSUME NEW d, queue' = Append(queue, d), queue # <<>>
      PROVE  queue' # <<>> /\ Head(queue') = Head(queue)
  <2>1. Len(queue) \in Nat \ {0} /\ Len(queue') = Len(queue) + 1 /\ queue'[1] = queue[1]
    BY <1>0, <1>1, AppendProperties, EmptySeq, LenProperties
  <2> QED
    BY <1>0, <1>1, <2>1, HeadTailProperties, EmptySeq
<1> USE DEF Return, Result
<1>2. CASE CallOpen \/ Resolve \/ SocketFails
  BY <1>0, <1>2 DEF CallOpen, Resolve, SocketFails, NextAddress, object, net, filter,
                    RecvInv, TooSmallIsTrue, Readable
<1>3. CASE CreateSocket
  BY <1>3 DEF CreateSocket, RecvInv, TooSmallIsTrue
<1>4. CASE SetNonBlocking
  BY <1>4 DEF SetNonBlocking, GiveUpCandidate, NextAddress, RecvInv, TooSmallIsTrue
<1>5. CASE ResolveLocal \/ BindLocal \/ FreeLocal
  BY <1>5 DEF ResolveLocal, BindLocal, FreeLocal, AfterBind, GiveUpCandidate, NextAddress,
              AdoptCandidate, RecvInv, TooSmallIsTrue
<1>6. CASE Connect
  BY <1>6 DEF Connect, GiveUpCandidate, NextAddress, AdoptCandidate, RecvInv, TooSmallIsTrue
<1>7. CASE FreeAddrInfo \/ CallClose
  BY <1>7 DEF FreeAddrInfo, CallClose, RecvInv, TooSmallIsTrue
<1>8. CASE \E n \in 0..MaxSize, isNull \in BOOLEAN : CallSend(n, isNull)
  BY <1>8 DEF CallSend, RecvInv, TooSmallIsTrue
<1>9. CASE SendWait \/ SendDatagram \/ SendRefused
  BY <1>9 DEF SendWait, SendDatagram, SendRefused, RecvInv, TooSmallIsTrue
<1>10. CASE \E n \in 0..MaxSize, isNull \in BOOLEAN : CallReceive(n, isNull)
  BY <1>10 DEF CallReceive, RecvInv, TooSmallIsTrue
<1>11. CASE ReceiveWait
  BY <1>11 DEF ReceiveWait, RecvInv, TooSmallIsTrue, Readable, object, net, filter
<1>12. CASE PendingSize
  <2>0. UNCHANGED <<options_, soError, size>>
    BY <1>12 DEF PendingSize, object
  <2>1. CASE queue' = Verified /\ pc' = "recv" /\ Fits(queue')
    <3>1. TooSmallIsTrue'
      BY <2>1 DEF TooSmallIsTrue
    <3>2. RecvInv'
      <4> SUFFICES ASSUME ~options_.corrupts
                   PROVE  soError \/ (queue' # <<>> /\ Head(queue').size <= size)
        BY <2>0, <2>1 DEF RecvInv
      <4>1. queue' = queue
        BY <1>0, <2>1, VerifiedIsAll DEF Conserved, Lossless
      <4> QED
        BY <1>0, <1>12, <2>1, <4>1 DEF PendingSize, RecvInv, Readable, Fits
    <3> QED
      BY <3>1, <3>2
  <2>2. CASE queue' = Verified /\ ~Fits(queue') /\ Return("Receive", "OutputBufferTooSmall", 0)
    <3>1. queue' # <<>> /\ ~(Head(queue').size <= size)
      BY <2>2 DEF Fits
    <3>2. Head(queue') \in Datagrams
      BY <1>0, <3>1, HeadTailProperties
    <3>3. Head(queue').size > size
      BY <1>0, <3>1, <3>2 DEF Datagrams
    <3> QED
      BY <2>0, <2>2, <3>1, <3>3 DEF RecvInv, TooSmallIsTrue
  <2>3. CASE Return("Receive", "ReadFailed", 0)
    BY <2>3 DEF RecvInv, TooSmallIsTrue
  <2> QED
    BY <1>12, <2>1, <2>2, <2>3 DEF PendingSize
<1>13. CASE RecvWouldBlock \/ RecvError
  BY <1>13 DEF RecvWouldBlock, RecvError, RecvInv, TooSmallIsTrue
<1>14. CASE RecvDatagram
  BY <1>14 DEF RecvDatagram, RecvInv, TooSmallIsTrue
<1>15. CASE Arrive
  <2>1. PICK d : queue' = Append(queue, d)
    BY <1>15 DEF Arrive
  <2>2. queue' # <<>>
    <3>1. Len(Append(queue, d)) = Len(queue) + 1 /\ Len(queue) \in Nat
      BY <1>0, LenProperties
    <3> QED
      BY <1>0, <2>1, <3>1, EmptySeq
  <2>3. UNCHANGED <<options_, pc, ret, soError, size>>
    BY <1>15 DEF Arrive, object
  <2> QED
    BY <1>0, <1>1, <2>1, <2>2, <2>3 DEF RecvInv, TooSmallIsTrue, Readable
<1>16. CASE IcmpError
  BY <1>0, <1>16 DEF IcmpError, RecvInv, TooSmallIsTrue, Readable, object
<1>17. CASE UNCHANGED vars
  BY <1>0, <1>17 DEF vars, object, net, RecvInv, TooSmallIsTrue, Readable
<1> QED
  BY <1>2, <1>3, <1>4, <1>5, <1>6, <1>7, <1>8, <1>9, <1>10, <1>11, <1>12, <1>13, <1>14,
     <1>15, <1>16, <1>17 DEF Next

\* The invariant holds at every step.
LEMMA Inductive == Spec => []IInv
<1>1. IInv /\ [Next]_vars => IInv'
  <2> SUFFICES ASSUME IInv, [Next]_vars PROVE IInv'
    OBVIOUS
  <2>1. FlagsOK' /\ ValuesOK' /\ DescriptorsOwned' /\ CallInv'
    BY ControlStep
  <2>2. SessionInv' /\ sent' \in Seq(0..MaxSize) /\ Len(sent') <= MaxSends
    BY SessionStep
  <2>3. Conserved' /\ early' \in 0..arrived' /\ (open_' /\ HasRemote' => Heard')
    BY TrafficStep
  <2>4. RecvInv' /\ TooSmallIsTrue'
    BY ReceiveStep
  <2> QED
    BY <2>1, <2>2, <2>3, <2>4
       DEF IInv, TypeOK, TrafficOK, Conserved, StrangersOnlyEarly, Heard, Received
<1> QED
  BY <1>1, InitIInv, PTL DEF Spec

\* Two ordered sequences, all of the first below all of the second, are one.
LEMMA OrderedIsConserved ==
  ASSUME IInv
  PROVE  DatagramsConserved
<1>0. /\ queue \in Seq(Datagrams) /\ got \in Seq(Received) /\ Ordered /\ Lossless
      /\ Len(queue) \in Nat /\ Len(got) \in Nat
  BY TrafficParts, LenProperties DEF Conserved
<1> DEFINE g == [i \in 1..Len(got) |-> got[i].id]
           q == [i \in 1..Len(queue) |-> queue[i].id]
<1>1. /\ \A i \in 1..Len(got) : g[i] = got[i].id
      /\ \A i \in 1..Len(queue) : q[i] = queue[i].id
  OBVIOUS
<1>2. \A i \in 1..Len(got) : got[i].id \in 1..MaxArrivals
  <2>1. \A i \in 1..Len(got) : got[i] \in Received
    BY <1>0, ElementOfSeq
  <2> QED
    BY <2>1 DEF Received
<1>3. \A i \in 1..Len(queue) : queue[i].id \in 1..MaxArrivals
  <2>1. \A i \in 1..Len(queue) : queue[i] \in Datagrams
    BY <1>0, ElementOfSeq
  <2> QED
    BY <2>1 DEF Datagrams
<1>4. g \in Seq(1..MaxArrivals) /\ Len(g) = Len(got)
  <2>1. g \in [1..Len(got) -> 1..MaxArrivals]
    BY <1>2
  <2> QED
    BY <1>0, <2>1
<1>5. q \in Seq(1..MaxArrivals) /\ Len(q) = Len(queue)
  <2>1. q \in [1..Len(queue) -> 1..MaxArrivals]
    BY <1>3
  <2> QED
    BY <1>0, <2>1
<1> DEFINE ids == g \o q
<1>6. DatagramsConserved <=> /\ \A i, j \in 1..Len(ids) : i < j => ids[i] < ids[j]
                             /\ 1..arrived \subseteq Range(ids) \cup spoiled
  BY DEF DatagramsConserved
<1> HIDE DEF g, q
<1>7. /\ Len(ids) = Len(got) + Len(queue)
      /\ \A i \in 1..(Len(got) + Len(queue)) : ids[i] = IF i <= Len(got) THEN g[i] ELSE q[i - Len(got)]
  <2>1. /\ Len(g \o q) = Len(g) + Len(q)
        /\ \A i \in 1..(Len(g) + Len(q)) : (g \o q)[i] = IF i <= Len(g) THEN g[i] ELSE q[i - Len(g)]
    BY <1>4, <1>5, ConcatProperties, Zenon
  <2> QED
    BY <1>4, <1>5, <2>1
<1> HIDE DEF ids
<1>8. ASSUME NEW i \in 1..Len(ids), NEW j \in 1..Len(ids), i < j
      PROVE  ids[i] < ids[j]
  <2>0. PICK a \in Nat, b \in Nat : a = Len(got) /\ b = Len(queue)
    BY <1>0
  <2>1. i \in 1..(a + b) /\ j \in 1..(a + b)
    BY <1>7, <2>0
  <2>2. CASE j <= a
    <3>1. i \in 1..a /\ j \in 1..a /\ i <= a
      BY <1>8, <2>1, <2>2
    <3>2. ids[i] = got[i].id /\ ids[j] = got[j].id
      BY <1>1, <1>7, <2>0, <2>1, <2>2, <3>1
    <3> QED
      BY <1>0, <1>8, <2>0, <3>1, <3>2 DEF Ordered
  <2>3. CASE i <= a /\ j > a
    <3>1. i \in 1..a /\ j - a \in 1..b /\ ~(j <= a)
      BY <2>1, <2>3
    <3>2. ids[i] = got[i].id /\ ids[j] = queue[j - a].id
      BY <1>1, <1>7, <2>0, <2>1, <2>3, <3>1
    <3> QED
      BY <1>0, <2>0, <3>1, <3>2 DEF Ordered
  <2>4. CASE i > a
    <3>1. i - a \in 1..b /\ j - a \in 1..b /\ i - a < j - a /\ ~(i <= a) /\ ~(j <= a)
      BY <1>8, <2>1, <2>4
    <3>2. ids[i] = queue[i - a].id /\ ids[j] = queue[j - a].id
      BY <1>1, <1>7, <2>0, <2>1, <3>1
    <3> QED
      BY <1>0, <2>0, <3>1, <3>2 DEF Ordered
  <2>5. j <= a \/ (i <= a /\ j > a) \/ i > a
    BY <2>1
  <2> QED
    BY <2>2, <2>3, <2>4, <2>5
<1>9. ASSUME NEW id \in 1..arrived, id \notin spoiled
      PROVE  id \in Range(ids)
  <2>0. PICK a \in Nat, b \in Nat : a = Len(got) /\ b = Len(queue)
    BY <1>0
  <2>1. \E n \in 1..Len(ids) : ids[n] = id
    <3>1. CASE \E i \in 1..a : got[i].id = id
      <4>1. PICK i \in 1..a : got[i].id = id
        BY <3>1
      <4>2. i \in 1..(a + b) /\ i <= a
        BY <2>0
      <4>3. i \in 1..Len(ids) /\ ids[i] = got[i].id
        BY <1>1, <1>7, <2>0, <4>2
      <4> QED
        BY <4>1, <4>3
    <3>2. CASE \E i \in 1..b : queue[i].id = id
      <4>1. PICK i \in 1..b : queue[i].id = id
        BY <3>2
      <4>2. PICK n \in 1..(a + b) : ~(n <= a) /\ n - a = i
        <5>1. i + a \in 1..(a + b) /\ ~(i + a <= a) /\ (i + a) - a = i
          BY <2>0
        <5> QED
          BY <5>1
      <4>3. n \in 1..Len(ids) /\ ids[n] = queue[n - a].id
        BY <1>1, <1>7, <2>0, <4>2
      <4> QED
        BY <4>1, <4>2, <4>3
    <3> QED
      BY <1>0, <1>9, <2>0, <3>1, <3>2 DEF Lossless, Accounted
  <2>2. DOMAIN ids = 1..Len(ids)
    BY <1>4, <1>5, ConcatProperties, LenProperties DEF ids
  <2> QED
    BY <2>1, <2>2 DEF Range
<1> QED
  BY <1>6, <1>8, <1>9

-----------------------------------------------------------------------------
(* What holds of every behaviour *)

\* The type invariant, whatever the network does.
THEOREM TypeCorrect == Spec => []TypeOK
<1>1. IInv => TypeOK
  BY DEF IInv
<1> QED
  BY <1>1, Inductive, PTL

\* Open leaks no candidate and no list, neither the list it walks nor the local
\* list of a candidate, and frees none twice, whichever of its calls fails: at
\* every step each descriptor and each list has one owner.
THEOREM NoDescriptorLeak == Spec => []DescriptorsOwned
<1>1. IInv => DescriptorsOwned
  BY DEF IInv
<1> QED
  BY <1>1, Inductive, PTL

\* Receive hands over datagrams once and in order, and loses only what fails its
\* checksum, for queues of any length.
THEOREM NoneLost == Spec => []DatagramsConserved
<1>1. IInv => DatagramsConserved
  BY OrderedIsConserved
<1> QED
  BY <1>1, Inductive, PTL

\* OutputBufferTooSmall leaves the datagram it is about at the head of the queue.
THEOREM TooSmallLeavesIt == Spec => []TooSmallIsTrue
<1>1. IInv => TooSmallIsTrue
  BY DEF IInv
<1> QED
  BY <1>1, Inductive, PTL

\* The size check and recv look at the same datagram unless checksums fail.
THEOREM NoTruncation == Spec => []WholeDatagrams
<1>1. IInv => WholeDatagrams
  BY DEF IInv
<1> QED
  BY <1>1, Inductive, PTL

\* Only the window between bind and connect lets strangers in.
THEOREM ConnectFilters == Spec => []StrangersOnlyEarly
<1>1. IInv => StrangersOnlyEarly
  BY DEF IInv
<1> QED
  BY <1>1, Inductive, PTL

-----------------------------------------------------------------------------
(* UdpTransport implements IDatagramTransport *)

\* No call changes the options.
LEMMA OptionsKept ==
  ASSUME [Next]_vars
  PROVE  options_' = options_
BY DEF Next, vars, object, net, filter, CallOpen, Resolve, SocketFails, CreateSocket,
       SetNonBlocking, ResolveLocal, BindLocal, FreeLocal, AfterBind, Connect, GiveUpCandidate,
       AdoptCandidate, FreeAddrInfo, CallClose, CloseSocket, CallSend, SendWait, SendDatagram,
       SendRefused, CallReceive, ReceiveWait, PendingSize, RecvDatagram, RecvError,
       RecvWouldBlock, Arrive, IcmpError

\* A step that the caller does not see.
LEMMA Unseen ==
  ASSUME options_' = options_, Up' = Up, Up => UNCHANGED <<queue, sent>>, UNCHANGED ret
  PROVE  UNCHANGED Endpoint!vars
BY DEF Endpoint!vars

\* Every step is one of the contract's, or unseen.
LEMMA EndpointStep ==
  ASSUME IInv, [Next]_vars, ~options_.corrupts
  PROVE  Endpoint!Next \/ UNCHANGED Endpoint!vars
<1>0. /\ Conserved /\ CallInv /\ SessionInv /\ DescriptorsOwned /\ RecvInv
      /\ queue \in Seq(Datagrams) /\ queue' \in Seq(Datagrams) /\ options_' = options_
      /\ size \in 0..MaxSize /\ MaxSize \in Nat /\ open_ \in BOOLEAN
  BY TrafficParts, TrafficStep, Bounds, OptionsKept DEF Conserved, ValuesOK, FlagsOK
<1> USE DEF Return
<1>1. CASE UNCHANGED vars
  <2>1. Up' = Up /\ UNCHANGED <<queue, sent, ret>>
    BY <1>1 DEF vars, object, net, Up
  <2> QED
    BY <1>0, <2>1, Unseen
<1>2. ASSUME Up' = Up, UNCHANGED <<queue, sent>>,
             NEW st \in {"AlreadyOpen", "InvalidArgument", "OpenFailed"},
             (st = "AlreadyOpen") = Up, ret' = Result("Open", st, 0)
      PROVE  Endpoint!Next
  BY <1>0, <1>2 DEF Endpoint!Next, Endpoint!OpenRefused, Endpoint!Result, Result
<1>3. ASSUME Up' = Up, UNCHANGED <<queue, sent>>, NEW m \in 0..MaxSize,
             NEW st \in {"NotOpen", "InvalidArgument", "Timeout", "WouldBlock", "WriteFailed"},
             (st = "NotOpen") = ~Up, ret' = Result("Send", st, m)
      PROVE  Endpoint!Next
  BY <1>0, <1>3 DEF Endpoint!Next, Endpoint!SendRefused, Endpoint!Result, Result
<1>4. ASSUME Up' = Up, UNCHANGED <<queue, sent>>,
             NEW st \in {"NotOpen", "InvalidArgument", "Timeout", "WouldBlock", "ReadFailed"},
             (st = "NotOpen") = ~Up, ret' = Result("Receive", st, 0)
      PROVE  Endpoint!Next
  BY <1>0, <1>4 DEF Endpoint!Next, Endpoint!ReceiveRefused, Endpoint!Result, Result
<1>5. CASE CallOpen
  <2>1. Up' = Up /\ Up = open_ /\ UNCHANGED <<queue, sent>>
    BY <1>0, <1>5 DEF CallOpen, object, net, Up
  <2>2. CASE open_
    BY <1>2, <1>5, <2>1, <2>2 DEF CallOpen
  <2>3. CASE ~open_
    BY <1>0, <1>2, <1>5, <2>1, <2>3, Unseen DEF CallOpen
  <2> QED
    BY <2>2, <2>3
<1>6. CASE Resolve
  <2>1. Up' = Up /\ Up = FALSE /\ UNCHANGED <<queue, sent>>
    BY <1>0, <1>6 DEF Resolve, object, net, Up, CallInv, OpenSteps
  <2> QED
    BY <1>0, <1>2, <1>6, <2>1, Unseen DEF Resolve
<1>7. CASE SocketFails \/ CreateSocket \/ SetNonBlocking
  <2>1. ~open_ /\ UNCHANGED <<open_, ret>>
    BY <1>0, <1>7 DEF SocketFails, CreateSocket, SetNonBlocking, GiveUpCandidate, object,
       CallInv,
                      OpenSteps
  <2>2. Up' = Up /\ ~Up
    BY <2>1 DEF Up
  <2> QED
    BY <1>0, <2>1, <2>2, Unseen
<1>8. CASE ResolveLocal \/ BindLocal \/ FreeLocal \/ Connect
  <2>1. ~open_ /\ UNCHANGED ret /\ (open_' = open_ \/ pc' = "freeaddrinfo")
    BY <1>0, <1>8 DEF ResolveLocal, BindLocal, FreeLocal, AfterBind, Connect, GiveUpCandidate,
                      AdoptCandidate, object, CallInv, OpenSteps
  <2>2. Up' = Up /\ ~Up
    BY <2>1 DEF Up
  <2> QED
    BY <1>0, <2>1, <2>2, Unseen
<1>9. CASE FreeAddrInfo
  <2>1. /\ ~Up /\ Up' = open_ /\ UNCHANGED <<queue, sent>>
        /\ ret' = Result("Open", IF open_ THEN "Ok" ELSE "OpenFailed", 0)
    BY <1>0, <1>9 DEF FreeAddrInfo, object, net, Up
  <2>2. CASE open_
    <3>1. sent = <<>>
      BY <1>0, <1>9, <2>2 DEF FreeAddrInfo, SessionInv
    <3>2. Endpoint!OpenOk
      BY <1>0, <2>1, <2>2, <3>1 DEF Endpoint!OpenOk, Endpoint!Result, Result
    <3> QED
      BY <3>2 DEF Endpoint!Next
  <2>3. CASE ~open_
    <3>1. Up' = Up /\ Up = FALSE /\ ret' = Result("Open", "OpenFailed", 0)
      BY <2>1, <2>3 DEF Up
    <3> QED
      BY <1>2, <2>1, <3>1
  <2> QED
    BY <2>2, <2>3
<1>10. CASE CallClose
  <2>1. ~Up' /\ ret' = Result("Close", "Ok", 0)
    BY <1>10 DEF CallClose, CloseSocket, Up
  <2>2. Endpoint!Close
    BY <1>0, <2>1 DEF Endpoint!Close, Endpoint!Result, Result
  <2> QED
    BY <2>2 DEF Endpoint!Next
<1>11. ASSUME NEW m \in 0..MaxSize, NEW isNull \in BOOLEAN, CallSend(m, isNull)
       PROVE  Endpoint!Next \/ UNCHANGED Endpoint!vars
  <2>1. Up' = Up /\ Up = open_ /\ UNCHANGED <<queue, sent>>
    BY <1>0, <1>11 DEF CallSend, object, net, Up
  <2>2. CASE UNCHANGED ret
    BY <1>0, <2>1, <2>2, Unseen
  <2>3. CASE ret' = Result("Send", "NotOpen", m) /\ ~open_
    BY <1>3, <2>1, <2>3
  <2>4. CASE ret' = Result("Send", "InvalidArgument", m) /\ open_
    BY <1>3, <2>1, <2>4
  <2> QED
    BY <1>11, <2>2, <2>3, <2>4 DEF CallSend
<1>12. CASE SendWait
  <2>1. Up' = Up /\ Up = TRUE /\ UNCHANGED <<queue, sent>>
    BY <1>0, <1>12 DEF SendWait, object, net, Up, CallInv
  <2>2. CASE UNCHANGED ret
    BY <1>0, <2>1, <2>2, Unseen
  <2>3. CASE ret' = Result("Send", "Timeout", size)
    BY <1>0, <1>3, <2>1, <2>3
  <2>4. CASE ret' = Result("Send", "WriteFailed", size)
    BY <1>0, <1>3, <2>1, <2>4
  <2> QED
    BY <1>12, <2>2, <2>3, <2>4 DEF SendWait
<1>13. CASE SendDatagram
  <2>1. /\ Up' = Up /\ Up = TRUE /\ UNCHANGED queue /\ sent' = Append(sent, size)
        /\ ret' = Result("Send", "Ok", size)
    BY <1>0, <1>13 DEF SendDatagram, object, Up, CallInv
  <2>2. Endpoint!Send(size)
    BY <1>0, <2>1 DEF Endpoint!Send, Endpoint!Result, Result
  <2> QED
    BY <1>0, <2>2 DEF Endpoint!Next
<1>14. CASE SendRefused
  <2>1. Up' = Up /\ Up = TRUE /\ UNCHANGED <<queue, sent>>
    BY <1>0, <1>14 DEF SendRefused, object, Up, CallInv
  <2>2. PICK st \in {"WouldBlock", "WriteFailed"} : ret' = Result("Send", st, size)
    BY <1>14 DEF SendRefused
  <2> QED
    BY <1>0, <1>3, <2>1, <2>2
<1>15. ASSUME NEW m \in 0..MaxSize, NEW isNull \in BOOLEAN, CallReceive(m, isNull)
       PROVE  Endpoint!Next \/ UNCHANGED Endpoint!vars
  <2>1. Up' = Up /\ Up = open_ /\ UNCHANGED <<queue, sent>>
    BY <1>0, <1>15 DEF CallReceive, object, net, Up
  <2>2. CASE UNCHANGED ret
    BY <1>0, <2>1, <2>2, Unseen
  <2>3. CASE ret' = Result("Receive", "NotOpen", 0) /\ ~open_
    BY <1>4, <2>1, <2>3
  <2>4. CASE ret' = Result("Receive", "InvalidArgument", 0) /\ open_
    BY <1>4, <2>1, <2>4
  <2> QED
    BY <1>15, <2>2, <2>3, <2>4 DEF CallReceive
<1>16. CASE ReceiveWait
  <2>1. Up' = Up /\ Up = TRUE /\ UNCHANGED <<queue, sent>>
    BY <1>0, <1>16 DEF ReceiveWait, object, net, Up, CallInv
  <2>2. CASE UNCHANGED ret
    BY <1>0, <2>1, <2>2, Unseen
  <2>3. CASE ret' = Result("Receive", "Timeout", 0)
    BY <1>4, <2>1, <2>3
  <2>4. CASE ret' = Result("Receive", "ReadFailed", 0)
    BY <1>4, <2>1, <2>4
  <2> QED
    BY <1>16, <2>2, <2>3, <2>4 DEF ReceiveWait
<1>17. Verified = queue
  BY <1>0, VerifiedIsAll DEF Conserved, Lossless
<1>18. CASE PendingSize
  <2>1. Up' = Up /\ Up = TRUE /\ UNCHANGED <<queue, sent>>
    BY <1>0, <1>17, <1>18 DEF PendingSize, object, Up, CallInv
  <2>2. CASE UNCHANGED ret
    BY <1>0, <2>1, <2>2, Unseen
  <2>3. CASE ~Fits(queue') /\ ret' = Result("Receive", "OutputBufferTooSmall", 0)
    <3>1. queue # <<>> /\ ~(Head(queue).size <= size)
      BY <2>1, <2>3 DEF Fits
    <3>2. Head(queue) \in Datagrams
      BY <1>0, <3>1, HeadTailProperties
    <3>3. Head(queue).size > 0
      BY <1>0, <3>1, <3>2 DEF Datagrams
    <3>4. Endpoint!ReceiveTooSmall
      BY <1>0, <2>1, <2>3, <3>1, <3>3 DEF Endpoint!ReceiveTooSmall, Endpoint!Result, Result
    <3> QED
      BY <3>4 DEF Endpoint!Next
  <2>4. CASE ret' = Result("Receive", "ReadFailed", 0)
    BY <1>4, <2>1, <2>4
  <2> QED
    BY <1>18, <2>2, <2>3, <2>4 DEF PendingSize
<1>19. CASE RecvDatagram
  <2>1. Up' = Up /\ Up = TRUE /\ UNCHANGED sent
    BY <1>0, <1>19 DEF RecvDatagram, object, Up, CallInv
  <2>2. queue # <<>> /\ queue' = Tail(queue) /\ Head(queue).size <= size
    BY <1>0, <1>17, <1>19 DEF RecvDatagram, RecvInv
  <2>3. ret' = Result("Receive", "Ok", Head(queue).size)
    BY <1>17, <1>19, <2>2 DEF RecvDatagram
  <2>4. Endpoint!Receive
    BY <1>0, <2>1, <2>2, <2>3 DEF Endpoint!Receive, Endpoint!Result, Result
  <2> QED
    BY <2>4 DEF Endpoint!Next
<1>20. CASE RecvError
  <2>1. /\ Up' = Up /\ Up = TRUE /\ UNCHANGED <<queue, sent>>
        /\ ret' = Result("Receive", "ReadFailed", 0)
    BY <1>0, <1>20 DEF RecvError, object, Up, CallInv
  <2> QED
    BY <1>4, <2>1
<1>21. CASE RecvWouldBlock
  <2>1. /\ Up' = Up /\ Up = TRUE /\ UNCHANGED <<queue, sent>>
        /\ ret' = Result("Receive", "WouldBlock", 0)
    BY <1>0, <1>17, <1>21 DEF RecvWouldBlock, object, Up, CallInv
  <2> QED
    BY <1>4, <2>1
<1>22. CASE Arrive
  <2>1. Up' = Up /\ UNCHANGED <<sent, ret>>
    BY <1>22 DEF Arrive, object, Up
  <2>2. CASE ~Up
    BY <1>0, <2>1, <2>2, Unseen
  <2>3. CASE Up
    <3>1. PICK d : queue' = Append(queue, d)
      BY <1>22 DEF Arrive
    <3>2. d \in Datagrams
      <4>1. Len(queue) \in Nat /\ Len(queue') = Len(queue) + 1 /\ queue'[Len(queue) + 1] = d
        BY <1>0, <3>1, LenProperties
      <4>2. Len(queue) + 1 \in 1..Len(queue')
        BY <4>1
      <4> QED
        BY <1>0, <4>1, <4>2, ElementOfSeq
    <3>3. Endpoint!Arrive
      BY <1>0, <2>1, <2>3, <3>1, <3>2 DEF Endpoint!Arrive
    <3> QED
      BY <3>3 DEF Endpoint!Next
  <2> QED
    BY <2>2, <2>3
<1>23. CASE IcmpError
  <2>1. Up' = Up /\ UNCHANGED <<queue, sent, ret>>
    BY <1>23 DEF IcmpError, object, Up
  <2> QED
    BY <1>0, <2>1, Unseen
<1> QED
  BY <1>1, <1>5, <1>6, <1>7, <1>8, <1>9, <1>10, <1>11, <1>12, <1>13, <1>14, <1>15, <1>16,
     <1>18, <1>19, <1>20, <1>21, <1>22, <1>23 DEF Next

\* UdpTransport implements the contract of IDatagramTransport: each call takes
\* effect in one step, the one that returns, whatever arrives between its system
\* calls.
THEOREM UdpImplementsDatagram == Spec => ImplementsDatagram
<1>1. Init => Endpoint!Init
  BY DEF Init, Endpoint!Init, Up, NoResult, Result, Endpoint!NoResult, Endpoint!Result
<1>2. IInv /\ [Next]_vars => [Endpoint!Next]_(Endpoint!vars)
  <2> SUFFICES ASSUME IInv, [Next]_vars PROVE Endpoint!Next \/ UNCHANGED Endpoint!vars
    OBVIOUS
  <2>1. CASE options_.corrupts
    BY <2>1, OptionsKept DEF Endpoint!vars
  <2> QED
    BY <2>1, EndpointStep
<1> QED
  BY <1>1, <1>2, Inductive, PTL DEF Spec, ImplementsDatagram, Endpoint!Spec

=============================================================================
