-------------------------- MODULE TlsStreamProofs --------------------------
(***************************************************************************)
(* TlsStreamTransport's invariants for every number of sessions of the     *)
(* lower stream.                                                           *)
(***************************************************************************)
EXTENDS TlsStream, TLAPS

\* What holds at the steps of a call: open_ is set while the backend is used and
\* not while Open runs, which got past the check of the configuration; an open
\* lower stream has a session; and a failed handshake has its status kept.
CallInv ==
  /\ pc \in {"lowerOpen", "handshake", "handshakeClose"} => ~open_ /\ HasValidConfiguration
  /\ pc \in {"backendClose", "lowerClose", "transfer"} => open_
  /\ pc = "handshakeClose" => status # "Ok"
  /\ pc = "transfer" => ret.op \in {"ReadSome", "WriteAll"}
  /\ open_ => config.lower
  /\ lowerOpen => session # 0

IInv == TypeOK /\ CallInv /\ HandshakeFirst /\ LowerReleased

\* Initially.
LEMMA InitIInv == Init => IInv
<1> SUFFICES ASSUME Init PROVE IInv
  OBVIOUS
<1>1. TypeOK
  <2>1. lowerOpen \in BOOLEAN
    BY DEF Init
  <2>2. lowerOpen => MaxSessions > 0
    BY DEF Init
  <2>3. session \in 0..MaxSessions
    BY TlsStreamAssumption, <2>1, <2>2 DEF Init
  <2>4. ret \in [op : Ops, status : TransportStatus, n : {0}]
    BY DEF Init, NoResult, Result, Ops, TransportStatus
  <2>5. /\ status \in TransportStatus
        /\ config \in [lower : BOOLEAN, backend : {"none", "unsupported", "real"},
                       named : BOOLEAN]
        /\ open_ = FALSE /\ pc = "idle" /\ secured = 0 /\ direct = {}
    BY DEF Init, TransportStatus
  <2> QED
    BY <2>1, <2>3, <2>4, <2>5 DEF TypeOK
<1>2. CallInv /\ HandshakeFirst /\ LowerReleased
  BY DEF Init, CallInv, HandshakeFirst, LowerReleased, IsOpen, NoResult, Result
<1> QED
  BY <1>1, <1>2 DEF IInv

\* Every action preserves the types: in particular, a session is secured exactly
\* while the stream is open.
LEMMA TypeStep == IInv /\ [Next]_vars => TypeOK'
<1> SUFFICES ASSUME IInv, [Next]_vars PROVE TypeOK'
  OBVIOUS
<1> USE TlsStreamAssumption DEF IInv, TypeOK, CallInv, object, lowerStream, Return, Result, Ops
<1>1. CASE CallOpen
  BY <1>1 DEF CallOpen, TransportStatus
<1>2. CASE LowerOpens
  BY <1>2 DEF LowerOpens
<1>3. CASE LowerOpenFails
  BY <1>3 DEF LowerOpenFails, LowerOpenFailures
<1>4. CASE Handshake
  BY <1>4 DEF Handshake, TransportStatus
<1>5. CASE HandshakeFails
  <2>1. status' \in TransportStatus
    BY <1>5 DEF HandshakeFails, HandshakeFailures, TransportStatus
  <2>2. lowerOpen' \in BOOLEAN
    BY <1>5 DEF HandshakeFails
  <2> QED
    BY <1>5, <2>1, <2>2 DEF HandshakeFails
<1>6. CASE HandshakeClose
  BY <1>6 DEF HandshakeClose
<1>7. CASE CallClose
  BY <1>7 DEF CallClose, TransportStatus
<1>8. CASE BackendClose
  BY <1>8 DEF BackendClose
<1>9. CASE LowerClose
  BY <1>9 DEF LowerClose
<1>10. ASSUME NEW op \in {"ReadSome", "WriteAll"}, NEW invalid \in BOOLEAN,
              CallTransfer(op, invalid)
       PROVE  TypeOK'
  BY <1>10 DEF CallTransfer, TransportStatus
<1>11. CASE Transfer
  <2>1. PICK s \in TransportStatus : Return(ret.op, s)
    BY <1>11 DEF Transfer
  <2>2. ret' \in [op : Ops, status : TransportStatus, n : {0}]
    BY <2>1
  <2> QED
    BY <1>11, <2>1, <2>2 DEF Transfer
<1>12. CASE ApplicationOpensLower
  BY <1>12 DEF ApplicationOpensLower, NoResult, TransportStatus
<1>13. CASE ApplicationClosesLower
  BY <1>13 DEF ApplicationClosesLower, NoResult, TransportStatus
<1>14. CASE UNCHANGED vars
  BY <1>14 DEF vars
<1> QED
  BY <1>1, <1>2, <1>3, <1>4, <1>5, <1>6, <1>7, <1>8, <1>9, <1>10, <1>11, <1>12, <1>13, <1>14
  DEF Next

\* Every action preserves what holds at the steps of a call.
LEMMA CallStep == IInv /\ [Next]_vars => CallInv'
<1> SUFFICES ASSUME IInv, [Next]_vars PROVE CallInv'
  OBVIOUS
<1> USE DEF IInv, TypeOK, CallInv, HasValidConfiguration, object, lowerStream, Return, Result
<1>1. CASE CallOpen
  BY <1>1 DEF CallOpen
<1>2. CASE LowerOpens
  BY <1>2 DEF LowerOpens
<1>3. CASE LowerOpenFails
  BY <1>3 DEF LowerOpenFails
<1>4. CASE Handshake
  BY <1>4 DEF Handshake
<1>5. CASE HandshakeFails
  BY <1>5 DEF HandshakeFails, HandshakeFailures, TransportStatus
<1>6. CASE HandshakeClose
  BY <1>6 DEF HandshakeClose
<1>7. CASE CallClose
  BY <1>7 DEF CallClose
<1>8. CASE BackendClose
  BY <1>8 DEF BackendClose
<1>9. CASE LowerClose
  BY <1>9 DEF LowerClose
<1>10. ASSUME NEW op \in {"ReadSome", "WriteAll"}, NEW invalid \in BOOLEAN,
              CallTransfer(op, invalid)
       PROVE  CallInv'
  BY <1>10 DEF CallTransfer
<1>11. CASE Transfer
  BY <1>11 DEF Transfer
<1>12. CASE ApplicationOpensLower
  BY <1>12 DEF ApplicationOpensLower
<1>13. CASE ApplicationClosesLower
  BY <1>13 DEF ApplicationClosesLower
<1>14. CASE UNCHANGED vars
  BY <1>14 DEF vars
<1> QED
  BY <1>1, <1>2, <1>3, <1>4, <1>5, <1>6, <1>7, <1>8, <1>9, <1>10, <1>11, <1>12, <1>13, <1>14
  DEF Next

\* Every action preserves the two properties: a handshake secures the session it
\* runs on, and only the application opens a session of an open stream.
LEMMA PropertiesStep == IInv /\ [Next]_vars => HandshakeFirst' /\ LowerReleased'
<1> SUFFICES ASSUME IInv, [Next]_vars PROVE HandshakeFirst' /\ LowerReleased'
  OBVIOUS
<1> USE DEF IInv, TypeOK, CallInv, HandshakeFirst, LowerReleased, HasValidConfiguration, IsOpen,
        object, lowerStream, Return, Result
<1>1. CASE CallOpen
  BY <1>1 DEF CallOpen
<1>2. CASE LowerOpens
  BY <1>2 DEF LowerOpens
<1>3. CASE LowerOpenFails
  BY <1>3 DEF LowerOpenFails
<1>4. CASE Handshake
  BY <1>4 DEF Handshake
<1>5. CASE HandshakeFails
  BY <1>5 DEF HandshakeFails
<1>6. CASE HandshakeClose
  BY <1>6 DEF HandshakeClose
<1>7. CASE CallClose
  BY <1>7 DEF CallClose
<1>8. CASE BackendClose
  BY <1>8 DEF BackendClose
<1>9. CASE LowerClose
  BY <1>9 DEF LowerClose
<1>10. ASSUME NEW op \in {"ReadSome", "WriteAll"}, NEW invalid \in BOOLEAN,
              CallTransfer(op, invalid)
       PROVE  HandshakeFirst' /\ LowerReleased'
  BY <1>10 DEF CallTransfer
<1>11. CASE Transfer
  <2>1. PICK s \in TransportStatus : Return(ret.op, s)
    BY <1>11 DEF Transfer
  <2>2. ret'.op \in {"ReadSome", "WriteAll"}
    BY <1>11, <2>1 DEF Transfer
  <2>3. LowerReleased'
    BY <2>2
  <2>4. pc = "transfer" /\ IsOpen' => IsOpen
    BY <1>11 DEF Transfer
  <2> QED
    BY <1>11, <2>3, <2>4 DEF Transfer
<1>12. CASE ApplicationOpensLower
  BY <1>12 DEF ApplicationOpensLower, NoResult
<1>13. CASE ApplicationClosesLower
  BY <1>13 DEF ApplicationClosesLower, NoResult
<1>14. CASE UNCHANGED vars
  BY <1>14 DEF vars
<1> QED
  BY <1>1, <1>2, <1>3, <1>4, <1>5, <1>6, <1>7, <1>8, <1>9, <1>10, <1>11, <1>12, <1>13, <1>14
  DEF Next

\* The invariant is inductive.
LEMMA Inductive == Spec => []IInv
<1>1. IInv /\ [Next]_vars => IInv'
  BY TypeStep, CallStep, PropertiesStep DEF IInv
<1> QED
  BY InitIInv, <1>1, PTL DEF Spec

-----------------------------------------------------------------------------
\* The members of TlsStreamTransport and its lower stream keep their types, and
\* a session is secured exactly while the stream is open.
THEOREM TypeCorrect == Spec => []TypeOK
<1>1. IInv => TypeOK
  BY DEF IInv
<1> QED
  BY Inductive, <1>1, PTL

\* The stream is open, and passes data to its backend, only on the session its
\* handshake secured or on one the application opened behind its back.
THEOREM SecuredSessions == Spec => []HandshakeFirst
<1>1. IInv => HandshakeFirst
  BY DEF IInv
<1> QED
  BY Inductive, <1>1, PTL

\* A Close, or an Open that fails, leaves the stream closed and no session of
\* the lower stream behind, whatever the backend returned.
THEOREM NoSessionKept == Spec => []LowerReleased
<1>1. IInv => LowerReleased
  BY DEF IInv
<1> QED
  BY Inductive, <1>1, PTL
=============================================================================
