----------------------------- MODULE TlsStream -----------------------------
(***************************************************************************)
(* TlsStreamTransport (tls_stream_transport.cpp): a byte stream made of a  *)
(* lower IByteStream and a TLS backend, neither of which it owns.  The     *)
(* lower stream is described by its contract: it may close itself in any   *)
(* call that reads from it.  The backend is UnsupportedTlsStreamBackend or *)
(* one supplied by the application, with every status it may return.       *)
(* A call is split at its calls to the two.                                *)
(***************************************************************************)
EXTENDS Transport

CONSTANT MaxSessions   \* times the lower stream is opened, at most

ASSUME TlsStreamAssumption == MaxSessions \in Nat

VARIABLES
  \* Members of the object.
  config,    \* [lower: lower_ # 0, backend: none, unsupported or real,
             \*  named: verifyPeer implies a serverName]
  open_,
  \* The call in progress.
  pc, status,
  ret,       \* result of the last completed call, until the application touches the lower stream
  \* The lower stream and the backend.
  lowerOpen, \* lower_->IsOpen()
  session,   \* sessions of the lower stream so far
  secured,   \* the session on which the last handshake succeeded, 0: none
  \* History.
  direct     \* sessions the application opened itself while the stream was open

vars == <<config, open_, pc, status, ret, lowerOpen, session, secured, direct>>
object == <<config, open_>>
lowerStream == <<lowerOpen, session>>

Ops == {"none", "Open", "Close", "ReadSome", "WriteAll"}
\* What makes Open give up after lower_->Open(), and after the handshake: to the
\* second check, AlreadyOpen is a failure like any other.
LowerOpenFailures == TransportStatus \ {"Ok", "AlreadyOpen"}
HandshakeFailures ==
  IF config.backend = "unsupported" THEN {"UnsupportedFeature"} ELSE TransportStatus \ {"Ok"}

TypeOK ==
  /\ config \in [lower : BOOLEAN, backend : {"none", "unsupported", "real"}, named : BOOLEAN]
  /\ open_ \in BOOLEAN
  /\ pc \in {"idle", "lowerOpen", "handshake", "handshakeClose", "backendClose", "lowerClose",
             "transfer", "destroyed"}
  /\ status \in TransportStatus
  /\ ret \in [op : Ops, status : TransportStatus, n : {0}]
  /\ lowerOpen \in BOOLEAN
  /\ session \in 0..MaxSessions /\ direct \subseteq 1..session
  /\ secured \in IF open_ /\ pc # "lowerClose" THEN 1..session ELSE {0}

\* The application may have opened the lower stream before.
Init ==
  /\ config \in [lower : BOOLEAN, backend : {"none", "unsupported", "real"}, named : BOOLEAN]
  /\ open_ = FALSE
  /\ pc = "idle" /\ status = "Ok"
  /\ ret = NoResult
  /\ lowerOpen \in {FALSE, config.lower /\ MaxSessions > 0}
  /\ session = IF lowerOpen THEN 1 ELSE 0
  /\ secured = 0
  /\ direct = {}

Return(op, s) == ret' = Result(op, s, 0) /\ pc' = "idle"

HasValidConfiguration == config.lower /\ config.backend # "none" /\ config.named

IsOpen == open_ /\ config.lower /\ lowerOpen

-----------------------------------------------------------------------------
(* Open *)

CallOpen ==
  /\ pc = "idle"
  /\ IF open_ THEN Return("Open", "AlreadyOpen")
     ELSE IF ~HasValidConfiguration THEN Return("Open", "InvalidArgument")
     ELSE pc' = "lowerOpen" /\ UNCHANGED ret
  /\ UNCHANGED <<object, status, lowerStream, secured, direct>>

\* lower_->Open(): AlreadyOpen is as good as Ok.
LowerOpens ==
  /\ pc = "lowerOpen"
  /\ \/ lowerOpen /\ UNCHANGED session
     \/ ~lowerOpen /\ session < MaxSessions /\ session' = session + 1
  /\ lowerOpen' = TRUE
  /\ pc' = "handshake"
  /\ UNCHANGED <<object, status, ret, secured, direct>>

LowerOpenFails ==
  /\ pc = "lowerOpen"
  /\ ~lowerOpen
  /\ \E s \in LowerOpenFailures : Return("Open", s)
  /\ UNCHANGED <<object, status, lowerStream, secured, direct>>

\* Handshake succeeds, which it can do only on an open stream.
Handshake ==
  /\ pc = "handshake"
  /\ config.backend = "real" /\ lowerOpen
  /\ secured' = session
  /\ open_' = TRUE
  /\ Return("Open", "Ok")
  /\ UNCHANGED <<config, status, lowerStream, direct>>

\* Faulty variant: the status of the handshake is returned, but not acted on.
HandshakeFailsIgnored ==
  /\ pc = "handshake"
  /\ open_' = TRUE
  /\ \E s \in HandshakeFailures : Return("Open", s)
  /\ UNCHANGED <<config, status, lowerStream, secured, direct>>

\* Handshake fails; the lower stream may have seen the peer's close in it.
HandshakeFails ==
  /\ pc = "handshake"
  /\ status' \in HandshakeFailures
  /\ \/ UNCHANGED lowerOpen
     \/ config.backend = "real" /\ lowerOpen' = FALSE
  /\ pc' = "handshakeClose"
  /\ UNCHANGED <<object, ret, session, secured, direct>>

\* Faulty variant: the lower stream is left open.
HandshakeCloseForgotten ==
  /\ pc = "handshakeClose"
  /\ Return("Open", status)
  /\ UNCHANGED <<object, status, lowerStream, secured, direct>>

\* lower_->Close().
HandshakeClose ==
  /\ pc = "handshakeClose"
  /\ lowerOpen' = FALSE
  /\ Return("Open", status)
  /\ UNCHANGED <<object, status, session, secured, direct>>

-----------------------------------------------------------------------------
(* Close and the destructor *)

\* A stream that is not open closes its lower stream all the same.
CallClose ==
  /\ pc = "idle"
  /\ \/ /\ ~open_
        /\ lowerOpen' = (lowerOpen /\ ~config.lower)
        /\ ret' = Result("Close", "Ok", 0)
        /\ pc' \in {"idle", "destroyed"}
     \/ /\ open_
        /\ pc' = "backendClose"
        /\ UNCHANGED <<ret, lowerOpen>>
  /\ UNCHANGED <<object, status, session, secured, direct>>

\* backend_->Close(*lower_), which may close the lower stream, or fail.
BackendClose ==
  /\ pc = "backendClose"
  /\ status' \in TransportStatus
  /\ lowerOpen' \in {lowerOpen, FALSE}
  /\ secured' = 0
  /\ pc' = "lowerClose"
  /\ UNCHANGED <<object, ret, session, direct>>

\* lower_->Close() returns Ok, so the backend's status is returned.
LowerClose ==
  /\ pc = "lowerClose"
  /\ lowerOpen' = FALSE
  /\ open_' = FALSE
  /\ ret' = Result("Close", status, 0)
  /\ pc' \in {"idle", "destroyed"}
  /\ UNCHANGED <<config, status, session, secured, direct>>

-----------------------------------------------------------------------------
(* ReadSome and WriteAll *)

CallTransfer(op, invalid) ==
  /\ pc = "idle"
  /\ IF ~open_ THEN Return(op, "NotOpen")
     ELSE IF invalid THEN Return(op, "InvalidArgument")
     ELSE pc' = "transfer" /\ ret' = Result(op, "Ok", 0)
  /\ UNCHANGED <<object, status, lowerStream, secured, direct>>

\* The backend reads from the lower stream or writes to it, and the lower
\* stream may see the peer's close.
Transfer ==
  /\ pc = "transfer"
  /\ lowerOpen' \in {lowerOpen, FALSE}
  /\ \E s \in TransportStatus : Return(ret.op, s)
  /\ UNCHANGED <<object, status, session, secured, direct>>

-----------------------------------------------------------------------------
(* The application owns the lower stream and may open or close it between *)
(* two calls                                                              *)

ApplicationOpensLower ==
  /\ pc = "idle"
  /\ config.lower /\ ~lowerOpen
  /\ session < MaxSessions
  /\ lowerOpen' = TRUE
  /\ session' = session + 1
  /\ direct' = IF open_ THEN direct \cup {session'} ELSE direct
  /\ ret' = NoResult
  /\ UNCHANGED <<object, pc, status, secured>>

ApplicationClosesLower ==
  /\ pc = "idle"
  /\ config.lower /\ lowerOpen
  /\ lowerOpen' = FALSE
  /\ ret' = NoResult
  /\ UNCHANGED <<object, pc, status, session, secured, direct>>

-----------------------------------------------------------------------------
Next ==
  \/ CallOpen \/ LowerOpens \/ LowerOpenFails \/ Handshake \/ HandshakeFails \/ HandshakeClose
  \/ CallClose \/ BackendClose \/ LowerClose
  \/ \E op \in {"ReadSome", "WriteAll"}, invalid \in BOOLEAN : CallTransfer(op, invalid)
  \/ Transfer
  \/ ApplicationOpensLower \/ ApplicationClosesLower

Spec == Init /\ [][Next]_vars

-----------------------------------------------------------------------------
(* Properties *)

\* A stream that is open, or hands data to its backend, does so on the session
\* of the lower stream that its handshake secured, whatever sequence of failed
\* opens, peer closes, closes behind its back and reopenings leads there.  The
\* one exception is a session the application opened on the lower stream while
\* the TLS stream was open: open_ does not follow the lower stream.
HandshakeFirst ==
  pc \in {"idle", "transfer"} /\ IsOpen => session \in {secured} \cup direct

\* After a Close, or an Open that failed with a valid configuration, the stream
\* is not open and keeps no session of the lower stream, whatever the backend
\* returned and whoever opened the lower stream.  The failures include a
\* handshake that returned AlreadyOpen, on a stream that was not.
LowerReleased ==
  /\ pc \in {"idle", "destroyed"}
  /\ \/ ret.op = "Close"
     \/ ret.op = "Open" /\ ret.status # "Ok" /\ HasValidConfiguration
        /\ (ret.status = "AlreadyOpen" => ~open_)
  => ~open_ /\ ~(config.lower /\ lowerOpen)
=============================================================================
