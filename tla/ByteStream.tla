----------------------------- MODULE ByteStream -----------------------------
(***************************************************************************)
(* The contract of dlms::transport::IByteStream, as its caller relies on   *)
(* it.  A call takes effect in one step, when it returns.  The stream      *)
(* lives through sessions: a successful Open starts one, and Close or the  *)
(* observation of the peer's close ends it.  Within a session bytes        *)
(* arrive from the peer, are delivered once and in order, and the outgoing *)
(* stream is the concatenation of what the WriteAll calls were given,      *)
(* except that a failed WriteAll contributes only a proper prefix.         *)
(* Incoming bytes are counted: the n-th byte delivered is the n-th sent.   *)
(***************************************************************************)
EXTENDS Transport

CONSTANTS
  Writes,     \* identities of the WriteAll calls of a session
  MaxSize     \* the largest buffer a caller passes

VARIABLES
  open,       \* IsOpen()
  peerSent,   \* bytes the peer sent in this session
  delivered,  \* bytes ReadSome handed to the caller in this session
  eof,        \* the peer has closed its side
  broken,     \* the connection was reset
  sent,       \* bytes accepted for transmission in this session, in order
  ret         \* what the last call returned

vars == <<open, peerSent, delivered, eof, broken, sent, ret>>

Session == <<peerSent, delivered, eof, broken, sent>>

Init ==
  /\ open \in BOOLEAN
  /\ Session = <<0, 0, FALSE, FALSE, <<>> >>
  /\ ret = NoResult

\* The session ends and nothing of it is left.
EndSession ==
  /\ open' = FALSE
  /\ Session' = <<0, 0, FALSE, FALSE, <<>> >>

\* Open returns Ok.  The peer may have sent, closed or reset already, but
\* nothing has been delivered and nothing of an earlier session is left.
OpenOk ==
  /\ ~open
  /\ open' = TRUE
  /\ delivered' = 0 /\ sent' = <<>>
  /\ peerSent' \in Nat /\ eof' \in BOOLEAN /\ broken' \in BOOLEAN
  /\ ret' = Result("Open", "Ok", 0)

\* byte_stream.hpp lists AlreadyOpen, InvalidArgument and OpenFailed; Timeout is
\* what tcp_stream_transport.hpp adds for its connect timeout.
OpenRefused ==
  \E s \in {"AlreadyOpen", "InvalidArgument", "OpenFailed", "Timeout"} :
    /\ (s = "AlreadyOpen") = open
    /\ ret' = Result("Open", s, 0)
    /\ UNCHANGED <<open, Session>>

Close ==
  /\ EndSession
  /\ ret' = Result("Close", "Ok", 0)

\* ReadSome returns Ok.
Read(n) ==
  /\ open
  /\ delivered + n <= peerSent
  /\ delivered' = delivered + n
  /\ ret' = Result("ReadSome", "Ok", n)
  /\ UNCHANGED <<open, peerSent, eof, broken, sent>>

\* A failed read or write leaves the stream open, also on a broken connection:
\* IsOpen ends with Close or the peer's close, and the interface asks no more.

\* ReadSome returns ConnectionClosed: only when the peer has closed and every
\* byte it sent has been delivered, or the connection is broken.
ReadClosed ==
  /\ open
  /\ \/ eof /\ delivered = peerSent
     \/ broken
  /\ EndSession
  /\ ret' = Result("ReadSome", "ConnectionClosed", 0)

ReadRefused ==
  \E s \in {"NotOpen", "InvalidArgument", "Timeout", "WouldBlock", "ReadFailed"} :
    /\ (s = "NotOpen") = ~open
    /\ ret' = Result("ReadSome", s, 0)
    /\ UNCHANGED <<open, Session>>

\* WriteAll adds the first n bytes of the buffer of write w to the stream:
\* all of them when it returns Ok, a proper prefix when it fails (nothing, when
\* there was nothing to write).
Write(w, size, n) ==
  /\ open
  /\ \E s \in {"Ok", "Timeout", "WouldBlock", "WriteFailed"} :
       /\ (s = "Ok") = (n = size) \/ size = 0
       /\ ret' = Result("WriteAll", s, size)
  /\ sent' = sent \o Bytes(w, 0, n)
  /\ UNCHANGED <<open, peerSent, delivered, eof, broken>>

WriteRefused ==
  \E s \in {"NotOpen", "InvalidArgument"}, size \in 0..MaxSize :
    /\ (s = "NotOpen") = ~open
    /\ ret' = Result("WriteAll", s, size)
    /\ UNCHANGED <<open, Session>>

\* The environment: the peer sends, closes, or the connection breaks.
PeerSends ==
  /\ open /\ ~eof /\ ~broken
  /\ peerSent' \in Nat /\ peerSent' > peerSent
  /\ UNCHANGED <<open, delivered, eof, broken, sent, ret>>

PeerCloses ==
  /\ open
  /\ eof' = TRUE
  /\ UNCHANGED <<open, peerSent, delivered, broken, sent, ret>>

Breaks ==
  /\ open
  /\ broken' = TRUE
  /\ UNCHANGED <<open, peerSent, delivered, eof, sent, ret>>

Next ==
  \/ OpenOk \/ OpenRefused \/ Close
  \/ (\E n \in 0..MaxSize : Read(n)) \/ ReadClosed \/ ReadRefused
  \/ (\E w \in Writes, size \in 0..MaxSize : \E n \in 0..size : Write(w, size, n))
  \/ WriteRefused
  \/ PeerSends \/ PeerCloses \/ Breaks

Spec == Init /\ [][Next]_vars
=============================================================================
