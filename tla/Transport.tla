----------------------------- MODULE Transport -----------------------------
(***************************************************************************)
(* What every transport of the library shares: the status codes of         *)
(* transport_status.hpp and the shape of a call's result.                  *)
(***************************************************************************)
EXTENDS Naturals, Sequences

\* The enumerators of dlms::transport::TransportStatus.
TransportStatus ==
  {"Ok", "InvalidArgument", "NotOpen", "AlreadyOpen", "OpenFailed",
   "ReadFailed", "WriteFailed", "Timeout", "ConnectionClosed", "WouldBlock",
   "OutputBufferTooSmall", "UnsupportedFeature", "InternalError"}

\* What the last completed call returned: the operation, its status, and a
\* number of bytes, which ReadSome reports and WriteAll was given (0 for the
\* other operations).
Result(op, status, n) == [op |-> op, status |-> status, n |-> n]

\* The result before any call has completed.
NoResult == Result("none", "Ok", 0)

\* A byte is the pair of the call that supplied it and its index in that
\* call's buffer.
Byte == Nat \X Nat

\* The bytes from+1 .. from+n of the buffer of write number w.
Bytes(w, from, n) == [i \in 1..n |-> <<w, from + i>>]
=============================================================================
