------------------------------ MODULE Datagram ------------------------------
(***************************************************************************)
(* The contract of dlms::transport::IDatagramTransport, as its caller      *)
(* relies on it.  A call takes effect when it returns.  One Send is one    *)
(* datagram or none; one Receive hands over the oldest datagram whole, or  *)
(* leaves it where it is.                                                  *)
(***************************************************************************)
EXTENDS Transport

CONSTANTS
  Datagrams,  \* what may arrive: records with a field size
  MaxSize     \* the largest buffer a caller passes

VARIABLES
  open,     \* IsOpen()
  inbox,    \* datagrams that arrived and were not received, oldest first
  outbox,   \* sizes of the datagrams sent, in order
  ret       \* what the last call returned

vars == <<open, inbox, outbox, ret>>

Init ==
  /\ open = FALSE
  /\ inbox = <<>> /\ outbox = <<>>
  /\ ret = NoResult

\* Datagrams may arrive before Open returns.
OpenOk ==
  /\ ~open
  /\ open' = TRUE
  /\ inbox' \in Seq(Datagrams)
  /\ outbox' = <<>>
  /\ ret' = Result("Open", "Ok", 0)

OpenRefused ==
  \E s \in {"AlreadyOpen", "InvalidArgument", "OpenFailed"} :
    /\ (s = "AlreadyOpen") = open
    /\ ret' = Result("Open", s, 0)
    /\ UNCHANGED <<open, inbox, outbox>>

Close ==
  /\ open' = FALSE
  /\ inbox' = <<>> /\ outbox' = <<>>
  /\ ret' = Result("Close", "Ok", 0)

\* Send returns Ok: one datagram with the whole buffer.
Send(size) ==
  /\ open
  /\ outbox' = Append(outbox, size)
  /\ ret' = Result("Send", "Ok", size)
  /\ UNCHANGED <<open, inbox>>

\* Send fails: nothing was sent, so the caller may send again.
SendRefused(size) ==
  \E s \in {"NotOpen", "InvalidArgument", "Timeout", "WouldBlock", "WriteFailed"} :
    /\ (s = "NotOpen") = ~open
    /\ ret' = Result("Send", s, size)
    /\ UNCHANGED <<open, inbox, outbox>>

\* Receive returns Ok: the oldest datagram, whole.
Receive ==
  /\ open /\ inbox # <<>>
  /\ inbox' = Tail(inbox)
  /\ ret' = Result("Receive", "Ok", Head(inbox).size)
  /\ UNCHANGED <<open, outbox>>

\* The oldest datagram does not fit: it is not consumed.
ReceiveTooSmall ==
  /\ open /\ inbox # <<>> /\ Head(inbox).size > 0
  /\ ret' = Result("Receive", "OutputBufferTooSmall", 0)
  /\ UNCHANGED <<open, inbox, outbox>>

ReceiveRefused ==
  \E s \in {"NotOpen", "InvalidArgument", "Timeout", "WouldBlock", "ReadFailed"} :
    /\ (s = "NotOpen") = ~open
    /\ ret' = Result("Receive", s, 0)
    /\ UNCHANGED <<open, inbox, outbox>>

\* The environment: one more datagram arrives.
Arrive ==
  /\ open
  /\ \E d \in Datagrams : inbox' = Append(inbox, d)
  /\ UNCHANGED <<open, outbox, ret>>

Next ==
  \/ OpenOk \/ OpenRefused \/ Close
  \/ \E size \in 0..MaxSize : Send(size) \/ SendRefused(size)
  \/ Receive \/ ReceiveTooSmall \/ ReceiveRefused
  \/ Arrive

Spec == Init /\ [][Next]_vars
=============================================================================
