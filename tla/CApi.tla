------------------------------- MODULE CApi -------------------------------
(***************************************************************************)
(* The C API (transport_c_api.cpp) over the C++ transports: a C program    *)
(* with some typed handle variables creates, uses and destroys transports  *)
(* through them.  A transport is known by what the interfaces promise of   *)
(* it; the C layer is modelled in full: its argument checks and their      *)
(* order, what it writes through the pointers it is given, how it          *)
(* translates enumerations, and what becomes of exceptions.  (Only the     *)
(* create functions can meet one, from an allocation: the members they     *)
(* wrap throw nothing.)                                                    *)
(***************************************************************************)
EXTENDS Transport, FiniteSets

CONSTANTS
  Slots,      \* the program's handle variables
  Objects,    \* addresses the heap may hand out
  null,       \* the null pointer
  garbage,    \* what an uninitialised handle variable holds
  MaxSize     \* the largest buffer a program passes

ASSUME CApiAssumption ==
  /\ {null, garbage} \cap Objects = {} /\ null # garbage
  /\ MaxSize \in Nat

VARIABLES
  kind,    \* the type of each handle variable
  handle,  \* its value
  given,   \* the variables whose address a create function was given
  heap,    \* the transports that exist: address -> state
  live,    \* addresses of the transports that have an OS handle open
  count,   \* the program's variable whose address it passes as bytes_read or value
  ret,     \* the last call, the number it returned, and whether it was given count
  cpp      \* History: the C++ status behind it, "none" if no transport was reached

vars == <<kind, handle, given, heap, live, count, ret, cpp>>

Kinds == {"timer", "tcp", "udp", "serial"}

-----------------------------------------------------------------------------
(* The enumerations of the two languages *)

\* TransportStatus, in the order of its enumerators.
CppStatus ==
  <<"Ok", "InvalidArgument", "NotOpen", "AlreadyOpen", "OpenFailed", "ReadFailed",
    "WriteFailed", "Timeout", "ConnectionClosed", "WouldBlock", "OutputBufferTooSmall",
    "UnsupportedFeature", "InternalError">>

\* dlms_transport_status_t: the name at i + 1 has the value i.
CStatus ==
  <<"Ok", "InvalidArgument", "NotOpen", "AlreadyOpen", "OpenFailed", "ReadFailed",
    "WriteFailed", "Timeout", "ConnectionClosed", "WouldBlock", "OutputBufferTooSmall",
    "UnsupportedFeature", "InternalError">>

IndexIn(names, name) == CHOOSE i \in DOMAIN names : names[i] = name

\* The value of a constant of the C header.
CValue(name) == IndexIn(CStatus, name) - 1

\* Faulty variant: ConnectionClosed was given the value of WouldBlock when the
\* header was written.
ToCStatusShifted(status) ==
  CHOOSE i \in 0..12 : IF status = "ConnectionClosed" THEN i = CValue("WouldBlock")
                       ELSE CppStatus[i + 1] = status

\* The cast through int.
ToCStatus(status) == IndexIn(CppStatus, status) - 1

\* The cases of ToString: the name returned for each enumerator.
ToString ==
  [Ok |-> "Ok", InvalidArgument |-> "InvalidArgument", NotOpen |-> "NotOpen",
   AlreadyOpen |-> "AlreadyOpen", OpenFailed |-> "OpenFailed", ReadFailed |-> "ReadFailed",
   WriteFailed |-> "WriteFailed", Timeout |-> "Timeout",
   ConnectionClosed |-> "ConnectionClosed", WouldBlock |-> "WouldBlock",
   OutputBufferTooSmall |-> "OutputBufferTooSmall",
   UnsupportedFeature |-> "UnsupportedFeature", InternalError |-> "InternalError"]

\* dlms_transport_status_to_string: the cast back to an enumerator, which ToString
\* names; a number that is none falls out of its switch.
StatusToString(code) ==
  IF code + 1 \in DOMAIN CppStatus /\ CppStatus[code + 1] \in DOMAIN ToString
  THEN ToString[CppStatus[code + 1]] ELSE "Unknown"

\* The enumerators of the C header by value.
CParity == <<"None", "Even", "Odd">>
CStopBits == <<"One", "Two">>

ValidParity(parity) == parity \in {0, 1, 2}
ValidStopBits(stopBits) == stopBits \in {0, 1}

ToCppParity(parity) ==
  CASE parity = 0 -> "None" [] parity = 1 -> "Even" [] parity = 2 -> "Odd" [] OTHER -> "None"

ToCppStopBits(stopBits) ==
  CASE stopBits = 0 -> "One" [] stopBits = 1 -> "Two" [] OTHER -> "One"

-----------------------------------------------------------------------------
(* The transports, as their interfaces describe them *)

\* A new transport; asked and line are the serial settings as the program
\* numbered them and as the transport got them.
NewTransport(k, asked) ==
  IF k = "serial"
  THEN [open |-> FALSE, asked |-> asked,
        line |-> <<ToCppParity(asked[1]), ToCppStopBits(asked[2])>>]
  ELSE [open |-> FALSE, asked |-> <<0, 0>>, line |-> <<"None", "One">>]

Answer(status, n, open) == [status |-> status, n |-> n, open |-> open]

OpenAnswers(k, open) ==
  IF open THEN {Answer("AlreadyOpen", 0, TRUE)}
  ELSE {Answer("Ok", 0, TRUE)}
       \cup {Answer(s, 0, FALSE) : s \in {"InvalidArgument", "OpenFailed"}}
       \cup {Answer(s, 0, FALSE) : s \in IF k = "tcp" THEN {"Timeout", "WriteFailed"} ELSE {}}

\* ReadSome and Receive; only TCP observes its peer's close.
InputAnswers(k, open, size) ==
  IF ~open THEN {Answer("NotOpen", 0, FALSE)}
  ELSE {Answer("Ok", n, TRUE) : n \in 0..size}
       \cup {Answer(s, 0, TRUE) : s \in {"InvalidArgument", "Timeout", "WouldBlock", "ReadFailed"}}
       \cup (CASE k = "tcp" -> {Answer("ConnectionClosed", 0, FALSE)}
               [] k = "udp" -> {Answer("OutputBufferTooSmall", 0, TRUE)}
               [] OTHER -> {})

\* WriteAll and Send.
OutputAnswers(k, open) ==
  IF ~open THEN {Answer("NotOpen", 0, FALSE)}
  ELSE {Answer(s, 0, TRUE) : s \in {"Ok", "InvalidArgument", "Timeout", "WriteFailed"}}
       \cup {Answer(s, 0, TRUE) : s \in IF k = "udp" THEN {"WouldBlock"} ELSE {}}

-----------------------------------------------------------------------------
Init ==
  /\ kind \in [Slots -> Kinds]
  /\ handle = [s \in Slots |-> garbage]
  /\ given = {}
  /\ heap = <<>>
  /\ live = {}
  /\ count \in {0, MaxSize + 1}   \* nothing has been read, or a leftover
  /\ ret = [op |-> "none", code |-> 0, counted |-> FALSE]
  /\ cpp = "none"

\* The call ends in the C layer.
CReturn(op, name) ==
  /\ ret' = [op |-> op, code |-> CValue(name), counted |-> FALSE]
  /\ cpp' = "none"

\* The call returns what the transport returned.
CppReturn(op, status) ==
  /\ ret' = [op |-> op, code |-> ToCStatus(status), counted |-> op = "input"]
  /\ cpp' = status

-----------------------------------------------------------------------------
(* create and destroy *)

\* What a program may pass: the address of its handle variable, options, in
\* them a host or device name, and numbers for parity and stop bits.
Arguments ==
  [out : BOOLEAN, options : BOOLEAN, name : BOOLEAN, settings : (0..3) \X (0..2)]

\* The timer has no options, UDP no name it cannot do without, and only serial
\* has settings.
CreateRefuses(k, args) ==
  \/ ~args.out
  \/ k # "timer" /\ ~args.options
  \/ k \in {"tcp", "serial"} /\ ~args.name
  \/ k = "serial" /\ ~(ValidParity(args.settings[1]) /\ ValidStopBits(args.settings[2]))

\* The program gives the address of a variable that holds no handle.
NoHandle(s) == s \notin given \/ handle[s] = null

\* Faulty variant: the program's variable is written only on success.
CreateFailsLate(s) ==
  /\ NoHandle(s)
  /\ \E args \in Arguments :
       /\ IF CreateRefuses(kind[s], args) THEN CReturn("create", "InvalidArgument")
          ELSE CReturn("create", "InternalError")
       /\ given' = IF args.out THEN given \cup {s} ELSE given
  /\ UNCHANGED <<kind, handle, heap, live, count>>

\* A create that fails, in its checks or in an allocation, leaves null behind.
CreateFails(s) ==
  /\ NoHandle(s)
  /\ \E args \in Arguments :
       /\ IF CreateRefuses(kind[s], args) THEN CReturn("create", "InvalidArgument")
          ELSE CReturn("create", "InternalError")
       /\ IF args.out THEN given' = given \cup {s} /\ handle' = [handle EXCEPT ![s] = null]
          ELSE UNCHANGED <<given, handle>>
  /\ UNCHANGED <<kind, heap, live, count>>

Create(s) ==
  /\ NoHandle(s)
  /\ \E o \in Objects \ DOMAIN heap, args \in Arguments :
       /\ ~CreateRefuses(kind[s], args)
       /\ handle' = [handle EXCEPT ![s] = o]
       /\ heap' = [p \in DOMAIN heap \cup {o} |->
                     IF p = o THEN NewTransport(kind[s], args.settings) ELSE heap[p]]
  /\ given' = given \cup {s}
  /\ CReturn("create", "Ok")
  /\ UNCHANGED <<kind, live, count>>

\* delete: the destructor closes the transport, and null is no object.  The
\* program forgets its handle.
Destroy(s) ==
  /\ heap' = [o \in DOMAIN heap \ {handle[s]} |-> heap[o]]
  /\ live' = live \ {handle[s]}
  /\ handle' = [handle EXCEPT ![s] = null]
  /\ CReturn("destroy", "Ok")
  /\ UNCHANGED <<kind, given, count>>

-----------------------------------------------------------------------------
(* Calls on a handle *)

\* The transport behind s answers op with a.
Answers(s, op, a) ==
  LET o == handle[s]
  IN /\ heap' = [heap EXCEPT ![o].open = a.open]
     /\ live' = IF a.open THEN live \cup {o} ELSE live \ {o}
     /\ CppReturn(op, a.status)

NullHandle(s, op) ==
  /\ handle[s] = null
  /\ CReturn(op, "InvalidArgument")
  /\ UNCHANGED <<heap, live>>

IsTransport(s) == kind[s] # "timer"

Open(s) ==
  /\ IsTransport(s)
  /\ \/ NullHandle(s, "open")
     \/ /\ handle[s] # null
        /\ \E a \in OpenAnswers(kind[s], heap[handle[s]].open) : Answers(s, "open", a)
  /\ UNCHANGED <<kind, handle, given, count>>

Close(s) ==
  /\ IsTransport(s)
  /\ \/ NullHandle(s, "close")
     \/ handle[s] # null /\ Answers(s, "close", Answer("Ok", 0, FALSE))
  /\ UNCHANGED <<kind, handle, given, count>>

\* A call with a place for the count, unless isNull, is refused.
CountedReturn(isNull) ==
  /\ ret' = [op |-> "input", code |-> CValue("InvalidArgument"), counted |-> ~isNull]
  /\ cpp' = "none"

\* Faulty variant: the count is zeroed after the checks.
InputRefusedLate(s, isNull) ==
  /\ handle[s] = null \/ isNull
  /\ CountedReturn(isNull)
  /\ UNCHANGED <<kind, handle, given, heap, live, count>>

\* read_some, receive or monotonic_ms without a handle or a place for the count.
InputRefused(s, isNull) ==
  /\ handle[s] = null \/ isNull
  /\ CountedReturn(isNull)
  /\ count' = IF isNull THEN count ELSE 0
  /\ UNCHANGED <<kind, handle, given, heap, live>>

Input(s, size) ==
  /\ IsTransport(s) /\ handle[s] # null
  /\ \E a \in InputAnswers(kind[s], heap[handle[s]].open, size) :
       Answers(s, "input", a) /\ count' = a.n
  /\ UNCHANGED <<kind, handle, given>>

Output(s) ==
  /\ IsTransport(s)
  /\ \/ NullHandle(s, "output")
     \/ /\ handle[s] # null
        /\ \E a \in OutputAnswers(kind[s], heap[handle[s]].open) : Answers(s, "output", a)
  /\ UNCHANGED <<kind, handle, given, count>>

\* is_open, and local_port, which is 0 unless the transport is open.
IsOpen(s) ==
  /\ IsTransport(s)
  /\ ret' = [op |-> "is_open", counted |-> FALSE,
             code |-> IF handle[s] # null /\ heap[handle[s]].open THEN 1 ELSE 0]
  /\ cpp' = "none"
  /\ UNCHANGED <<kind, handle, given, heap, live, count>>

\* monotonic_ms: of the clock's reading only that it is not 0 matters.
Monotonic(s) ==
  /\ kind[s] = "timer" /\ handle[s] # null
  /\ CppReturn("input", "Ok")
  /\ count' = 1
  /\ UNCHANGED <<kind, handle, given, heap, live>>

SleepFor(s) ==
  /\ kind[s] = "timer"
  /\ IF handle[s] = null THEN CReturn("sleep", "InvalidArgument") ELSE CppReturn("sleep", "Ok")
  /\ UNCHANGED <<kind, handle, given, heap, live, count>>

-----------------------------------------------------------------------------
\* A program uses a handle variable that it has given to a create function,
\* whatever that returned.
UseHandle(s) ==
  /\ s \in given
  /\ \/ Destroy(s)
     \/ Open(s) \/ Close(s) \/ Output(s) \/ IsOpen(s)
     \/ \E isNull \in BOOLEAN : InputRefused(s, isNull)
     \/ \E size \in 0..MaxSize : Input(s, size)
     \/ Monotonic(s)
     \/ SleepFor(s)

Next == \E s \in Slots : CreateFails(s) \/ Create(s) \/ UseHandle(s)

Spec == Init /\ [][Next]_vars

-----------------------------------------------------------------------------
(* Properties *)

\* A C program reads in its header's terms what the transport said in those of
\* TransportStatus, although the two enumerations are written apart and joined
\* by a cast; the name it can print is the same; and a serial transport gets the
\* parity and stop bits its program asked for.
TranslationFaithful ==
  /\ cpp # "none" => CStatus[ret.code + 1] = cpp
  /\ \A code \in 0..(Len(CStatus) - 1) : StatusToString(code) = CStatus[code + 1]
  /\ \A o \in DOMAIN heap :
       heap[o].line = <<CParity[heap[o].asked[1] + 1], CStopBits[heap[o].asked[2] + 1]>>

\* A program may destroy or use what any create function wrote, even one that
\* failed: it is null or a transport, every transport is reached by one handle,
\* and only an open transport that still exists has an OS handle.
HandlesOwnTransports ==
  /\ \A s \in given : handle[s] = null \/ handle[s] \in DOMAIN heap
  /\ \A o \in DOMAIN heap : \E s \in Slots : handle[s] = o
  /\ \A s, t \in Slots : s # t /\ handle[s] \in DOMAIN heap => handle[s] # handle[t]
  /\ live = {o \in DOMAIN heap : heap[o].open}

\* The number of bytes a program finds after a read that failed is 0, never
\* what an earlier call left there, even when the call was refused before it
\* reached the transport.  (A call without a place for the count writes none.)
NoStaleCount == ret.counted /\ ret.code # CValue("Ok") => count = 0
=============================================================================
