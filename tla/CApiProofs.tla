----------------------------- MODULE CApiProofs -----------------------------
(***************************************************************************)
(* What the C API guarantees a program with any number of handle variables *)
(* on a heap of any size.                                                  *)
(***************************************************************************)
EXTENDS CApi, TLAPS

\* A transport as NewTransport makes it and Answers changes it.
Transports == [open : BOOLEAN, asked : (0..2) \X (0..1),
               line : {"None", "Even", "Odd"} \X {"One", "Two"}]

\* The settings of a transport are those that were asked for.
SameSettings(t) == t.line = <<CParity[t.asked[1] + 1], CStopBits[t.asked[2] + 1]>>

\* The program's variables and the heap.
HeapOK ==
  /\ kind \in [Slots -> Kinds]
  /\ handle \in [Slots -> Objects \cup {null, garbage}]
  /\ given \subseteq Slots
  /\ DOMAIN heap \subseteq Objects
  /\ heap \in [DOMAIN heap -> Transports]
  /\ \A o \in DOMAIN heap : SameSettings(heap[o])

\* A variable no create function was given is still uninitialised.
Uninitialised == \A s \in Slots \ given : handle[s] = garbage

IInv == HeapOK /\ Uninitialised /\ HandlesOwnTransports

-----------------------------------------------------------------------------
(* Handles and the heap *)

\* Initially no transport exists.
LEMMA InitIInv == Init => IInv
<1> SUFFICES ASSUME Init PROVE IInv
  OBVIOUS
<1>1. DOMAIN heap = {}
  BY DEF Init
<1> QED
  BY <1>1 DEF Init, IInv, HeapOK, Uninitialised, HandlesOwnTransports, Kinds

\* What a transport answers changes its own state and no handle.
LEMMA AnswersStep ==
  ASSUME IInv, NEW s \in given, NEW op, NEW a, a.open \in BOOLEAN,
         handle[s] # null, Answers(s, op, a), UNCHANGED <<kind, handle, given>>
  PROVE  IInv'
<1> DEFINE o == handle[s]
<1>1. o \in DOMAIN heap
  BY DEF IInv, HandlesOwnTransports
<1>2. DOMAIN heap' = DOMAIN heap
  BY DEF Answers
<1>3. /\ heap'[o] = [heap[o] EXCEPT !.open = a.open]
      /\ \A p \in DOMAIN heap \ {o} : heap'[p] = heap[p]
  BY <1>1 DEF Answers, IInv, HeapOK
<1>4. HeapOK' /\ Uninitialised'
  <2>1. heap'[o] \in Transports /\ SameSettings(heap'[o])
    BY <1>1, <1>3 DEF IInv, HeapOK, Transports, SameSettings
  <2>2. heap' = [p \in DOMAIN heap |-> heap'[p]]
    BY <1>2 DEF Answers, IInv, HeapOK
  <2> QED
    BY <1>2, <1>3, <2>1, <2>2 DEF IInv, HeapOK, Uninitialised
<1>5. live' = {p \in DOMAIN heap' : heap'[p].open}
  <2>1. heap'[o].open = a.open
    BY <1>1, <1>3 DEF IInv, HeapOK, Transports
  <2> QED
    BY <1>1, <1>2, <1>3, <2>1 DEF Answers, IInv, HandlesOwnTransports
<1> QED
  BY <1>2, <1>4, <1>5 DEF IInv, HandlesOwnTransports

\* A transport that a create function makes has the settings asked for.
LEMMA CreatedTransport ==
  ASSUME NEW k \in Kinds, NEW args \in Arguments, ~CreateRefuses(k, args)
  PROVE  NewTransport(k, args.settings) \in Transports
         /\ NewTransport(k, args.settings).open = FALSE
         /\ SameSettings(NewTransport(k, args.settings))
<1> DEFINE t == NewTransport(k, args.settings)
<1>1. CASE k # "serial"
  <2>1. t = [open |-> FALSE, asked |-> <<0, 0>>, line |-> <<"None", "One">>]
    BY <1>1 DEF NewTransport
  <2>2. CParity[1] = "None" /\ CStopBits[1] = "One"
    BY DEF CParity, CStopBits
  <2>3. t.asked[1] + 1 = 1 /\ t.asked[2] + 1 = 1
    BY <2>1
  <2> QED
    BY <2>1, <2>2, <2>3 DEF Transports, SameSettings
<1>2. CASE k = "serial"
  <2>1. PICK p \in 0..2, b \in 0..1 : args.settings = <<p, b>>
    BY <1>2 DEF CreateRefuses, Arguments, ValidParity, ValidStopBits
  <2>2. ToCppParity(p) = CParity[p + 1] /\ ToCppParity(p) \in {"None", "Even", "Odd"}
    <3>1. CASE p = 0
      BY <3>1 DEF ToCppParity, CParity
    <3>2. CASE p = 1
      BY <3>2 DEF ToCppParity, CParity
    <3>3. CASE p = 2
      BY <3>3 DEF ToCppParity, CParity
    <3> QED
      BY <3>1, <3>2, <3>3
  <2>3. ToCppStopBits(b) = CStopBits[b + 1] /\ ToCppStopBits(b) \in {"One", "Two"}
    <3>1. CASE b = 0
      BY <3>1 DEF ToCppStopBits, CStopBits
    <3>2. CASE b = 1
      BY <3>2 DEF ToCppStopBits, CStopBits
    <3> QED
      BY <3>1, <3>2
  <2>4. t = [open |-> FALSE, asked |-> <<p, b>>,
             line |-> <<ToCppParity(p), ToCppStopBits(b)>>]
    BY <1>2, <2>1 DEF NewTransport
  <2> QED
    BY <2>2, <2>3, <2>4 DEF Transports, SameSettings
<1> QED
  BY <1>1, <1>2

\* A new transport gets one handle, and the variable it is put in held none.
LEMMA CreateStep ==
  ASSUME IInv, NEW s \in Slots, Create(s)
  PROVE  IInv'
<1>1. PICK o \in Objects \ DOMAIN heap, args \in Arguments :
        /\ ~CreateRefuses(kind[s], args)
        /\ handle' = [handle EXCEPT ![s] = o]
        /\ heap' = [p \in DOMAIN heap \cup {o} |->
                      IF p = o THEN NewTransport(kind[s], args.settings) ELSE heap[p]]
  BY DEF Create
<1> DEFINE t == NewTransport(kind[s], args.settings)
<1>2. t \in Transports /\ t.open = FALSE /\ SameSettings(t)
  BY <1>1, CreatedTransport DEF IInv, HeapOK
<1>3. /\ DOMAIN heap' = DOMAIN heap \cup {o}
      /\ heap'[o] = t
      /\ \A p \in DOMAIN heap : heap'[p] = heap[p]
  BY <1>1
<1>4. /\ handle'[s] = o
      /\ \A u \in Slots \ {s} : handle'[u] = handle[u]
      /\ handle' \in [Slots -> Objects \cup {null, garbage}]
      /\ given' = given \cup {s}
      /\ live' = live
  BY <1>1 DEF Create, IInv, HeapOK
<1>5. \A u \in Slots : handle[u] # o /\ (u = s => handle[u] \notin DOMAIN heap)
  BY <1>1, CApiAssumption DEF Create, NoHandle, IInv, HeapOK, Uninitialised, HandlesOwnTransports
<1>6. HeapOK' /\ Uninitialised'
  <2>1. heap' \in [DOMAIN heap' -> Transports]
    BY <1>1, <1>2, <1>3 DEF IInv, HeapOK
  <2>2. \A p \in DOMAIN heap' : SameSettings(heap'[p])
    BY <1>2, <1>3 DEF IInv, HeapOK
  <2> QED
    BY <1>3, <1>4, <2>1, <2>2 DEF Create, IInv, HeapOK, Uninitialised
<1>7. live' = {p \in DOMAIN heap' : heap'[p].open}
  BY <1>1, <1>2, <1>3, <1>4 DEF IInv, HandlesOwnTransports
<1>8. \A p \in DOMAIN heap' : \E u \in Slots : handle'[u] = p
  BY <1>3, <1>4, <1>5 DEF IInv, HandlesOwnTransports
<1>9. \A u \in given' : handle'[u] = null \/ handle'[u] \in DOMAIN heap'
  BY <1>3, <1>4 DEF IInv, HeapOK, HandlesOwnTransports
<1>10. \A u, v \in Slots : u # v /\ handle'[u] \in DOMAIN heap' => handle'[u] # handle'[v]
  BY <1>3, <1>4, <1>5 DEF IInv, HandlesOwnTransports
<1> QED
  BY <1>6, <1>7, <1>8, <1>9, <1>10 DEF IInv, HandlesOwnTransports

\* A create that fails makes no transport, and a variable it was given held none.
LEMMA CreateFailsStep ==
  ASSUME IInv, NEW s \in Slots, CreateFails(s)
  PROVE  IInv'
<1>1. heap' = heap /\ live' = live /\ kind' = kind
  BY DEF CreateFails
<1>2. CASE UNCHANGED <<given, handle>>
  BY <1>1, <1>2 DEF IInv, HeapOK, Uninitialised, HandlesOwnTransports
<1>3. CASE given' = given \cup {s} /\ handle' = [handle EXCEPT ![s] = null]
  <2>1. handle[s] \notin DOMAIN heap
    BY CApiAssumption DEF CreateFails, NoHandle, IInv, HeapOK, Uninitialised
  <2>2. /\ handle' \in [Slots -> Objects \cup {null, garbage}]
        /\ handle'[s] = null
        /\ \A u \in Slots \ {s} : handle'[u] = handle[u]
    BY <1>3 DEF IInv, HeapOK
  <2>3. null \notin DOMAIN heap
    BY CApiAssumption DEF IInv, HeapOK
  <2>4. HeapOK' /\ Uninitialised'
    BY <1>1, <1>3, <2>2 DEF IInv, HeapOK, Uninitialised
  <2> QED
    BY <1>1, <1>3, <2>1, <2>2, <2>3, <2>4 DEF IInv, HeapOK, HandlesOwnTransports
<1> QED
  BY <1>2, <1>3 DEF CreateFails

\* destroy takes a transport, its OS handle and its only handle away together.
LEMMA DestroyStep ==
  ASSUME IInv, NEW s \in given, Destroy(s)
  PROVE  IInv'
<1> DEFINE o == handle[s]
<1>1. s \in Slots
  BY DEF IInv, HeapOK
<1>2. /\ DOMAIN heap' = DOMAIN heap \ {o}
      /\ \A p \in DOMAIN heap' : heap'[p] = heap[p]
      /\ live' = live \ {o}
      /\ kind' = kind /\ given' = given
  BY DEF Destroy
<1>3. /\ handle' \in [Slots -> Objects \cup {null, garbage}]
      /\ handle'[s] = null
      /\ \A u \in Slots \ {s} : handle'[u] = handle[u]
  BY <1>1 DEF Destroy, IInv, HeapOK
<1>4. null \notin DOMAIN heap
  BY CApiAssumption DEF IInv, HeapOK
<1>5. HeapOK' /\ Uninitialised'
  <2>1. heap' \in [DOMAIN heap' -> Transports]
    BY <1>2 DEF Destroy, IInv, HeapOK
  <2> QED
    BY <1>2, <1>3, <2>1 DEF IInv, HeapOK, Uninitialised
<1>6. live' = {p \in DOMAIN heap' : heap'[p].open}
  BY <1>2 DEF IInv, HandlesOwnTransports
<1>7. \A u \in given' : handle'[u] = null \/ handle'[u] \in DOMAIN heap'
  BY <1>1, <1>2, <1>3 DEF IInv, HeapOK, HandlesOwnTransports
<1>8. \A p \in DOMAIN heap' : \E u \in Slots : handle'[u] = p
  BY <1>2, <1>3 DEF IInv, HandlesOwnTransports
<1>9. \A u, v \in Slots : u # v /\ handle'[u] \in DOMAIN heap' => handle'[u] # handle'[v]
  BY <1>2, <1>3, <1>4 DEF IInv, HandlesOwnTransports
<1> QED
  BY <1>5, <1>6, <1>7, <1>8, <1>9 DEF IInv, HandlesOwnTransports

\* Whatever a transport answers, it says whether it is open now.
LEMMA AnswersOpen ==
  ASSUME NEW k, NEW open, NEW size, NEW a,
         a \in OpenAnswers(k, open) \cup OutputAnswers(k, open) \cup InputAnswers(k, open, size)
  PROVE  a.open \in BOOLEAN
<1>1. ASSUME NEW st, NEW n, a = Answer(st, n, TRUE) \/ a = Answer(st, n, FALSE)
      PROVE  a.open \in BOOLEAN
  <2>1. CASE a = Answer(st, n, TRUE)
    BY <2>1 DEF Answer
  <2>2. CASE a = Answer(st, n, FALSE)
    BY <2>2 DEF Answer
  <2> QED
    BY <1>1, <2>1, <2>2
<1>2. CASE a \in OpenAnswers(k, open)
  <2>1. \E st, n : a = Answer(st, n, TRUE) \/ a = Answer(st, n, FALSE)
    BY <1>2 DEF OpenAnswers
  <2> QED
    BY <1>1, <2>1
<1>3. CASE a \in OutputAnswers(k, open)
  <2>1. \E st, n : a = Answer(st, n, TRUE) \/ a = Answer(st, n, FALSE)
    BY <1>3 DEF OutputAnswers
  <2> QED
    BY <1>1, <2>1
<1>4. CASE a \in InputAnswers(k, open, size)
  <2>1. \E st, n : a = Answer(st, n, TRUE) \/ a = Answer(st, n, FALSE)
    BY <1>4 DEF InputAnswers
  <2> QED
    BY <1>1, <2>1
<1> QED
  BY <1>2, <1>3, <1>4

\* A call that does not get to a transport touches neither handles nor heap.
LEMMA RefusedStep ==
  IInv /\ UNCHANGED <<kind, handle, given, heap, live>> => IInv'
BY DEF IInv, HeapOK, Uninitialised, HandlesOwnTransports

\* Every step preserves the ownership of the transports.
LEMMA OwnershipStep == IInv /\ [Next]_vars => IInv'
<1> SUFFICES ASSUME IInv, [Next]_vars PROVE IInv'
  OBVIOUS
<1>1. CASE UNCHANGED vars
  BY <1>1, RefusedStep DEF vars
<1>2. ASSUME NEW s \in Slots, CreateFails(s) \/ Create(s) PROVE IInv'
  BY <1>2, CreateStep, CreateFailsStep
<1>3. ASSUME NEW s \in Slots, UseHandle(s) PROVE IInv'
  <2>1. s \in given
    BY <1>3 DEF UseHandle
  <2>2. CASE Destroy(s)
    BY <2>1, <2>2, DestroyStep
  <2>3. CASE Open(s)
    <3>1. CASE NullHandle(s, "open")
      BY <2>3, <3>1, RefusedStep DEF Open, NullHandle
    <3>2. CASE handle[s] # null
      <4>1. PICK a \in OpenAnswers(kind[s], heap[handle[s]].open) : Answers(s, "open", a)
        BY <2>3, <3>2 DEF Open, NullHandle
      <4>2. a.open \in BOOLEAN
        BY AnswersOpen
      <4> QED
        BY <2>1, <2>3, <3>2, <4>1, <4>2, AnswersStep DEF Open
    <3> QED
      BY <2>3, <3>1, <3>2 DEF Open
  <2>4. CASE Close(s)
    <3>1. CASE NullHandle(s, "close")
      BY <2>4, <3>1, RefusedStep DEF Close, NullHandle
    <3>2. CASE handle[s] # null /\ Answers(s, "close", Answer("Ok", 0, FALSE))
      <4>1. PICK a : a = Answer("Ok", 0, FALSE)
        OBVIOUS
      <4>2. a.open \in BOOLEAN
        BY <4>1 DEF Answer
      <4>3. handle[s] # null /\ Answers(s, "close", a)
        BY <3>2, <4>1
      <4>4. UNCHANGED <<kind, handle, given>>
        BY <2>4 DEF Close
      <4> QED
        BY <2>1, <4>2, <4>3, <4>4, AnswersStep
    <3> QED
      BY <2>4, <3>1, <3>2 DEF Close
  <2>5. CASE Output(s)
    <3>1. CASE NullHandle(s, "output")
      BY <2>5, <3>1, RefusedStep DEF Output, NullHandle
    <3>2. CASE handle[s] # null
      <4>1. PICK a \in OutputAnswers(kind[s], heap[handle[s]].open) : Answers(s, "output", a)
        BY <2>5, <3>2 DEF Output, NullHandle
      <4>2. a.open \in BOOLEAN
        BY AnswersOpen
      <4> QED
        BY <2>1, <2>5, <3>2, <4>1, <4>2, AnswersStep DEF Output
    <3> QED
      BY <2>5, <3>1, <3>2 DEF Output
  <2>6. ASSUME NEW size \in 0..MaxSize, Input(s, size) PROVE IInv'
    <3>1. PICK a \in InputAnswers(kind[s], heap[handle[s]].open, size) : Answers(s, "input", a)
      BY <2>6 DEF Input
    <3>2. a.open \in BOOLEAN
      BY AnswersOpen
    <3> QED
      BY <2>1, <2>6, <3>1, <3>2, AnswersStep DEF Input
  <2>7. ASSUME NEW isNull \in BOOLEAN, InputRefused(s, isNull) PROVE IInv'
    BY <2>7, RefusedStep DEF InputRefused
  <2>8. CASE IsOpen(s) \/ Monotonic(s) \/ SleepFor(s)
    BY <2>8, RefusedStep DEF IsOpen, Monotonic, SleepFor
  <2> QED
    BY <1>3, <2>2, <2>3, <2>4, <2>5, <2>6, <2>7, <2>8 DEF UseHandle
<1> QED
  BY <1>1, <1>2, <1>3 DEF Next

\* A C program with any number of handle variables of any type may destroy and
\* use what every create function left in them; no transport is lost, shared,
\* or leaves an OS handle behind.
THEOREM OwnershipHolds == Spec => []HandlesOwnTransports
<1>1. IInv => HandlesOwnTransports
  BY DEF IInv
<1> QED
  BY InitIInv, OwnershipStep, <1>1, PTL DEF Spec

-----------------------------------------------------------------------------
(* Statuses and counts *)

\* The index of a status in the enumeration is where its name is found.
LEMMA StatusIndex ==
  ASSUME NEW st \in TransportStatus
  PROVE  IndexIn(CppStatus, st) \in 1..13 /\ CppStatus[IndexIn(CppStatus, st)] = st
<1>1. DOMAIN CppStatus = 1..13
  BY DEF CppStatus
<1>2. \E i \in 1..13 : CppStatus[i] = st
  BY DEF CppStatus, TransportStatus
<1> QED
  BY <1>1, <1>2 DEF IndexIn

\* What the last call left behind: the C++ status behind its number, and no
\* count unless it succeeded.
ResultInv ==
  /\ cpp \in TransportStatus \cup {"none"}
  /\ cpp # "none" => ret.code = ToCStatus(cpp)
  /\ NoStaleCount

\* A call that reaches a transport returns its status, with 0 unless it is Ok.
LEMMA AnswerCounts ==
  ASSUME NEW op, NEW a, a.status \in TransportStatus, a.status # "Ok" => a.n = 0,
         CppReturn(op, a.status), count' = a.n \/ op # "input"
  PROVE  ResultInv'
<1>1. /\ ret' = [op |-> op, code |-> ToCStatus(a.status), counted |-> (op = "input")]
      /\ cpp' = a.status
  BY DEF CppReturn
<1>2. a.status = "Ok" => ToCStatus(a.status) = CValue("Ok")
  BY DEF ToCStatus, CValue, CppStatus, CStatus
<1>3. cpp' # "none" => ret'.code = ToCStatus(cpp')
  BY <1>1
<1>4. NoStaleCount'
  BY <1>1, <1>2 DEF NoStaleCount
<1> QED
  BY <1>1, <1>3, <1>4 DEF ResultInv

\* Whatever a transport answers has a status, and a count only if it is Ok.
LEMMA AnswersStatus ==
  ASSUME NEW k, NEW open, NEW size, NEW a,
         a \in OpenAnswers(k, open) \cup OutputAnswers(k, open) \cup InputAnswers(k, open, size)
  PROVE  a.status \in TransportStatus /\ (a.status # "Ok" => a.n = 0)
<1>1. ASSUME NEW st \in TransportStatus, NEW n, NEW b, a = Answer(st, n, b), n = 0 \/ st = "Ok"
      PROVE  a.status \in TransportStatus /\ (a.status # "Ok" => a.n = 0)
  BY <1>1 DEF Answer
<1>2. CASE a \in OpenAnswers(k, open)
  <2>1. \E st \in TransportStatus, b \in BOOLEAN : a = Answer(st, 0, b)
    BY <1>2 DEF OpenAnswers, TransportStatus
  <2> QED
    BY <1>1, <2>1
<1>3. CASE a \in OutputAnswers(k, open)
  <2>1. \E st \in TransportStatus, b \in BOOLEAN : a = Answer(st, 0, b)
    BY <1>3 DEF OutputAnswers, TransportStatus
  <2> QED
    BY <1>1, <2>1
<1>4. CASE a \in InputAnswers(k, open, size)
  <2>1. \/ \E n \in 0..size : a = Answer("Ok", n, TRUE)
        \/ \E st \in TransportStatus, b \in BOOLEAN : a = Answer(st, 0, b)
    BY <1>4 DEF InputAnswers, TransportStatus
  <2>2. "Ok" \in TransportStatus
    BY DEF TransportStatus
  <2> QED
    BY <1>1, <2>1, <2>2
<1> QED
  BY <1>2, <1>3, <1>4

\* A call that ends in the C layer reports no C++ status and no count.
LEMMA CLayerCounts ==
  ASSUME NEW op, NEW name, CReturn(op, name)
  PROVE  ResultInv'
BY DEF CReturn, ResultInv, NoStaleCount

\* Every step keeps the result and the count in agreement.
LEMMA ResultStep == ResultInv /\ [Next]_vars => ResultInv'
<1> SUFFICES ASSUME ResultInv, [Next]_vars PROVE ResultInv'
  OBVIOUS
<1>1. CASE UNCHANGED vars
  BY <1>1 DEF vars, ResultInv, NoStaleCount
<1>2. ASSUME NEW s \in Slots, CreateFails(s) \/ Create(s) PROVE ResultInv'
  BY <1>2, CLayerCounts DEF CreateFails, Create
<1>3. ASSUME NEW s \in Slots, UseHandle(s) PROVE ResultInv'
  <2>1. CASE Destroy(s)
    BY <2>1, CLayerCounts DEF Destroy
  <2>2. CASE Open(s)
    BY <2>2, CLayerCounts, AnswersStatus, AnswerCounts DEF Open, NullHandle, Answers
  <2>3. CASE Close(s)
    <3>1. CASE NullHandle(s, "close")
      BY <3>1, CLayerCounts DEF NullHandle
    <3>2. CASE Answers(s, "close", Answer("Ok", 0, FALSE))
      <4>1. PICK a : a = Answer("Ok", 0, FALSE)
        OBVIOUS
      <4>2. a.status \in TransportStatus /\ a.n = 0
        BY <4>1 DEF Answer, TransportStatus
      <4> QED
        BY <3>2, <4>1, <4>2, AnswerCounts DEF Answers
    <3> QED
      BY <2>3, <3>1, <3>2 DEF Close
  <2>4. CASE Output(s)
    BY <2>4, CLayerCounts, AnswersStatus, AnswerCounts DEF Output, NullHandle, Answers
  <2>5. ASSUME NEW size \in 0..MaxSize, Input(s, size) PROVE ResultInv'
    BY <2>5, AnswersStatus, AnswerCounts DEF Input, Answers
  <2>6. ASSUME NEW isNull \in BOOLEAN, InputRefused(s, isNull) PROVE ResultInv'
    BY <2>6 DEF InputRefused, CountedReturn, ResultInv, NoStaleCount
  <2>7. CASE IsOpen(s)
    BY <2>7 DEF IsOpen, ResultInv, NoStaleCount
  <2>8. CASE Monotonic(s)
    <3>1. PICK a : a = Answer("Ok", 1, FALSE)
      OBVIOUS
    <3>2. a.status = "Ok" /\ a.n = 1 /\ "Ok" \in TransportStatus
      BY <3>1 DEF Answer, TransportStatus
    <3> QED
      BY <2>8, <3>2, AnswerCounts DEF Monotonic
  <2>9. CASE SleepFor(s)
    <3>1. PICK a : a = Answer("Ok", 0, FALSE)
      OBVIOUS
    <3>2. a.status = "Ok" /\ a.n = 0 /\ "Ok" \in TransportStatus
      BY <3>1 DEF Answer, TransportStatus
    <3> QED
      BY <2>9, <3>2, CLayerCounts, AnswerCounts DEF SleepFor
  <2> QED
    BY <1>3, <2>1, <2>2, <2>3, <2>4, <2>5, <2>6, <2>7, <2>8, <2>9 DEF UseHandle
<1> QED
  BY <1>1, <1>2, <1>3 DEF Next

\* Initially nothing was called.
LEMMA InitResult == Init => ResultInv
BY DEF Init, ResultInv, NoStaleCount

\* After a read that failed, or was refused, the program's count is 0.
THEOREM CountIsFresh == Spec => []NoStaleCount
<1>1. ResultInv => NoStaleCount
  BY DEF ResultInv
<1> QED
  BY InitResult, ResultStep, <1>1, PTL DEF Spec

\* A C program reads the status the transport returned, prints its name, and
\* gets the serial settings it asked for.
THEOREM TranslationHolds == Spec => []TranslationFaithful
<1>1. IInv /\ ResultInv => TranslationFaithful
  <2> SUFFICES ASSUME IInv, ResultInv PROVE TranslationFaithful
    OBVIOUS
  <2>1. CStatus = CppStatus
    BY DEF CStatus, CppStatus
  <2>2. cpp # "none" => CStatus[ret.code + 1] = cpp
    <3> SUFFICES ASSUME cpp # "none" PROVE CStatus[ret.code + 1] = cpp
      OBVIOUS
    <3>1. ret.code = IndexIn(CppStatus, cpp) - 1
      BY DEF ResultInv, ToCStatus
    <3>2. IndexIn(CppStatus, cpp) \in 1..13 /\ CppStatus[IndexIn(CppStatus, cpp)] = cpp
      BY StatusIndex DEF ResultInv
    <3>3. ret.code + 1 = IndexIn(CppStatus, cpp)
      BY <3>1, <3>2
    <3> QED
      BY <2>1, <3>2, <3>3
  <2>3. \A code \in 0..(Len(CStatus) - 1) : StatusToString(code) = CStatus[code + 1]
    <3>1. Len(CppStatus) = 13 /\ DOMAIN CppStatus = 1..13
      BY DEF CppStatus
    <3>2. \A i \in 1..13 : CppStatus[i] \in DOMAIN ToString /\ ToString[CppStatus[i]] = CppStatus[i]
      BY DEF CppStatus, ToString
    <3> QED
      BY <2>1, <3>1, <3>2 DEF StatusToString
  <2> QED
    BY <2>2, <2>3 DEF TranslationFaithful, IInv, HeapOK, SameSettings
<1> QED
  BY InitIInv, OwnershipStep, InitResult, ResultStep, <1>1, PTL DEF Spec
=============================================================================
