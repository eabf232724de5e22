----------------------------- MODULE EventLoop -----------------------------
(***************************************************************************)
(* ManualTransportEventLoop (transport_event_loop.hpp).  DispatchOnce      *)
(* takes a snapshot of the ready registrations and then runs their         *)
(* callbacks; a callback is the application's code and may call back into  *)
(* the loop: register, unregister, set readiness, or dispatch again.  The  *)
(* calls of DispatchOnce in progress form a stack, `frames'.               *)
(***************************************************************************)
EXTENDS Naturals, Sequences, FiniteSets

CONSTANTS
  Masks,             \* the event masks the application passes, sets of events
  MaxRegistrations,  \* Register and RegisterTimer calls that succeed, at most
  MaxDepth,          \* nesting of DispatchOnce, at most
  MaxCalls,          \* calls one callback makes into the loop, at most
  MaxArmings         \* times one timer is armed, at most

\* TransportEventReadable, TransportEventWritable, TransportEventTimer; a mask
\* is a set of them and TransportEventNone the empty set.
Events == {"Readable", "Writable", "Timer"}

ASSUME EventLoopAssumption ==
  /\ Masks \subseteq SUBSET Events
  /\ {MaxRegistrations, MaxDepth, MaxCalls, MaxArmings} \subseteq Nat

VARIABLES
  nextToken_,
  registrations_,  \* token -> [events, readyEvents, timer, id]; id is history
  frames,          \* DispatchOnce calls in progress, the innermost last
  ret,             \* status of the last DispatchOnce that returned
  crashed,         \* a callback was destroyed while it ran, and it showed
  \* History.
  ids,             \* registrations made so far; each has its own id
  last,            \* the last callback started: the event's and the target's data
  armed,           \* per id: times a timer was made ready and not withdrawn
  fired,           \* per id: times its callback was started
  owed             \* tokens made ready whose callback has not been started since

vars == <<nextToken_, registrations_, frames, ret, crashed, ids, last, armed, fired, owed>>

Tokens == DOMAIN registrations_
Top == frames[Len(frames)]

\* A frame: the events collected and not delivered yet, by token; the token
\* whose callback runs (0: none); the calls that callback may still make; and
\* whether anything was collected.
Frame(queue) ==
  [queue |-> queue, running |-> 0, calls |-> MaxCalls, any |-> DOMAIN queue # {}]

\* The least of a set of tokens.
Least(S) == CHOOSE t \in S : \A u \in S : t <= u

TypeOK ==
  /\ nextToken_ \in 1..(MaxRegistrations + 1)
  /\ Tokens \subseteq 1..MaxRegistrations
  /\ \A t \in Tokens :
       registrations_[t] \in [events : SUBSET Events, readyEvents : SUBSET Events,
                              timer : BOOLEAN, id : 1..MaxRegistrations]
  /\ Len(frames) <= MaxDepth
  /\ \A i \in 1..Len(frames) :
       /\ DOMAIN frames[i].queue \subseteq 1..MaxRegistrations
       /\ frames[i].running \in 0..MaxRegistrations
       /\ frames[i].calls \in 0..MaxCalls
  /\ ret \in {"Ok", "WouldBlock"}
  /\ crashed \in BOOLEAN
  /\ ids \in 0..MaxRegistrations
  /\ armed \in [1..MaxRegistrations -> 0..MaxArmings]
  /\ fired \in [1..MaxRegistrations -> Nat]
  /\ owed \subseteq 1..MaxRegistrations

Init ==
  /\ nextToken_ = 1
  /\ registrations_ = <<>>
  /\ frames = <<>>
  /\ ret = "WouldBlock"
  /\ crashed = FALSE
  /\ ids = 0
  /\ last = [wanted |-> 0, got |-> 0, events |-> {}, mask |-> {}]
  /\ armed = [i \in 1..MaxRegistrations |-> 0]
  /\ fired = [i \in 1..MaxRegistrations |-> 0]
  /\ owed = {}

-----------------------------------------------------------------------------
(* Calls of the application, from outside or from a running callback *)

AtTopLevel == frames = <<>>
InCallback == ~AtTopLevel /\ Top.running # 0

MayCall == ~crashed /\ (AtTopLevel \/ (InCallback /\ Top.calls > 0))

\* The stack after a call of the application: a callback's calls are counted.
Counted == IF AtTopLevel THEN frames ELSE [frames EXCEPT ![Len(frames)].calls = @ - 1]

Call == MayCall /\ frames' = Counted

\* Faulty variant: tokens start at 0, which stands for "no token".
NewTokenFromZero == nextToken_ - 1

\* Faulty variant: the lowest free token is handed out again.
NewTokenReused == Least(1..(MaxRegistrations + 1) \ Tokens)

\* token = nextToken_++.
NewToken == nextToken_

\* A registration is entered under a new token.
Enter(registration) ==
  /\ ids < MaxRegistrations
  /\ ids' = ids + 1
  /\ nextToken_' = nextToken_ + 1
  /\ registrations_' = [t \in Tokens \cup {NewToken} |->
                          IF t = NewToken THEN registration ELSE registrations_[t]]

\* Register.  An empty mask or callback is refused and changes nothing.
Register(events) ==
  /\ Call
  /\ events # {}
  /\ Enter([events |-> events, readyEvents |-> {}, timer |-> FALSE, id |-> ids + 1])
  /\ UNCHANGED <<ret, crashed, last, armed, fired, owed>>

\* RegisterTimer: ready at once, whatever the delay.
RegisterTimer ==
  /\ Call
  /\ MaxArmings > 0
  /\ Enter([events |-> {"Timer"}, readyEvents |-> {"Timer"}, timer |-> TRUE, id |-> ids + 1])
  /\ armed' = [armed EXCEPT ![ids + 1] = 1]
  /\ owed' = owed \cup {NewToken}
  /\ UNCHANGED <<ret, crashed, last, fired>>

\* Unregister.  Erasing a registration whose callback is running destroys the
\* callback under its own feet: it may go on unharmed or crash.
Unregister(t) ==
  /\ Call
  /\ registrations_' = [u \in Tokens \ {t} |-> registrations_[u]]
  /\ crashed' \in IF \E i \in 1..Len(frames) : frames[i].running = t /\ t \in Tokens
                  THEN BOOLEAN ELSE {FALSE}
  /\ owed' = owed \ {t}
  /\ UNCHANGED <<nextToken_, ret, ids, last, armed, fired>>

\* What DispatchOnce will report of a registration: readyEvents & events.
Ready(r) == r.readyEvents \cap r.events

\* SetReady on a registered token (on any other it returns NotOpen).
SetReady(t, events) ==
  /\ Call
  /\ t \in Tokens
  /\ registrations_' = [registrations_ EXCEPT ![t].readyEvents = events]
  /\ LET r == registrations_[t]
         was == Ready(r) # {}
         is == events \cap r.events # {}
     IN /\ is /\ ~was => armed[r.id] < MaxArmings
        /\ armed' = IF ~r.timer \/ was = is THEN armed
                    ELSE IF is THEN [armed EXCEPT ![r.id] = @ + 1]
                    ELSE [armed EXCEPT ![r.id] = @ - 1]
        /\ owed' = IF is THEN owed \cup {t} ELSE owed \ {t}
  /\ UNCHANGED <<nextToken_, ret, crashed, ids, last, fired>>

-----------------------------------------------------------------------------
(* DispatchOnce *)

\* Faulty variant: a timer stays ready until it is delivered.
DisarmNothing == registrations_

\* The readiness of the timers that were collected is cleared.
DisarmCollected ==
  [t \in Tokens |->
     IF registrations_[t].timer /\ Ready(registrations_[t]) # {}
     THEN [registrations_[t] EXCEPT !.readyEvents = {}]
     ELSE registrations_[t]]

\* The first loop: what is ready now is collected.
DispatchOnce ==
  /\ MayCall
  /\ Len(frames) < MaxDepth
  /\ LET ready == {t \in Tokens : Ready(registrations_[t]) # {}}
         queue == [t \in ready |-> [events |-> Ready(registrations_[t]),
                                    id |-> registrations_[t].id]]
     IN frames' = Append(Counted, Frame(queue))
  /\ registrations_' = DisarmCollected
  /\ UNCHANGED <<nextToken_, ret, crashed, ids, last, armed, fired, owed>>

Dispatching == ~crashed /\ ~AtTopLevel /\ Top.running = 0

\* Faulty variant: the events left are dropped with the first one.
RestNone(queue, t) == <<>>

\* The queue after the event of token t.
Rest(queue, t) == [u \in DOMAIN queue \ {t} |-> queue[u]]

\* The second loop, one event, in the order of the tokens: the callback is
\* looked up again and run if the token is still registered.
Deliver ==
  /\ Dispatching
  /\ DOMAIN Top.queue # {}
  /\ LET t == Least(DOMAIN Top.queue)
         event == Top.queue[t]
         queue == Rest(Top.queue, t)
     IN IF t \in Tokens
        THEN /\ frames' = [frames EXCEPT ![Len(frames)].queue = queue,
                                          ![Len(frames)].running = t,
                                          ![Len(frames)].calls = MaxCalls]
             /\ last' = [wanted |-> event.id, got |-> registrations_[t].id,
                         events |-> event.events, mask |-> registrations_[t].events]
             /\ fired' = IF registrations_[t].timer
                         THEN [fired EXCEPT ![registrations_[t].id] = @ + 1] ELSE fired
             /\ owed' = owed \ {t}
        ELSE /\ frames' = [frames EXCEPT ![Len(frames)].queue = queue]
             /\ UNCHANGED <<last, fired, owed>>
  /\ UNCHANGED <<nextToken_, registrations_, ret, crashed, ids, armed>>

\* The callback returns to DispatchOnce.
CallbackReturns ==
  /\ ~crashed
  /\ InCallback
  /\ frames' = [frames EXCEPT ![Len(frames)].running = 0]
  /\ UNCHANGED <<nextToken_, registrations_, ret, crashed, ids, last, armed, fired, owed>>

\* DispatchOnce returns; the status says whether anything was collected.
DispatchReturns ==
  /\ Dispatching
  /\ DOMAIN Top.queue = {}
  /\ frames' = SubSeq(frames, 1, Len(frames) - 1)
  /\ ret' = IF Top.any THEN "Ok" ELSE "WouldBlock"
  /\ UNCHANGED <<nextToken_, registrations_, crashed, ids, last, armed, fired, owed>>

LoopStep == Deliver \/ CallbackReturns \/ DispatchReturns

Application ==
  \/ \E m \in Masks : Register(m)
  \/ RegisterTimer
  \/ \E t \in 1..MaxRegistrations : Unregister(t)
  \/ \E t \in Tokens, m \in Masks : SetReady(t, m)
  \/ DispatchOnce

Next == Application \/ LoopStep

Spec == Init /\ [][Next]_vars

\* Callbacks return, DispatchOnce goes on, and the application keeps calling it.
FairSpec == Spec /\ WF_vars(LoopStep) /\ WF_vars(AtTopLevel /\ DispatchOnce)

-----------------------------------------------------------------------------
(* Properties *)

\* An event reaches the registration it was collected from, and only with
\* events that registration asked for, although earlier callbacks of the same
\* or of a nested DispatchOnce may have unregistered and registered in between.
DeliveredToOwner ==
  /\ last.wanted = last.got
  /\ last.events \subseteq last.mask

\* No expiry of a timer is lost or reported twice, however DispatchOnce calls
\* nest: each arming is still pending, waiting in one snapshot, or was fired.
TimerConservation ==
  \A t \in Tokens :
    LET r == registrations_[t]
        waiting == {i \in 1..Len(frames) : t \in DOMAIN frames[i].queue}
    IN r.timer => armed[r.id] = fired[r.id] + Cardinality(waiting)
                                + (IF Ready(r) # {} THEN 1 ELSE 0)

\* While the application keeps dispatching, whatever is made ready is delivered,
\* withdrawn or unregistered: no callback starves behind the others.
ReadyIsServed ==
  \A t \in 1..MaxRegistrations : t \in owed ~> (t \notin owed \/ crashed)
=============================================================================
