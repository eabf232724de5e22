-------------------------- MODULE EventLoopProofs --------------------------
(***************************************************************************)
(* ManualTransportEventLoop's invariants for every number of               *)
(* registrations, every nesting of DispatchOnce and every set of masks.    *)
(***************************************************************************)
EXTENDS EventLoop, SequenceTheorems, FiniteSetTheorems, WellFoundedInduction, TLAPS

\* A snapshot: collected events by token.
Snapshots ==
  UNION {[D -> [events : SUBSET Events, id : 1..MaxRegistrations]] :
           D \in SUBSET (1..MaxRegistrations)}

Frames == [queue : Snapshots, running : 0..MaxRegistrations, calls : 0..MaxCalls, any : BOOLEAN]

Registration == [events : SUBSET Events, readyEvents : SUBSET Events, timer : BOOLEAN,
                 id : 1..MaxRegistrations]

\* The loop's members and the counts.
MembersOK ==
  /\ ids \in 0..MaxRegistrations
  /\ ret \in {"Ok", "WouldBlock"} /\ crashed \in BOOLEAN
  /\ owed \subseteq 1..MaxRegistrations
  /\ Tokens \subseteq 1..MaxRegistrations
  /\ \A t \in Tokens : registrations_[t] \in Registration

StackOK == frames \in Seq(Frames) /\ Len(frames) <= MaxDepth

\* Tokens are handed out in order: a registration's id is its token.
TokensFresh ==
  /\ nextToken_ = ids + 1
  /\ Tokens \subseteq 1..ids
  /\ \A t \in Tokens : registrations_[t].id = t

\* A token in a snapshot, whose registration may be gone by now, never comes to
\* mean another registration.
SnapshotsOK ==
  \A i \in 1..Len(frames) : \A t \in DOMAIN frames[i].queue :
    /\ t \in 1..ids /\ frames[i].queue[t].id = t
    /\ t \in Tokens => frames[i].queue[t].events \subseteq registrations_[t].events

\* The frames whose snapshot still holds an event of a token.
Waiting(t) == {i \in 1..Len(frames) : t \in DOMAIN frames[i].queue}

\* A timer's expiry that the next DispatchOnce will collect.
Pending(r) == IF Ready(r) # {} THEN 1 ELSE 0

\* TimerConservation, by token, and what is known of tokens not handed out yet.
TimersOK ==
  /\ armed \in [1..MaxRegistrations -> 0..MaxArmings]
  /\ fired \in [1..MaxRegistrations -> Nat]
  /\ \A t \in 1..MaxRegistrations : t > ids => armed[t] = 0 /\ fired[t] = 0
  /\ \A t \in Tokens : registrations_[t].timer =>
       armed[t] = fired[t] + Cardinality(Waiting(t)) + Pending(registrations_[t])

IInv ==
  /\ MembersOK
  /\ StackOK
  /\ TokensFresh
  /\ SnapshotsOK
  /\ TimersOK
  /\ DeliveredToOwner

-----------------------------------------------------------------------------
(* Sets of tokens, snapshots and the stack *)

\* DispatchOnce goes through the tokens of a snapshot from the least one up.
LEMMA LeastIn ==
  ASSUME NEW S \in SUBSET Nat, S # {}
  PROVE  Least(S) \in S
<1> DEFINE R == OpToRel(<, Nat)
<1>1. PICK x \in S : \A y \in S : ~(<<y, x>> \in R)
  <2>1. IsWellFoundedOn(R, Nat)
    BY NatLessThanWellFounded
  <2> HIDE DEF R
  <2> QED
    BY <2>1, WFMin
<1>2. ASSUME NEW y \in S, y < x
      PROVE  <<y, x>> \in R
  BY <1>2 DEF OpToRel
<1> HIDE DEF R
<1>3. \A y \in S : ~(y < x)
  BY <1>1, <1>2, Zenon
<1>4. \A y \in S : x <= y
  BY <1>3
<1> QED
  BY <1>4 DEF Least

\* The bounds are naturals.
LEMMA Bounds == /\ MaxRegistrations \in Nat /\ MaxDepth \in Nat
                /\ MaxCalls \in Nat /\ MaxArmings \in Nat
BY EventLoopAssumption

\* What a frame of the stack is.
LEMMA FrameFields ==
  ASSUME NEW f \in Frames
  PROVE  /\ DOMAIN f.queue \subseteq 1..MaxRegistrations
         /\ f.queue = [t \in DOMAIN f.queue |-> f.queue[t]]
         /\ \A t \in DOMAIN f.queue :
              f.queue[t] \in [events : SUBSET Events, id : 1..MaxRegistrations]
         /\ f.running \in 0..MaxRegistrations /\ f.calls \in 0..MaxCalls
         /\ f.any \in BOOLEAN
<1>1. f.queue \in Snapshots
  BY DEF Frames
<1>2. PICK D \in SUBSET (1..MaxRegistrations) :
        f.queue \in [D -> [events : SUBSET Events, id : 1..MaxRegistrations]]
  BY <1>1 DEF Snapshots
<1> QED
  BY <1>2 DEF Frames

\* The frames that hold an event of a token can be counted.
LEMMA WaitingFinite ==
  ASSUME frames \in Seq(Frames), NEW t
  PROVE  IsFiniteSet(Waiting(t)) /\ Cardinality(Waiting(t)) \in Nat
<1>1. Len(frames) \in Nat
  BY LenProperties
<1>2. IsFiniteSet(1..Len(frames))
  BY <1>1, FS_Interval
<1>3. IsFiniteSet(Waiting(t))
  BY <1>2, FS_Subset DEF Waiting
<1> QED
  BY <1>3, FS_CardinalityType

\* The stack s has the snapshots of this one.
SameSnapshots(s) ==
  /\ s \in Seq(Frames)
  /\ Len(s) = Len(frames)
  /\ \A i \in 1..Len(frames) : s[i].queue = frames[i].queue

\* A call of the application counts against its callback and leaves every
\* snapshot alone.
LEMMA CountedKeeps ==
  ASSUME frames \in Seq(Frames), MayCall
  PROVE  SameSnapshots(Counted)
<1>1. CASE AtTopLevel
  BY <1>1 DEF Counted, SameSnapshots
<1>2. CASE ~AtTopLevel
  <2>1. Len(frames) \in Nat \ {0}
    BY <1>2, EmptySeq DEF AtTopLevel
  <2>2. Top \in Frames /\ Top.calls > 0
    BY <1>2, <2>1, ElementOfSeq DEF Top, MayCall, InCallback
  <2> DEFINE f == [Top EXCEPT !.calls = Top.calls - 1]
  <2>3. f \in Frames /\ f.queue = Top.queue
    <3>1. Top.calls \in 0..MaxCalls /\ MaxCalls \in Nat
      BY <2>2, FrameFields, Bounds
    <3>2. Top.calls - 1 \in 0..MaxCalls
      BY <2>2, <3>1
    <3> QED
      BY <2>2, <3>2 DEF Frames
  <2>4. Counted = [frames EXCEPT ![Len(frames)] = f]
    BY <1>2, <2>1 DEF Counted, Top
  <2> HIDE DEF f
  <2> QED
    BY <2>1, <2>3, <2>4, ExceptSeq DEF SameSnapshots, Top
<1> QED
  BY <1>1, <1>2

\* Where snapshots stay the same, so does what waits in them.
LEMMA SameWaiting ==
  ASSUME SameSnapshots(frames')
  PROVE  \A t : Waiting(t)' = Waiting(t)
BY DEF SameSnapshots, Waiting

\* The snapshots stay right while registrations keep their masks or go.
LEMMA SnapshotsStay ==
  ASSUME SnapshotsOK, SameSnapshots(frames'), ids' = ids,
         \A t \in Tokens' : t \in Tokens /\ registrations_'[t].events = registrations_[t].events
  PROVE  SnapshotsOK'
<1> SUFFICES ASSUME NEW i \in 1..Len(frames'), NEW t \in DOMAIN frames'[i].queue
             PROVE  /\ t \in 1..ids' /\ frames'[i].queue[t].id = t
                    /\ t \in Tokens' =>
                         frames'[i].queue[t].events \subseteq registrations_'[t].events
  BY DEF SnapshotsOK
<1>1. i \in 1..Len(frames) /\ frames'[i].queue = frames[i].queue
  BY DEF SameSnapshots
<1>2. /\ t \in 1..ids /\ frames[i].queue[t].id = t
      /\ t \in Tokens => frames[i].queue[t].events \subseteq registrations_[t].events
  BY <1>1 DEF SnapshotsOK
<1> QED
  BY <1>1, <1>2

-----------------------------------------------------------------------------
(* The invariant *)

\* Initially.
LEMMA InitIInv == Init => IInv
<1> SUFFICES ASSUME Init PROVE IInv
  OBVIOUS
<1>1. Tokens = {}
  BY DEF Init, Tokens
<1>2. frames \in Seq(Frames) /\ Len(frames) = 0
  BY EmptySeq DEF Init
<1>3. MembersOK
  <2>1. ids \in 0..MaxRegistrations
    BY Bounds DEF Init
  <2> QED
    BY <1>1, <2>1 DEF Init, MembersOK
<1>a. TokensFresh /\ DeliveredToOwner
  BY <1>1 DEF Init, TokensFresh, DeliveredToOwner
<1>4. StackOK /\ SnapshotsOK
  BY <1>2, Bounds DEF StackOK, SnapshotsOK
<1>5. TimersOK
  BY <1>1, Bounds DEF Init, TimersOK
<1> QED
  BY <1>3, <1>a, <1>4, <1>5 DEF IInv

\* It says what the type invariant and TimerConservation say.
LEMMA IInvImplies == IInv => TypeOK /\ DeliveredToOwner /\ TimerConservation
<1> SUFFICES ASSUME IInv PROVE TypeOK /\ DeliveredToOwner /\ TimerConservation
  OBVIOUS
<1>1. \A i \in 1..Len(frames) :
        /\ DOMAIN frames[i].queue \subseteq 1..MaxRegistrations
        /\ frames[i].running \in 0..MaxRegistrations
        /\ frames[i].calls \in 0..MaxCalls
  BY FrameFields, ElementOfSeq DEF IInv, StackOK
<1>2. nextToken_ \in 1..(MaxRegistrations + 1)
  BY Bounds DEF IInv, MembersOK, TokensFresh
<1>3. TypeOK
  BY <1>1, <1>2 DEF IInv, MembersOK, StackOK, TimersOK, TypeOK, Registration
<1>4. TimerConservation
  <2> SUFFICES ASSUME NEW t \in Tokens, registrations_[t].timer
               PROVE  armed[t] = fired[t] + Cardinality(Waiting(t))
                                  + (IF Ready(registrations_[t]) # {} THEN 1 ELSE 0)
    BY DEF IInv, TokensFresh, TimerConservation, Waiting
  <2> QED
    BY DEF IInv, TimersOK, Pending
<1> QED
  BY <1>3, <1>4 DEF IInv

\* A new registration takes a token that no snapshot holds.
LEMMA EnterStep ==
  ASSUME IInv, Call, NEW r \in Registration, r.id = ids + 1, Enter(r),
         Pending(r) <= MaxArmings, armed' = [armed EXCEPT ![ids + 1] = Pending(r)],
         owed' \subseteq owed \cup {NewToken}, UNCHANGED <<ret, crashed, last, fired>>
  PROVE  IInv'
<1> DEFINE n == ids + 1
<1>1. /\ NewToken = n /\ nextToken_' = n + 1 /\ ids' = n /\ r.id = n
      /\ n \in 1..MaxRegistrations /\ ids \in 0..MaxRegistrations
  BY Bounds DEF IInv, MembersOK, TokensFresh, NewToken, Enter
<1>2. /\ n \notin Tokens /\ Tokens' = Tokens \cup {n}
      /\ registrations_'[n] = r
      /\ \A t \in Tokens : registrations_'[t] = registrations_[t]
  <2>1. n \notin Tokens
    BY <1>1 DEF IInv, TokensFresh
  <2>2. registrations_' = [t \in Tokens \cup {n} |-> IF t = n THEN r ELSE registrations_[t]]
    BY <1>1 DEF Enter
  <2> HIDE DEF n
  <2> QED
    BY <2>1, <2>2 DEF Tokens
<1>3. SameSnapshots(frames')
  BY CountedKeeps DEF Call, IInv, StackOK
<1> HIDE DEF n
<1>4. MembersOK'
  BY <1>1, <1>2 DEF IInv, MembersOK
<1>5. StackOK'
  BY <1>3 DEF SameSnapshots, IInv, StackOK
<1>a. 1..ids \subseteq 1..n /\ n \in 1..n /\ n \notin 1..ids
  BY <1>1 DEF n
<1>6. TokensFresh'
  BY <1>1, <1>2, <1>a DEF IInv, TokensFresh
<1>7. SnapshotsOK'
  <2> SUFFICES ASSUME NEW i \in 1..Len(frames'), NEW t \in DOMAIN frames'[i].queue
               PROVE  /\ t \in 1..ids' /\ frames'[i].queue[t].id = t
                      /\ t \in Tokens' =>
                           frames'[i].queue[t].events \subseteq registrations_'[t].events
    BY DEF SnapshotsOK
  <2>1. i \in 1..Len(frames) /\ frames'[i].queue = frames[i].queue
    BY <1>3 DEF SameSnapshots
  <2>2. /\ t \in 1..ids /\ frames[i].queue[t].id = t
        /\ t \in Tokens => frames[i].queue[t].events \subseteq registrations_[t].events
    BY <2>1 DEF IInv, SnapshotsOK
  <2> QED
    BY <2>1, <2>2, <1>1, <1>2, <1>a
<1>8. TimersOK'
  <2>1. /\ armed' \in [1..MaxRegistrations -> 0..MaxArmings]
        /\ \A t \in 1..MaxRegistrations : t # n => armed'[t] = armed[t]
        /\ armed'[n] = Pending(r)
    BY <1>1, Bounds DEF IInv, TimersOK, Pending, n
  <2>2. \A t \in 1..MaxRegistrations : t > n => armed'[t] = 0 /\ fired'[t] = 0
    BY <1>1, <2>1 DEF IInv, TimersOK, n
  <2>3. ASSUME NEW t \in Tokens', registrations_'[t].timer
        PROVE  armed'[t] = fired'[t] + Cardinality(Waiting(t)') + Pending(registrations_'[t])
    <3>1. CASE t = n
      <4>1. Waiting(t) = {}
        BY <3>1, <1>a DEF IInv, SnapshotsOK, Waiting
      <4>2. fired'[t] = 0
        BY <3>1, <1>1 DEF IInv, TimersOK, n
      <4>3. Pending(r) \in Nat
        BY DEF Pending
      <4>4. Waiting(t)' = {}
        BY <4>1, <1>3, SameWaiting
      <4>5. Cardinality(Waiting(t)') = 0
        BY <4>4, FS_EmptySet
      <4>6. armed'[t] = Pending(r) /\ registrations_'[t] = r
        BY <3>1, <2>1, <1>2
      <4> QED
        BY <4>2, <4>3, <4>5, <4>6
    <3>2. CASE t # n
      <4>1. t \in Tokens /\ registrations_[t].timer /\ t \in 1..MaxRegistrations
        BY <3>2, <2>3, <1>2 DEF IInv, MembersOK
      <4>2. armed[t] = fired[t] + Cardinality(Waiting(t)) + Pending(registrations_[t])
        BY <4>1 DEF IInv, TimersOK
      <4>3. armed'[t] = armed[t] /\ registrations_'[t] = registrations_[t]
        BY <3>2, <4>1, <1>2, <2>1
      <4> QED
        BY <4>2, <4>3, <1>3, SameWaiting
    <3> QED
      BY <3>1, <3>2
  <2> QED
    BY <1>1, <2>1, <2>2, <2>3 DEF IInv, TimersOK
<1>9. DeliveredToOwner'
  BY DEF IInv, DeliveredToOwner
<1> QED
  BY <1>4, <1>5, <1>6, <1>7, <1>8, <1>9 DEF IInv

\* Register: not ready, so nothing is pending and nothing armed.
LEMMA RegisterStep == ASSUME IInv, NEW m \in Masks, Register(m) PROVE IInv'
<1> DEFINE r == [events |-> m, readyEvents |-> {}, timer |-> FALSE, id |-> ids + 1]
<1>1. ids + 1 \in 1..MaxRegistrations
  BY Bounds DEF IInv, MembersOK, Register, Enter
<1>2. r \in Registration /\ r.id = ids + 1 /\ Pending(r) = 0
  BY <1>1, EventLoopAssumption DEF Registration, Pending, Ready
<1>3. armed[ids + 1] = 0 /\ armed \in [1..MaxRegistrations -> 0..MaxArmings]
  BY <1>1, Bounds DEF IInv, MembersOK, TimersOK
<1>4. armed' = [armed EXCEPT ![ids + 1] = Pending(r)]
  BY <1>1, <1>2, <1>3 DEF Register
<1>5. Enter(r) /\ Call /\ owed' = owed /\ UNCHANGED <<ret, crashed, last, fired>>
  BY DEF Register
<1>6. 0 <= MaxArmings
  BY Bounds
<1> HIDE DEF r
<1> QED
  BY <1>2, <1>4, <1>5, <1>6, EnterStep

\* RegisterTimer: armed once, and pending.
LEMMA RegisterTimerStep == ASSUME IInv, RegisterTimer PROVE IInv'
<1> DEFINE r == [events |-> {"Timer"}, readyEvents |-> {"Timer"}, timer |-> TRUE,
                 id |-> ids + 1]
<1>1. ids + 1 \in 1..MaxRegistrations
  BY Bounds DEF IInv, MembersOK, RegisterTimer, Enter
<1>2. r \in Registration /\ r.id = ids + 1 /\ Pending(r) = 1
  BY <1>1 DEF Registration, Pending, Ready, Events
<1>3. 1 <= MaxArmings
  BY Bounds DEF RegisterTimer
<1>4. /\ Enter(r) /\ Call /\ UNCHANGED <<ret, crashed, last, fired>>
      /\ armed' = [armed EXCEPT ![ids + 1] = 1] /\ owed' = owed \cup {NewToken}
  BY DEF RegisterTimer
<1> HIDE DEF r
<1> QED
  BY <1>2, <1>3, <1>4, EnterStep

\* Unregister: the snapshots may keep the token, the others are untouched.
LEMMA UnregisterStep == ASSUME IInv, NEW u \in 1..MaxRegistrations, Unregister(u) PROVE IInv'
<1>1. Tokens' = Tokens \ {u} /\ \A t \in Tokens' : registrations_'[t] = registrations_[t]
  BY DEF Unregister, Tokens
<1>2. SameSnapshots(frames')
  BY CountedKeeps DEF Call, IInv, StackOK, Unregister
<1>3. /\ UNCHANGED <<nextToken_, ret, ids, last, armed, fired>>
      /\ crashed' \in BOOLEAN /\ owed' \subseteq owed
  BY DEF Unregister
<1>4. MembersOK' /\ TokensFresh' /\ DeliveredToOwner'
  BY <1>1, <1>3 DEF IInv, MembersOK, TokensFresh, DeliveredToOwner
<1>5. StackOK' /\ SnapshotsOK'
  BY <1>1, <1>2, <1>3, SnapshotsStay DEF SameSnapshots, IInv, StackOK
<1>6. TimersOK'
  BY <1>1, <1>2, <1>3, SameWaiting DEF IInv, TimersOK
<1> QED
  BY <1>4, <1>5, <1>6 DEF IInv

\* SetReady: a timer that becomes ready is armed once more, one whose readiness
\* is withdrawn before it was collected was never armed.
LEMMA SetReadyStep ==
  ASSUME IInv, NEW u \in Tokens, NEW m \in Masks, SetReady(u, m)
  PROVE  IInv'
<1> DEFINE r == registrations_[u]
           was == Ready(r) # {}
           is == m \cap r.events # {}
<1>1. /\ Tokens' = Tokens
      /\ registrations_'[u] = [r EXCEPT !.readyEvents = m]
      /\ \A t \in Tokens \ {u} : registrations_'[t] = registrations_[t]
  BY DEF SetReady, Tokens
<1>2. SameSnapshots(frames')
  BY CountedKeeps DEF Call, IInv, StackOK, SetReady
<1>3. UNCHANGED <<nextToken_, ret, crashed, ids, last, fired>> /\ owed' \subseteq owed \cup {u}
  BY DEF SetReady
<1>4. u \in 1..MaxRegistrations /\ r \in Registration /\ r.id = u
  BY DEF IInv, MembersOK, TokensFresh
<1>5. m \in SUBSET Events
  BY EventLoopAssumption
<1>6. /\ registrations_'[u] \in Registration
      /\ registrations_'[u].id = u /\ registrations_'[u].events = r.events
      /\ registrations_'[u].timer = r.timer
      /\ Pending(registrations_'[u]) = IF is THEN 1 ELSE 0
  BY <1>1, <1>4, <1>5 DEF Registration, Pending, Ready
<1>7. /\ is /\ ~was => armed[u] < MaxArmings
      /\ armed' = IF ~r.timer \/ was = is THEN armed
                  ELSE IF is THEN [armed EXCEPT ![u] = armed[u] + 1]
                  ELSE [armed EXCEPT ![u] = armed[u] - 1]
  BY <1>4 DEF SetReady
<1>8. MembersOK' /\ TokensFresh' /\ DeliveredToOwner'
  <2>1. MembersOK'
    BY <1>1, <1>3, <1>4, <1>6 DEF IInv, MembersOK
  <2>2. TokensFresh'
    <3>1. nextToken_' = ids' + 1 /\ Tokens' \subseteq 1..ids'
      BY <1>1, <1>3 DEF IInv, TokensFresh
    <3>2. ASSUME NEW t \in Tokens
          PROVE  registrations_'[t].id = t
      BY <1>1, <1>6 DEF IInv, TokensFresh
    <3> QED
      BY <1>1, <3>1, <3>2 DEF TokensFresh
  <2>3. DeliveredToOwner'
    BY <1>3 DEF IInv, DeliveredToOwner
  <2> QED
    BY <2>1, <2>2, <2>3
<1>9. StackOK' /\ SnapshotsOK'
  <2>1. StackOK'
    BY <1>2 DEF SameSnapshots, IInv, StackOK
  <2>2. \A t \in Tokens' : t \in Tokens /\ registrations_'[t].events = registrations_[t].events
    BY <1>1, <1>6
  <2> QED
    BY <1>2, <1>3, <2>1, <2>2, SnapshotsStay DEF IInv
<1>10. TimersOK'
  <2>1. r.timer => /\ Cardinality(Waiting(u)) \in Nat
                   /\ armed[u] = fired[u] + Cardinality(Waiting(u)) + (IF was THEN 1 ELSE 0)
    BY WaitingFinite DEF IInv, StackOK, TimersOK, Pending
  <2>2. armed[u] \in 0..MaxArmings /\ fired[u] \in Nat
    BY <1>4 DEF IInv, TimersOK
  <2>3. r.timer => armed'[u] = fired[u] + Cardinality(Waiting(u)) + (IF is THEN 1 ELSE 0)
    <3> SUFFICES ASSUME r.timer
                 PROVE  armed'[u] = fired[u] + Cardinality(Waiting(u)) + (IF is THEN 1 ELSE 0)
      OBVIOUS
    <3>1. armed \in [1..MaxRegistrations -> 0..MaxArmings]
      BY DEF IInv, TimersOK
    <3>2. CASE is /\ ~was
      <4>1. armed'[u] = armed[u] + 1
        BY <3>1, <3>2, <1>4, <1>7
      <4> QED
        BY <4>1, <3>2, <2>1, <2>2
    <3>3. CASE was /\ ~is
      <4>1. armed'[u] = armed[u] - 1
        BY <3>1, <3>3, <1>4, <1>7
      <4> QED
        BY <4>1, <3>3, <2>1, <2>2
    <3>4. CASE was = is
      BY <3>4, <2>1, <1>7
    <3> QED
      BY <3>2, <3>3, <3>4
  <2>4. /\ armed' \in [1..MaxRegistrations -> 0..MaxArmings]
        /\ \A t \in 1..MaxRegistrations : t # u => armed'[t] = armed[t]
    <3>1. CASE r.timer /\ is /\ ~was
      <4>1. armed[u] + 1 \in 0..MaxArmings
        BY <3>1, <1>7, <2>2, Bounds
      <4> QED
        BY <3>1, <4>1, <1>7 DEF IInv, TimersOK
    <3>2. CASE r.timer /\ was /\ ~is
      <4>1. armed[u] - 1 \in 0..MaxArmings
        BY <3>2, <2>1, <2>2, Bounds
      <4> QED
        BY <3>2, <4>1, <1>7 DEF IInv, TimersOK
    <3>3. CASE ~r.timer \/ was = is
      BY <3>3, <1>7 DEF IInv, TimersOK
    <3> QED
      BY <3>1, <3>2, <3>3
  <2>5. \A t \in 1..MaxRegistrations : t > ids => t # u
    BY Bounds DEF IInv, MembersOK, TokensFresh
  <2>6. ASSUME NEW t \in Tokens', registrations_'[t].timer
        PROVE  armed'[t] = fired'[t] + Cardinality(Waiting(t)') + Pending(registrations_'[t])
    <3>1. Waiting(t)' = Waiting(t)
      BY <1>2, SameWaiting
    <3>2. CASE t = u
      BY <2>6, <3>1, <3>2, <2>3, <1>3, <1>6
    <3>3. CASE t # u
      BY <2>6, <3>1, <3>3, <2>4, <1>1, <1>3 DEF IInv, TimersOK, MembersOK
    <3> QED
      BY <3>2, <3>3
  <2> QED
    BY <2>4, <2>5, <2>6, <1>3 DEF IInv, TimersOK
<1> QED
  BY <1>8, <1>9, <1>10 DEF IInv

\* DispatchOnce: what is ready moves from the registrations to a new snapshot.
LEMMA DispatchOnceStep == ASSUME IInv, DispatchOnce PROVE IInv'
<1> DEFINE ready == {t \in Tokens : Ready(registrations_[t]) # {}}
           queue == [t \in ready |-> [events |-> Ready(registrations_[t]),
                                      id |-> registrations_[t].id]]
           top == Len(frames) + 1
<1>1. /\ UNCHANGED <<nextToken_, ret, crashed, ids, last, armed, fired, owed>>
      /\ Len(frames) < MaxDepth /\ Len(frames) \in Nat
      /\ SameSnapshots(Counted)
  BY CountedKeeps, LenProperties DEF DispatchOnce, IInv, StackOK
<1>2. Frame(queue) \in Frames /\ Frame(queue).queue = queue
  <2>1. queue \in Snapshots
    <3>1. ready \in SUBSET (1..MaxRegistrations)
      BY DEF IInv, MembersOK
    <3>2. \A t \in ready : [events |-> Ready(registrations_[t]), id |-> registrations_[t].id]
                             \in [events : SUBSET Events, id : 1..MaxRegistrations]
      BY DEF IInv, MembersOK, Registration, Ready
    <3>3. queue \in [ready -> [events : SUBSET Events, id : 1..MaxRegistrations]]
      BY <3>2
    <3> HIDE DEF ready, queue
    <3> QED
      BY <3>1, <3>3 DEF Snapshots
  <2> HIDE DEF queue
  <2> QED
    BY <2>1, Bounds DEF Frame, Frames
<1>3. frames' = Append(Counted, Frame(queue))
  BY DEF DispatchOnce
<1>4. /\ Tokens' = Tokens
      /\ \A t \in Tokens : registrations_'[t] =
           IF registrations_[t].timer /\ Ready(registrations_[t]) # {}
           THEN [registrations_[t] EXCEPT !.readyEvents = {}] ELSE registrations_[t]
  BY DEF DispatchOnce, DisarmCollected, Tokens
<1>5. \A t \in Tokens :
        /\ registrations_'[t] \in Registration
        /\ registrations_'[t].id = registrations_[t].id
        /\ registrations_'[t].events = registrations_[t].events
        /\ registrations_'[t].timer = registrations_[t].timer
  BY <1>4 DEF IInv, MembersOK, Registration
<1>6. /\ DOMAIN queue = ready
      /\ \A t \in ready : queue[t].events = Ready(registrations_[t])
                          /\ queue[t].id = registrations_[t].id
  OBVIOUS
<1> HIDE DEF queue
<1>7. /\ frames' \in Seq(Frames) /\ Len(frames') = top
      /\ \A i \in 1..Len(frames) : frames'[i].queue = frames[i].queue
      /\ frames'[top].queue = queue
  BY <1>1, <1>2, <1>3, AppendProperties DEF SameSnapshots
<1>8. MembersOK' /\ TokensFresh' /\ DeliveredToOwner'
  BY <1>1, <1>4, <1>5 DEF IInv, MembersOK, TokensFresh, DeliveredToOwner
<1>9. StackOK'
  BY <1>1, <1>7, Bounds DEF StackOK
<1>10. SnapshotsOK'
  <2> SUFFICES ASSUME NEW i \in 1..top, NEW t \in DOMAIN frames'[i].queue
               PROVE  /\ t \in 1..ids /\ frames'[i].queue[t].id = t
                      /\ t \in Tokens =>
                           frames'[i].queue[t].events \subseteq registrations_[t].events
    BY <1>1, <1>4, <1>5, <1>7 DEF SnapshotsOK
  <2>1. CASE i = top
    BY <2>1, <1>6, <1>7 DEF IInv, TokensFresh, Ready
  <2>2. CASE i # top
    <3>1. i \in 1..Len(frames) /\ frames'[i].queue = frames[i].queue
      BY <2>2, <1>1, <1>7
    <3> QED
      BY <3>1 DEF IInv, SnapshotsOK
  <2> QED
    BY <2>1, <2>2
<1>11. TimersOK'
  <2>1. ASSUME NEW t \in Tokens, registrations_[t].timer
        PROVE  armed[t] = fired[t] + Cardinality(Waiting(t)') + Pending(registrations_'[t])
    <3>1. /\ armed[t] = fired[t] + Cardinality(Waiting(t)) + Pending(registrations_[t])
          /\ fired[t] \in Nat
      BY <2>1 DEF IInv, TimersOK, MembersOK
    <3>2. IsFiniteSet(Waiting(t)) /\ Cardinality(Waiting(t)) \in Nat
      BY WaitingFinite DEF IInv, StackOK
    <3>3. CASE t \in ready
      <4>1. Waiting(t)' = Waiting(t) \cup {top}
        <5>1. 1..top = 1..Len(frames) \cup {top}
          BY <1>1
        <5> HIDE DEF top
        <5> QED
          BY <5>1, <3>3, <1>6, <1>7 DEF Waiting
      <4>2. top \notin Waiting(t)
        BY <1>1 DEF Waiting
      <4>3. Cardinality(Waiting(t)') = Cardinality(Waiting(t)) + 1
        BY <4>1, <4>2, <3>2, FS_AddElement
      <4>4. Pending(registrations_[t]) = 1
        BY <3>3 DEF Pending
      <4>5. Pending(registrations_'[t]) = 0
        BY <3>3, <2>1, <1>4 DEF Pending, Ready, IInv, MembersOK, Registration
      <4> QED
        BY <3>1, <3>2, <4>3, <4>4, <4>5
    <3>4. CASE t \notin ready
      <4>1. Waiting(t)' = Waiting(t)
        BY <3>4, <1>1, <1>6, <1>7 DEF Waiting
      <4>2. registrations_'[t] = registrations_[t]
        BY <3>4, <1>4
      <4> QED
        BY <3>1, <4>1, <4>2
    <3> QED
      BY <3>3, <3>4
  <2> QED
    BY <2>1, <1>1, <1>4, <1>5 DEF IInv, TimersOK
<1> QED
  BY <1>8, <1>9, <1>10, <1>11 DEF IInv

\* The top of the stack, while a DispatchOnce is in progress.
LEMMA TopFrame ==
  ASSUME StackOK, ~AtTopLevel
  PROVE  /\ Len(frames) \in Nat \ {0} /\ Len(frames) \in 1..Len(frames)
         /\ Top \in Frames /\ Top = frames[Len(frames)]
<1>1. Len(frames) \in Nat \ {0}
  BY EmptySeq DEF StackOK, AtTopLevel
<1> QED
  BY <1>1, ElementOfSeq DEF StackOK, Top

\* The callback returns: no snapshot changes.
LEMMA CallbackReturnsStep == ASSUME IInv, CallbackReturns PROVE IInv'
<1> DEFINE f == [Top EXCEPT !.running = 0]
<1>1. /\ Len(frames) \in Nat \ {0} /\ Len(frames) \in 1..Len(frames)
      /\ Top \in Frames /\ Top = frames[Len(frames)]
  BY TopFrame DEF CallbackReturns, InCallback, IInv
<1>2. f \in Frames /\ f.queue = Top.queue
  BY <1>1, Bounds DEF Frames
<1>3. frames' = [frames EXCEPT ![Len(frames)] = f]
  BY <1>1 DEF CallbackReturns
<1> HIDE DEF f
<1>4. SameSnapshots(frames')
  BY <1>1, <1>2, <1>3, ExceptSeq DEF SameSnapshots, IInv, StackOK
<1>5. UNCHANGED <<nextToken_, registrations_, ret, crashed, ids, last, armed, fired, owed>>
      /\ Tokens' = Tokens
  BY DEF CallbackReturns, Tokens
<1>6. MembersOK' /\ TokensFresh' /\ DeliveredToOwner'
  BY <1>5 DEF IInv, MembersOK, TokensFresh, DeliveredToOwner
<1>7. StackOK' /\ SnapshotsOK'
  BY <1>4, <1>5, SnapshotsStay DEF IInv, SameSnapshots, StackOK
<1>8. TimersOK'
  BY <1>4, <1>5, SameWaiting DEF IInv, TimersOK
<1> QED
  BY <1>6, <1>7, <1>8 DEF IInv

\* DispatchOnce returns when its snapshot is empty.
LEMMA DispatchReturnsStep == ASSUME IInv, DispatchReturns PROVE IInv'
<1>1. /\ Len(frames) \in Nat \ {0} /\ Len(frames) \in 1..Len(frames)
      /\ Top \in Frames /\ Top = frames[Len(frames)]
  BY TopFrame DEF DispatchReturns, Dispatching, IInv
<1>2. DOMAIN frames[Len(frames)].queue = {}
  BY <1>1 DEF DispatchReturns
<1>3. /\ frames' \in Seq(Frames) /\ Len(frames') = Len(frames) - 1
      /\ \A i \in 1..(Len(frames) - 1) : frames'[i] = frames[i]
  <2>1. \A i \in 1..(Len(frames) - 1) : frames[i] \in Frames
    BY <1>1, ElementOfSeq DEF IInv, StackOK
  <2>2. frames' = SubSeq(frames, 1, Len(frames) - 1)
    BY DEF DispatchReturns
  <2>3. /\ frames' \in Seq(Frames)
        /\ Len(frames') = IF 1 <= Len(frames) - 1 THEN Len(frames) - 1 - 1 + 1 ELSE 0
        /\ \A i \in 1..(Len(frames) - 1 - 1 + 1) : frames'[i] = frames[1 + i - 1]
    BY <1>1, <2>1, <2>2, SubSeqProperties
  <2>4. Len(frames') = Len(frames) - 1
    <3>1. CASE Len(frames) = 1
      BY <2>3, <3>1
    <3>2. CASE Len(frames) # 1
      <4>1. PICK n \in Nat \ {0} : n = Len(frames) /\ n # 1
        BY <1>1, <3>2
      <4>2. 1 <= n - 1 /\ n - 1 - 1 + 1 = n - 1
        BY <4>1
      <4> QED
        BY <4>1, <4>2, <2>3
    <3> QED
      BY <3>1, <3>2
  <2>5. ASSUME NEW i \in 1..(Len(frames) - 1)
        PROVE  frames'[i] = frames[i]
    <3>1. i \in 1..(Len(frames) - 1 - 1 + 1) /\ 1 + i - 1 = i
      BY <1>1
    <3> QED
      BY <2>3, <3>1
  <2> QED
    BY <2>3, <2>4, <2>5
<1>4. \A t : Waiting(t)' = Waiting(t)
  BY <1>1, <1>2, <1>3 DEF Waiting
<1>5. UNCHANGED <<nextToken_, registrations_, crashed, ids, last, armed, fired, owed>>
      /\ ret' \in {"Ok", "WouldBlock"} /\ Tokens' = Tokens
  BY DEF DispatchReturns, Tokens
<1>6. MembersOK' /\ TokensFresh' /\ DeliveredToOwner'
  BY <1>5 DEF IInv, MembersOK, TokensFresh, DeliveredToOwner
<1>7. StackOK'
  BY <1>1, <1>3, Bounds DEF IInv, StackOK
<1>8. SnapshotsOK'
  <2>1. \A i \in 1..Len(frames') : i \in 1..Len(frames) /\ frames'[i] = frames[i]
    BY <1>1, <1>3
  <2> QED
    BY <2>1, <1>5 DEF IInv, SnapshotsOK
<1>9. TimersOK'
  BY <1>4, <1>5 DEF IInv, TimersOK
<1> QED
  BY <1>6, <1>7, <1>8, <1>9 DEF IInv

\* Deliver: one event leaves the snapshot; if its registration is still there,
\* it is the one the event was collected from.
LEMMA DeliverStep == ASSUME IInv, Deliver PROVE IInv'
<1>0. PICK u : u = Least(DOMAIN Top.queue)
  OBVIOUS
<1> DEFINE event == Top.queue[u]
           queue == Rest(Top.queue, u)
           top == Len(frames)
<1>1. /\ top \in Nat \ {0} /\ top \in 1..top
      /\ Top \in Frames /\ Top = frames[top]
  BY TopFrame DEF Deliver, Dispatching, IInv
<1>2. u \in DOMAIN Top.queue
  <2>1. DOMAIN Top.queue \subseteq 1..MaxRegistrations
    BY <1>1, FrameFields
  <2>2. DOMAIN Top.queue # {}
    BY DEF Deliver
  <2>3. DOMAIN Top.queue \in SUBSET Nat
    BY <2>1, Bounds
  <2> QED
    BY <1>0, <2>2, <2>3, LeastIn
<1>3. /\ event.id = u /\ u \in 1..ids
      /\ u \in Tokens => event.events \subseteq registrations_[u].events
  BY <1>1, <1>2 DEF IInv, SnapshotsOK
<1>4. queue \in Snapshots /\ DOMAIN queue = DOMAIN Top.queue \ {u}
      /\ \A t \in DOMAIN queue : queue[t] = Top.queue[t]
  <2>1. /\ DOMAIN Top.queue \subseteq 1..MaxRegistrations
        /\ \A t \in DOMAIN Top.queue :
             Top.queue[t] \in [events : SUBSET Events, id : 1..MaxRegistrations]
    BY <1>1, FrameFields
  <2>2. queue = [t \in DOMAIN Top.queue \ {u} |-> Top.queue[t]]
    BY DEF Rest
  <2> HIDE DEF queue
  <2>3. queue \in [DOMAIN Top.queue \ {u} -> [events : SUBSET Events, id : 1..MaxRegistrations]]
    BY <2>1, <2>2
  <2>4. DOMAIN Top.queue \ {u} \in SUBSET (1..MaxRegistrations)
    BY <2>1
  <2> QED
    BY <2>2, <2>3, <2>4 DEF Snapshots
<1>5. /\ UNCHANGED <<nextToken_, registrations_, ret, crashed, ids, armed>>
      /\ Tokens' = Tokens
  BY DEF Deliver, Tokens
<1>6. /\ u \in Tokens =>
           /\ frames' = [frames EXCEPT ![top] = [Top EXCEPT !.queue = queue, !.running = u,
                                                            !.calls = MaxCalls]]
           /\ last' = [wanted |-> event.id, got |-> registrations_[u].id,
                       events |-> event.events, mask |-> registrations_[u].events]
           /\ fired' = IF registrations_[u].timer
                       THEN [fired EXCEPT ![registrations_[u].id] = fired[registrations_[u].id] + 1]
                       ELSE fired
           /\ owed' = owed \ {u}
      /\ u \notin Tokens =>
           /\ frames' = [frames EXCEPT ![top] = [Top EXCEPT !.queue = queue]]
           /\ UNCHANGED <<last, fired, owed>>
  <2>1. CASE u \in Tokens
    <3>1. frames' = [frames EXCEPT ![top] = [Top EXCEPT !.queue = queue, !.running = u,
                                                        !.calls = MaxCalls]]
      <4>1. frames' = [frames EXCEPT ![top].queue = queue, ![top].running = u,
                                     ![top].calls = MaxCalls]
        BY <1>0, <2>1 DEF Deliver
      <4> HIDE DEF queue
      <4> QED
        BY <1>1, <4>1
    <3>2. /\ last' = [wanted |-> event.id, got |-> registrations_[u].id,
                      events |-> event.events, mask |-> registrations_[u].events]
          /\ fired' = IF registrations_[u].timer
                      THEN [fired EXCEPT ![registrations_[u].id] = fired[registrations_[u].id] + 1]
                      ELSE fired
          /\ owed' = owed \ {u}
      BY <1>0, <2>1 DEF Deliver
    <3> QED
      BY <2>1, <3>1, <3>2
  <2>2. CASE u \notin Tokens
    BY <1>0, <1>1, <2>2 DEF Deliver
  <2> QED
    BY <2>1, <2>2
<1> HIDE DEF queue, event
<1>7. /\ frames' \in Seq(Frames) /\ Len(frames') = top
      /\ \A i \in 1..top : i # top => frames'[i].queue = frames[i].queue
      /\ frames'[top].queue = queue
  <2>1. PICK f \in Frames : f.queue = queue /\ frames' = [frames EXCEPT ![top] = f]
    <3>1. CASE u \in Tokens
      <4>1. u \in 0..MaxRegistrations
        BY <3>1, Bounds DEF IInv, MembersOK
      <4> DEFINE f1 == [Top EXCEPT !.queue = queue]
      <4>2. f1 \in Frames /\ f1.queue = queue
        BY <1>1, <1>4 DEF Frames
      <4> HIDE DEF f1
      <4> DEFINE f2 == [f1 EXCEPT !.running = u]
      <4>3. f2 \in Frames /\ f2.queue = queue
        BY <4>1, <4>2 DEF Frames
      <4> HIDE DEF f2
      <4> DEFINE f3 == [f2 EXCEPT !.calls = MaxCalls]
      <4>4. f3 \in Frames /\ f3.queue = queue
        <5>1. MaxCalls \in 0..MaxCalls
          BY Bounds
        <5> QED
          BY <4>3, <5>1 DEF Frames
      <4> HIDE DEF f3
      <4>5. frames' = [frames EXCEPT ![top] = f3]
        BY <3>1, <1>6 DEF f1, f2, f3
      <4> QED
        BY <4>4, <4>5
    <3>2. CASE u \notin Tokens
      <4> DEFINE f == [Top EXCEPT !.queue = queue]
      <4>1. f \in Frames /\ f.queue = queue
        BY <1>1, <1>4 DEF Frames
      <4> QED
        BY <4>1, <3>2, <1>6
    <3> QED
      BY <3>1, <3>2
  <2> QED
    BY <1>1, <2>1, ExceptSeq DEF IInv, StackOK
<1>8. MembersOK' /\ TokensFresh'
  BY <1>5, <1>6 DEF IInv, MembersOK, TokensFresh
<1>9. StackOK'
  BY <1>7 DEF IInv, StackOK
<1>10. DeliveredToOwner'
  BY <1>3, <1>6 DEF IInv, TokensFresh, DeliveredToOwner
<1>11. SnapshotsOK'
  <2> SUFFICES ASSUME NEW i \in 1..top, NEW t \in DOMAIN frames'[i].queue
               PROVE  /\ t \in 1..ids /\ frames'[i].queue[t].id = t
                      /\ t \in Tokens =>
                           frames'[i].queue[t].events \subseteq registrations_[t].events
    BY <1>5, <1>7 DEF SnapshotsOK
  <2>1. t \in DOMAIN frames[i].queue /\ frames'[i].queue[t] = frames[i].queue[t]
    BY <1>1, <1>4, <1>7
  <2> QED
    BY <2>1 DEF IInv, SnapshotsOK
<1>12. TimersOK'
  <2>1. /\ \A t : t # u => Waiting(t)' = Waiting(t)
        /\ Waiting(u)' = Waiting(u) \ {top} /\ top \in Waiting(u)
    <3>1. /\ top \in 1..top /\ DOMAIN frames'[top].queue = DOMAIN frames[top].queue \ {u}
          /\ \A i \in 1..top : i # top => DOMAIN frames'[i].queue = DOMAIN frames[i].queue
          /\ u \in DOMAIN frames[top].queue
      BY <1>1, <1>2, <1>4, <1>7
    <3>2. Len(frames') = top
      BY <1>7
    <3> QED
      BY <3>1, <3>2 DEF Waiting
  <2>2. /\ fired' \in [1..MaxRegistrations -> Nat]
        /\ \A t \in 1..MaxRegistrations : t # u => fired'[t] = fired[t]
        /\ u \in Tokens /\ registrations_[u].timer => fired'[u] = fired[u] + 1
    <3>1. fired \in [1..MaxRegistrations -> Nat]
      BY DEF IInv, TimersOK
    <3>2. CASE u \in Tokens /\ registrations_[u].timer
      <4>1. u \in 1..MaxRegistrations /\ registrations_[u].id = u
        BY <3>2 DEF IInv, MembersOK, TokensFresh
      <4>2. fired' = [fired EXCEPT ![u] = fired[u] + 1]
        BY <3>2, <4>1, <1>6
      <4> QED
        BY <3>1, <4>1, <4>2
    <3>3. CASE ~(u \in Tokens /\ registrations_[u].timer)
      BY <3>1, <3>3, <1>6
    <3> QED
      BY <3>2, <3>3
  <2>3. ASSUME NEW t \in Tokens, registrations_[t].timer
        PROVE  armed[t] = fired'[t] + Cardinality(Waiting(t)') + Pending(registrations_[t])
    <3>1. /\ armed[t] = fired[t] + Cardinality(Waiting(t)) + Pending(registrations_[t])
          /\ fired[t] \in Nat /\ t \in 1..MaxRegistrations
      BY <2>3 DEF IInv, TimersOK, MembersOK
    <3>2. IsFiniteSet(Waiting(t)) /\ Cardinality(Waiting(t)) \in Nat
      BY WaitingFinite DEF IInv, StackOK
    <3>3. CASE t = u
      <4>1. Cardinality(Waiting(t)') = Cardinality(Waiting(t)) - 1
        BY <3>2, <3>3, <2>1, FS_RemoveElement
      <4>2. Pending(registrations_[t]) \in Nat /\ fired'[t] = fired[t] + 1
        BY <3>3, <2>2, <2>3 DEF Pending
      <4> QED
        BY <3>1, <3>2, <4>1, <4>2
    <3>4. CASE t # u
      BY <3>1, <3>4, <2>1, <2>2
    <3> QED
      BY <3>3, <3>4
  <2>4. \A t \in 1..MaxRegistrations : t > ids => t # u
    BY <1>3, Bounds DEF IInv, MembersOK
  <2> QED
    BY <2>2, <2>3, <2>4, <1>5 DEF IInv, TimersOK
<1> QED
  BY <1>8, <1>9, <1>10, <1>11, <1>12 DEF IInv

\* Every action preserves the invariant.
LEMMA Inductive == Spec => []IInv
<1>1. IInv /\ [Next]_vars => IInv'
  <2> SUFFICES ASSUME IInv, [Next]_vars PROVE IInv'
    OBVIOUS
  <2>1. CASE UNCHANGED vars
    <3>1. MembersOK' /\ StackOK' /\ TokensFresh' /\ SnapshotsOK' /\ DeliveredToOwner'
      BY <2>1 DEF vars, IInv, MembersOK, StackOK, TokensFresh, SnapshotsOK, DeliveredToOwner,
                  Tokens
    <3>2. \A t : Waiting(t)' = Waiting(t)
      BY <2>1 DEF vars, Waiting
    <3>3. TimersOK'
      BY <2>1, <3>2 DEF vars, IInv, TimersOK, Tokens
    <3> QED
      BY <3>1, <3>3 DEF IInv
  <2>2. CASE Application
    BY <2>2, RegisterStep, RegisterTimerStep, UnregisterStep, SetReadyStep, DispatchOnceStep
       DEF Application
  <2>3. CASE LoopStep
    BY <2>3, DeliverStep, CallbackReturnsStep, DispatchReturnsStep DEF LoopStep
  <2> QED
    BY <2>1, <2>2, <2>3 DEF Next
<1> QED
  BY InitIInv, <1>1, PTL DEF Spec

-----------------------------------------------------------------------------
\* The members of the loop, its registrations and its stack of DispatchOnce
\* calls keep their types, for every bound.
THEOREM TypeCorrect == Spec => []TypeOK
BY Inductive, IInvImplies, PTL

\* An event reaches the registration it was collected from, with events that
\* registration asked for, whatever callbacks and nested dispatches did between.
THEOREM OwnerGetsEvent == Spec => []DeliveredToOwner
BY Inductive, IInvImplies, PTL

\* Each arming of a timer is pending, waiting in exactly one snapshot, or was
\* fired: none is lost or reported twice, at any depth of nesting.
THEOREM ExpiriesConserved == Spec => []TimerConservation
BY Inductive, IInvImplies, PTL
=============================================================================
