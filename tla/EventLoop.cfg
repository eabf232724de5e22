\* Registrations, timers and nested dispatching from callbacks, while the
\* application keeps dispatching.
SPECIFICATION FairSpec
CONSTANTS
  Masks <- MCMasks
  MaxRegistrations = 3
  MaxDepth = 2
  MaxCalls = 2
  MaxArmings = 2
INVARIANTS
  TypeOK
  DeliveredToOwner
  TimerConservation
PROPERTY
  ReadyIsServed
CHECK_DEADLOCK FALSE
