\* Close and Open race with Accept, and another thread reuses descriptor numbers.
SPECIFICATION FairSpec
CONSTANTS
  Descriptors = {d1, d2}
  kInvalidSocket = kInvalidSocket
  MaxAddresses = 1
  MaxSockets = 3
  MaxBacklog = 1
  AcceptTimeout = 1
  Deadline = 2
INVARIANTS
  TypeOK
  DescriptorsOwned
  ConnectionIsOurs
PROPERTY
  AcceptReturns
CHECK_DEADLOCK FALSE
