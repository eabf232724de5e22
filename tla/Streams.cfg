\* Every kind of stream, every call, every outcome of every system call, and
\* every step of the peer.
SPECIFICATION StreamsSpec
CONSTANTS
  Descriptors = {d1, d2}
  kInvalidSocket = kInvalidSocket
  MaxAddresses = 2
  MaxSize = 2
  MaxInbound = 2
  MaxWrites = 2
  SigPipeIgnored = FALSE
INVARIANTS
  TypeOK
  DescriptorsOwned
  OpenOutcome
  ClosedMeansDrained
  WriteExact
PROPERTIES
  ImplementsByteStream
  AcceptedIsOnce
  CallsReturn
CHECK_DEADLOCK FALSE
