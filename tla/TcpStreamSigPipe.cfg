\* A write to a connection the peer closed and then aborted raises SIGPIPE.
SPECIFICATION Spec
CONSTANTS
  Descriptors = {d1, d2}
  kInvalidSocket = kInvalidSocket
  MaxAddresses = 2
  MaxSize = 2
  MaxInbound = 1
  MaxWrites = 2
  SigPipeIgnored = FALSE
INVARIANT
  StatusCodesOnly
CHECK_DEADLOCK FALSE
