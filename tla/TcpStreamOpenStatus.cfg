\* Open reports a failed select with a status that its header does not list.
SPECIFICATION Spec
CONSTANTS
  Descriptors = {d1, d2}
  kInvalidSocket = kInvalidSocket
  MaxAddresses = 2
  MaxSize = 2
  MaxInbound = 1
  MaxWrites = 2
  SigPipeIgnored = FALSE
INVARIANT
  OpenStatusDocumented
CHECK_DEADLOCK FALSE
