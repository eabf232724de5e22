\* Datagrams with a bad checksum arrive as well.
SPECIFICATION Spec
CONSTANTS
  Descriptors = {d1, d2}
  kInvalidSocket = kInvalidSocket
  MaxAddresses = 2
  MaxSize = 2
  MaxArrivals = 2
  MaxSends = 2
INVARIANT
  NeverTruncates
CHECK_DEADLOCK FALSE
