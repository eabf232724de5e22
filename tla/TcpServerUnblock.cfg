\* Close while Accept waits, on Linux, with the test's times in seconds.  With an
\* AcceptTimeout of 1 the counterexample is a connection accepted after Close.
SPECIFICATION Spec
CONSTANTS
  Descriptors = {d1, d2}
  kInvalidSocket = kInvalidSocket
  MaxAddresses = 1
  MaxSockets = 3
  MaxBacklog = 1
  AcceptTimeout = 5
  Deadline = 2
INVARIANT
  CloseUnblocksAccept
CHECK_DEADLOCK FALSE
