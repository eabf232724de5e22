\* Every call, with datagrams arriving and errors coming back in between.
SPECIFICATION Spec
CONSTANTS
  Descriptors = {d1, d2}
  kInvalidSocket = kInvalidSocket
  MaxAddresses = 2
  MaxSize = 2
  MaxArrivals = 2
  MaxSends = 1
INVARIANTS
  TypeOK
  DescriptorsOwned
  DatagramsConserved
  TooSmallIsTrue
  WholeDatagrams
  StrangersOnlyEarly
PROPERTIES
  ImplementsDatagram
CHECK_DEADLOCK FALSE
