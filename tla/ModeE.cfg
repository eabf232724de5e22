\* Every message within the bounds, after nothing or after another meter.
SPECIFICATION Spec
CONSTANTS
  Messages <- AllMessages
  Requests <- AllRequests
  LastMeter <- OtherMeter
  MaxBody = 7
INVARIANTS
  IdentificationIsMeters
  SpeedsAgree
CHECK_DEADLOCK FALSE
