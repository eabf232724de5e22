\* Every configuration, every status of the lower stream and the backend.
SPECIFICATION Spec
CONSTANT
  MaxSessions = 3
INVARIANTS
  TypeOK
  HandshakeFirst
  LowerReleased
CHECK_DEADLOCK FALSE
