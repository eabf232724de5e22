\* Both doubles, every script within the bounds, every call.
SPECIFICATION Spec
CONSTANTS
  ReadStatuses = {"Ok", "Timeout"}
  WriteStatuses = {"Ok", "Timeout"}
  MaxSize = 2
  WriteSizes = {0, 2}
  MaxScripts = 2
  MaxWrites = 2
INVARIANTS
  ScriptPlayed
PROPERTIES
  FakeImplementsByteStream
  FakeImplementsDatagram
