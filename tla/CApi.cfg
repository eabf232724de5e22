\* Two handle variables of every type, every call with every argument.
SPECIFICATION Spec
CONSTANTS
  Slots = {s1, s2}
  Objects = {o1, o2}
  null = null
  garbage = garbage
  MaxSize = 2
INVARIANTS
  TranslationFaithful
  HandlesOwnTransports
  NoStaleCount
