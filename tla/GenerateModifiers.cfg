SPECIFICATION Spec
CONSTANTS
  Words <- AllWords
  CircularDeps <- Circular
  EnumRefMap <- EnumRefs
  Protocols <- Strays
INVARIANTS ModifiersOfInput
CHECK_DEADLOCK FALSE
