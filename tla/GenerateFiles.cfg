SPECIFICATION Spec
CONSTANTS
  Words <- AllWords
  CircularDeps <- Circular
  EnumRefMap <- EnumRefs
  Protocols <- GivenProtocols
INVARIANTS TypeOK PanicsOnDangling Compiles DeclaredOnce RefersAsWritten SharedImportsNothing EnumsWhole
CHECK_DEADLOCK FALSE
