SPECIFICATION Spec
CONSTANTS
  CircularDeps <- Circular
  Instead <- UseInstead
  Samples <- EnumArray
  Ordered = TRUE
INVARIANTS RoundTrip
CHECK_DEADLOCK FALSE
