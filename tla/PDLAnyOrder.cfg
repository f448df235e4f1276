SPECIFICATION Spec
CONSTANTS
  CircularDeps <- Circular
  Instead <- UseInstead
  Samples <- AnyOrder
  Ordered = FALSE
INVARIANTS TypeOK PanicsOnOrphans
CHECK_DEADLOCK FALSE
