SPECIFICATION Spec
CONSTANTS
  CircularDeps <- Circular
  Instead <- UseInstead
  Samples <- FilesOfAllKinds
  Ordered = TRUE
INVARIANTS GrammaticalAccepted ParsedAsWritten CombinedAccepted RoundTrip CombinedVersionCovers DomainsSorted
CHECK_DEADLOCK FALSE
