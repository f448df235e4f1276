SPECIFICATION FairSpec
CONSTANTS
  Path <- Paths
  Plan <- Plans
  Files <- FilesOf
  Pkgs <- PkgsOf
  GoWl = {"LICENSE", "easyjson.go"}
  GoNames = {"cdproto.go", "page.go", "old.go", "easyjson.go"}
  Dotted = {".git"}
  OldTrees <- UsersTrees
  Flags = {{}, {"no-clean"}, {"debug", "no-clean"}}
  Faults = {"error", "crash"}
INVARIANTS TypeOK Published StageInputs
PROPERTIES Untouched Terminates
