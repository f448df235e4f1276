SPECIFICATION FairSpec
CONSTANTS
  root = root
  a = a
  b = b
  Node = {root, a, b}
  Root = root
  Parent <- ParentOf
  Children <- ChildrenOf
  Reader = {r1, r2}
  Writer = {w1, w2}
  NoWriter = none
  Calls = {"Attribute", "xpath", "Dump"}
INVARIANTS TypeOK OnlySiblingsRace DeadlocksNeedXPath
PROPERTIES CallsReturn WritersEnter
CHECK_DEADLOCK FALSE
