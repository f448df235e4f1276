SPECIFICATION FairSpec
CONSTANTS
  root = root
  a = a
  b = b
  Node = {root}
  Root = root
  Parent <- NoParents
  Children <- NoChildren
  Reader = {r1}
  Writer = {w1}
  NoWriter = none
  Calls = {"xpath"}
PROPERTY XPathReturns

CHECK_DEADLOCK FALSE
