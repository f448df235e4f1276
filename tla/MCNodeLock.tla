----------------------------- MODULE MCNodeLock -----------------------------
(* Instances of NodeLock for TLC: a root with two children.                *)
EXTENDS NodeLock

CONSTANTS root, a, b

ParentOf == [n \in Node \ {root} |-> root]
ChildrenOf == [n \in Node |-> IF n = root THEN <<a, b>> ELSE <<>>]

(* A node alone. *)
NoParents == [n \in {} |-> root]
NoChildren == [n \in Node |-> <<>>]

=============================================================================
