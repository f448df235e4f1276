------------------------------ MODULE MCCache ------------------------------
(* Instances of Cache for TLC: who uses which entry, and for how long.     *)
EXTENDS Cache

CONSTANTS p1, p2, k1, k2

(* Both invocations use k1; k2 is left to p1.                              *)
Sharing == [p \in Proc |-> IF p = p1 THEN Key ELSE {k1}]

(* p2 runs with -ttl=0.                                                    *)
TTLs == [p \in Proc |-> IF p = p2 THEN 0 ELSE 1]

=============================================================================
