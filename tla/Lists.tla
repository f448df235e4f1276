------------------------------- MODULE Lists -------------------------------
(* Sequences made of another sequence, as functions of its indices.         *)
EXTENDS Naturals, Sequences

MapSeq(s, Op(_)) == [i \in 1 .. Len(s) |-> Op(s[i])]

(* The elements of s at the indices in I, in their order.                  *)
Picked(s, I) ==
  LET upTo[i \in 0 .. Len(s)] ==
        IF i = 0 THEN <<>> ELSE IF i \in I THEN Append(upTo[i - 1], s[i]) ELSE upTo[i - 1]
  IN  upTo[Len(s)]

Filter(s, Test(_)) == Picked(s, {i \in 1 .. Len(s) : Test(s[i])})

(* Each element where it comes first.                                      *)
Distinct(s) == Picked(s, {i \in 1 .. Len(s) : \A j \in 1 .. i - 1 : s[j] # s[i]})

=============================================================================
