--------------------------- MODULE NodeLockProofs ---------------------------
(***************************************************************************)
(* Proofs about NodeLock, for any tree and any readers and writers.        *)
(***************************************************************************)
EXTENDS NodeLock, SequenceTheorems, FiniteSetTheorems, WellFoundedInduction, TLAPS

-----------------------------------------------------------------------------
(* The stacks. *)

Depths(r) == 1 .. Len(stack[r])

Height == CHOOSE height \in [Node -> 0 .. Cardinality(Node)] : Lower(height)

(* Only the innermost call waits for something, or is at its parent; xpath  *)
(* and Dump alone call other methods, and Dump calls itself on children.    *)
Shape(r) ==
  /\ \A d \in Depths(r) : d < Len(stack[r]) =>
       stack[r][d].at \in {"locked", "id", "leave"} /\ stack[r][d].call \in {"xpath", "Dump"}
  /\ \A d \in Depths(r) : stack[r][d].at \in {"id", "siblings"} => stack[r][d].call = "xpath"
  /\ \A d \in Depths(r) : stack[r][d].at = "siblings" => stack[r][d].node # Root
  /\ \A d, e \in Depths(r) : d < e /\ stack[r][d].call = "Dump" =>
       stack[r][e].call = "Dump" /\ Height[stack[r][e].node] < Height[stack[r][d].node]

Typed ==
  /\ stack \in [Reader -> Seq(Frame)]
  /\ readers \in [Node -> Int]
  /\ waiting \in [Node -> SUBSET Reader]
  /\ owner \in [Node -> Writer \cup {NoWriter}]
  /\ inside \subseteq Writer

StacksInv == Typed /\ \A r \in Reader : Shape(r)

(* What the innermost call of r has asked for.                             *)
Wants(r) == IF Top(r).at = "siblings" THEN Parent[Top(r).node] ELSE Top(r).node

(* Readers wait in the queue of what they want, behind a writer.            *)
WaitsAtTop ==
  \A n \in Node : \A r \in waiting[n] :
    /\ stack[r] # <<>> /\ Top(r).at \in {"locked", "siblings"} /\ Wants(r) = n
    /\ owner[n] # NoWriter

(* A writer has one mutex, and no reader has it when it is inside.          *)
WritersInv ==
  /\ \A m, n \in Node : owner[m] # NoWriter /\ owner[m] = owner[n] => m = n
  /\ \A w \in inside : Locking(w)
  /\ \A n \in Node : owner[n] \in inside => readers[n] = 0

-----------------------------------------------------------------------------
LEMMA CallersType ==
  ASSUME stack \in [Reader -> Seq(Frame)], NEW r \in Reader, stack[r] # <<>>
  PROVE  /\ Callers(r) \in Seq(Frame) /\ Len(Callers(r)) = Len(stack[r]) - 1
         /\ \A d \in 1 .. Len(stack[r]) - 1 : Callers(r)[d] = stack[r][d]
<1>1. stack[r] \in Seq(Frame) /\ Len(stack[r]) \in Nat \ {0}
  BY EmptySeq
<1> DEFINE s == stack[r]
           n == Len(stack[r]) - 1
<1>2. n \in Nat /\ \A i \in 1 .. n : s[i] \in Frame
  BY <1>1, ElementOfSeq
<1> HIDE DEF n, s
<1>3. /\ SubSeq(s, 1, n) \in Seq(Frame)
      /\ Len(SubSeq(s, 1, n)) = IF 1 <= n THEN n - 1 + 1 ELSE 0
      /\ \A i \in 1 .. n - 1 + 1 : SubSeq(s, 1, n)[i] = s[1 + i - 1]
  BY <1>2, SubSeqProperties
<1>4. Len(SubSeq(s, 1, n)) = n /\ \A i \in 1 .. n : SubSeq(s, 1, n)[i] = s[i]
  BY <1>2, <1>3
<1> QED BY <1>3, <1>4 DEF Callers, s, n

LEMMA TopReplaced ==
  ASSUME stack \in [Reader -> Seq(Frame)], NEW r \in Reader, stack[r] # <<>>, NEW f \in Frame,
         stack' = [stack EXCEPT ![r] = Append(Callers(r), f)]
  PROVE  /\ stack' \in [Reader -> Seq(Frame)]
         /\ Len(stack'[r]) = Len(stack[r]) /\ Len(stack[r]) \in Nat \ {0}
         /\ stack'[r][Len(stack[r])] = f
         /\ \A d \in 1 .. Len(stack[r]) - 1 : stack'[r][d] = stack[r][d]
         /\ \A h \in Reader \ {r} : stack'[h] = stack[h]
<1> DEFINE s == stack[r]
           t == Callers(r)
<1>1. s \in Seq(Frame) /\ Len(s) \in Nat \ {0}
  BY EmptySeq
<1>2. t \in Seq(Frame) /\ Len(t) = Len(s) - 1 /\ \A d \in 1 .. Len(s) - 1 : t[d] = s[d]
  BY CallersType
<1>3. stack'[r] = Append(t, f)
  OBVIOUS
<1>4. /\ Append(t, f) \in Seq(Frame) /\ Len(Append(t, f)) = Len(s)
      /\ Append(t, f)[Len(s)] = f
      /\ \A d \in 1 .. Len(s) - 1 : Append(t, f)[d] = t[d]
  BY <1>1, <1>2, AppendProperties
<1> QED BY <1>1, <1>2, <1>3, <1>4

LEMMA CallPushed ==
  ASSUME stack \in [Reader -> Seq(Frame)], NEW r \in Reader, stack[r] # <<>>, NEW f \in Frame, NEW g \in Frame,
         stack' = [stack EXCEPT ![r] = Append(Append(Callers(r), f), g)]
  PROVE  /\ stack' \in [Reader -> Seq(Frame)]
         /\ Len(stack'[r]) = Len(stack[r]) + 1 /\ Len(stack[r]) \in Nat \ {0}
         /\ stack'[r][Len(stack[r])] = f /\ stack'[r][Len(stack[r]) + 1] = g
         /\ \A d \in 1 .. Len(stack[r]) - 1 : stack'[r][d] = stack[r][d]
         /\ \A h \in Reader \ {r} : stack'[h] = stack[h]
<1> DEFINE s == stack[r]
           t == Append(Callers(r), f)
<1>1. s \in Seq(Frame) /\ Len(s) \in Nat \ {0}
  BY EmptySeq
<1>2. Callers(r) \in Seq(Frame) /\ Len(Callers(r)) = Len(s) - 1 /\ \A d \in 1 .. Len(s) - 1 : Callers(r)[d] = s[d]
  BY CallersType
<1>3. /\ t \in Seq(Frame) /\ Len(t) = Len(s)
      /\ t[Len(s)] = f
      /\ \A d \in 1 .. Len(s) - 1 : t[d] = s[d]
  BY <1>1, <1>2, AppendProperties
<1>4. stack' = [stack EXCEPT ![r] = Append(t, g)]
  OBVIOUS
<1> HIDE DEF t
<1>5. /\ Append(t, g) \in Seq(Frame) /\ Len(Append(t, g)) = Len(s) + 1
      /\ Append(t, g)[Len(s) + 1] = g
      /\ \A d \in 1 .. Len(s) : Append(t, g)[d] = t[d]
  BY <1>1, <1>3, AppendProperties
<1>6. /\ stack'[r] = Append(t, g) /\ stack' \in [Reader -> Seq(Frame)]
      /\ \A h \in Reader \ {r} : stack'[h] = stack[h]
  BY <1>4, <1>5
<1>7. /\ Append(t, g)[Len(s)] = f
      /\ \A d \in 1 .. Len(s) - 1 : Append(t, g)[d] = s[d]
  <2>1. Len(s) \in 1 .. Len(s) /\ \A d \in 1 .. Len(s) - 1 : d \in 1 .. Len(s)
    BY <1>1
  <2> QED BY <2>1, <1>3, <1>5, Zenon
<1> QED BY <1>1, <1>5, <1>6, <1>7

LEMMA CallPopped ==
  ASSUME stack \in [Reader -> Seq(Frame)], NEW r \in Reader, stack[r] # <<>>,
         stack' = [stack EXCEPT ![r] = Callers(r)]
  PROVE  /\ stack' \in [Reader -> Seq(Frame)]
         /\ Len(stack'[r]) = Len(stack[r]) - 1 /\ Len(stack[r]) \in Nat \ {0}
         /\ \A d \in 1 .. Len(stack[r]) - 1 : stack'[r][d] = stack[r][d]
         /\ \A h \in Reader \ {r} : stack'[h] = stack[h]
<1> DEFINE s == stack[r]
<1>1. s \in Seq(Frame) /\ Len(s) \in Nat \ {0}
  BY EmptySeq
<1>2. Callers(r) \in Seq(Frame) /\ Len(Callers(r)) = Len(s) - 1 /\ \A d \in 1 .. Len(s) - 1 : Callers(r)[d] = s[d]
  BY CallersType
<1> QED BY <1>1, <1>2

LEMMA TopType ==
  ASSUME stack \in [Reader -> Seq(Frame)], NEW r \in Reader, stack[r] # <<>>
  PROVE  Top(r) \in Frame /\ Len(stack[r]) \in Depths(r)
<1>1. stack[r] \in Seq(Frame) /\ Len(stack[r]) \in Nat \ {0}
  BY EmptySeq
<1> QED BY <1>1, ElementOfSeq DEF Top, Depths

-----------------------------------------------------------------------------
(* The stacks keep their shape. *)

LEMMA ChildLower ==
  /\ Height \in [Node -> 0 .. Cardinality(Node)]
  /\ \A n \in Node : \A i \in 1 .. Len(Children[n]) :
       Children[n][i] \in Node \ {Root} /\ Height[Children[n][i]] < Height[n]
<1>1. Height \in [Node -> 0 .. Cardinality(Node)] /\ Lower(Height)
  BY TreeConstants DEF TreeConstants, Height
<1>2. ASSUME NEW n \in Node, NEW i \in 1 .. Len(Children[n])
      PROVE  Children[n][i] \in Node \ {Root} /\ Parent[Children[n][i]] = n
  BY TreeConstants, ElementOfSeq DEF TreeConstants
<1> QED BY <1>1, <1>2 DEF Lower

(* The innermost call gets to another place, and the others stay.          *)
Moved(r, d, place) ==
  /\ stack'[r][d].node = stack[r][d].node
  /\ d < Len(stack[r]) => stack'[r][d].at = stack[r][d].at
  /\ d = Len(stack[r]) => stack'[r][d].at = place

LEMMA GoesTo ==
  ASSUME Typed, NEW r \in Reader, Shape(r), stack[r] # <<>>, NEW place \in Places, Goto(r, place),
         place \in {"id", "siblings"} => Top(r).call = "xpath",
         place = "siblings" => Top(r).node # Root
  PROVE  /\ stack' \in [Reader -> Seq(Frame)] /\ Shape(r)'
         /\ \A h \in Reader \ {r} : stack'[h] = stack[h]
         /\ Depths(r)' = Depths(r) /\ Len(stack[r]) \in Depths(r) /\ Len(stack'[r]) = Len(stack[r])
         /\ \A d \in Depths(r) : Moved(r, d, place)
<1> DEFINE f == [Top(r) EXCEPT !.at = place]
           k == Len(stack[r])
<1>1. Top(r) \in Frame /\ k \in Depths(r)
  BY TopType DEF Typed
<1>2. f \in Frame /\ f.at = place /\ f.call = Top(r).call /\ f.node = Top(r).node
  BY <1>1 DEF Frame
<1>3. stack' = [stack EXCEPT ![r] = Append(Callers(r), f)]
  BY DEF Goto
<1> HIDE DEF f
<1>4. /\ stack' \in [Reader -> Seq(Frame)]
      /\ Len(stack'[r]) = k /\ k \in Nat \ {0}
      /\ stack'[r][k] = f
      /\ \A d \in 1 .. k - 1 : stack'[r][d] = stack[r][d]
      /\ \A h \in Reader \ {r} : stack'[h] = stack[h]
  BY <1>2, <1>3, TopReplaced DEF Typed
<1>5. \A d \in Depths(r) : /\ stack'[r][d].call = stack[r][d].call
                           /\ stack'[r][d].node = stack[r][d].node
                           /\ d < k => stack'[r][d].at = stack[r][d].at
                           /\ d = k => stack'[r][d].at = place
  BY <1>2, <1>4 DEF Depths, Top
<1>6. Top(r) = stack[r][k]
  BY DEF Top
<1> HIDE DEF k
<1>7. Len(stack'[r]) = Len(stack[r]) /\ Len(stack[r]) = k
  BY <1>4 DEF k
<1>8. Depths(r)' = Depths(r)
  BY <1>7 DEF Depths
<1>9. \A d \in Depths(r) : d = k \/ d < k
  BY <1>4, <1>7 DEF Depths
<1>10. ASSUME NEW d \in Depths(r) PROVE
       /\ d < Len(stack'[r]) => stack'[r][d].at \in {"locked", "id", "leave"} /\ stack'[r][d].call \in {"xpath", "Dump"}
       /\ stack'[r][d].at \in {"id", "siblings"} => stack'[r][d].call = "xpath"
       /\ stack'[r][d].at = "siblings" => stack'[r][d].node # Root
  <2>1. CASE d = k
    <3>1. ~(k < k)
      BY <1>4
    <3> QED BY <2>1, <3>1, <1>1, <1>5, <1>6, <1>7
  <2>2. CASE d < k
    BY <2>2, <1>5, <1>7 DEF Shape
  <2> QED BY <1>9, <2>1, <2>2
<1>11. ASSUME NEW d \in Depths(r), NEW e \in Depths(r), d < e, stack'[r][d].call = "Dump"
       PROVE  stack'[r][e].call = "Dump" /\ Height[stack'[r][e].node] < Height[stack'[r][d].node]
  <2>1. stack[r][e].call = "Dump" /\ Height[stack[r][e].node] < Height[stack[r][d].node]
    BY <1>11, <1>5 DEF Shape
  <2> QED BY <2>1, <1>5, Zenon
<1>12. Shape(r)'
  BY <1>8, <1>10, <1>11 DEF Shape
<1>13. \A d \in Depths(r) : Moved(r, d, place)
  BY <1>5, <1>7 DEF Moved
<1> QED BY <1>1, <1>4, <1>7, <1>8, <1>12, <1>13

LEMMA GoesToCall ==
  ASSUME Typed, NEW r \in Reader, Shape(r), stack[r] # <<>>, Top(r).call \in {"xpath", "Dump"},
         NEW f \in Frame, f.at \in {"locked", "id", "leave"}, f.node = Top(r).node, f.call = Top(r).call,
         f.at = "id" => f.call = "xpath",
         NEW call \in Calls \cup {"Attribute"}, NEW n \in Node,
         Top(r).call = "Dump" => call = "Dump" /\ Height[n] < Height[Top(r).node],
         stack' = [stack EXCEPT ![r] = Append(Append(Callers(r), f), Called(call, n))]
  PROVE  /\ stack' \in [Reader -> Seq(Frame)] /\ Shape(r)'
         /\ \A h \in Reader \ {r} : stack'[h] = stack[h]
         /\ Len(stack[r]) \in Depths(r) /\ Len(stack'[r]) = Len(stack[r]) + 1
         /\ \A d : d \in Depths(r)' <=> d \in Depths(r) \/ d = Len(stack[r]) + 1
         /\ \A d \in Depths(r) : Moved(r, d, f.at) /\ d # Len(stack[r]) + 1
         /\ stack'[r][Len(stack[r]) + 1].at = "enter"
<1> DEFINE g == Called(call, n)
           k == Len(stack[r])
<1>1. Top(r) \in Frame /\ k \in Depths(r)
  BY TopType DEF Typed
<1>2. g \in Frame /\ g.at = "enter" /\ g.call = call /\ g.node = n
  BY DEF Frame, Called, Places
<1>3. stack' = [stack EXCEPT ![r] = Append(Append(Callers(r), f), g)] /\ stack \in [Reader -> Seq(Frame)]
  BY DEF Typed
<1> HIDE DEF g
<1>4. /\ stack' \in [Reader -> Seq(Frame)]
      /\ Len(stack'[r]) = k + 1 /\ k \in Nat \ {0}
      /\ stack'[r][k] = f /\ stack'[r][k + 1] = g
      /\ \A d \in 1 .. k - 1 : stack'[r][d] = stack[r][d]
      /\ \A h \in Reader \ {r} : stack'[h] = stack[h]
  <2>1. g \in Frame
    BY <1>2
  <2>2. /\ stack' \in [Reader -> Seq(Frame)]
        /\ Len(stack'[r]) = Len(stack[r]) + 1 /\ Len(stack[r]) \in Nat \ {0}
        /\ stack'[r][Len(stack[r])] = f /\ stack'[r][Len(stack[r]) + 1] = g
        /\ \A d \in 1 .. Len(stack[r]) - 1 : stack'[r][d] = stack[r][d]
        /\ \A h \in Reader \ {r} : stack'[h] = stack[h]
    BY <1>3, <2>1, CallPushed, Zenon
  <2> QED BY <2>2
<1>5. \A d \in Depths(r) : /\ stack'[r][d].call = stack[r][d].call
                           /\ stack'[r][d].node = stack[r][d].node
                           /\ d < k => stack'[r][d].at = stack[r][d].at
                           /\ d = k => stack'[r][d].at = f.at
  BY <1>4 DEF Depths, Top
<1>6. Top(r) = stack[r][k]
  BY DEF Top
<1> HIDE DEF k
<1>7. Len(stack'[r]) = k + 1 /\ Len(stack[r]) = k
  BY <1>4 DEF k
<1>8. \A d : d \in Depths(r)' <=> d \in Depths(r) \/ d = k + 1
  BY <1>4, <1>7 DEF Depths
<1>9. \A d \in Depths(r) : (d = k \/ d < k) /\ d < k + 1 /\ ~(k + 1 < d)
  BY <1>4, <1>7 DEF Depths
<1>10. Height \in [Node -> 0 .. Cardinality(Node)] /\ \A d \in Depths(r) : stack[r][d] \in Frame /\ stack[r][d].node \in Node
  <2>1. stack[r] \in Seq(Frame)
    BY DEF Typed
  <2>2. \A d \in Depths(r) : stack[r][d] \in Frame
    BY <2>1, ElementOfSeq DEF Depths
  <2> QED BY <2>2, ChildLower DEF Frame
<1>11. ~(k + 1 < k + 1)
  BY <1>4
<1>12. ASSUME NEW d \in Depths(r)' PROVE
       /\ d < Len(stack'[r]) => stack'[r][d].at \in {"locked", "id", "leave"} /\ stack'[r][d].call \in {"xpath", "Dump"}
       /\ stack'[r][d].at \in {"id", "siblings"} => stack'[r][d].call = "xpath"
       /\ stack'[r][d].at = "siblings" => stack'[r][d].node # Root
  <2>1. CASE d = k + 1
    BY <2>1, <1>2, <1>4, <1>7, <1>11
  <2>2. CASE d = k
    BY <2>2, <1>1, <1>5, <1>6
  <2>3. CASE d \in Depths(r) /\ d < k
    BY <2>3, <1>5, <1>7 DEF Shape
  <2> QED BY <1>8, <1>9, <2>1, <2>2, <2>3
<1>13. ASSUME NEW d \in Depths(r)', NEW e \in Depths(r)', d < e, stack'[r][d].call = "Dump"
       PROVE  stack'[r][e].call = "Dump" /\ Height[stack'[r][e].node] < Height[stack'[r][d].node]
  <2>1. d \in Depths(r)
    BY <1>13, <1>8, <1>9, <1>11
  <2>2. CASE e \in Depths(r)
    <3>1. stack[r][e].call = "Dump" /\ Height[stack[r][e].node] < Height[stack[r][d].node]
      <4>1. stack[r][d].call = "Dump"
        BY <1>13, <2>1, <1>5
      <4> QED BY <1>13, <2>1, <2>2, <4>1 DEF Shape
    <3> QED BY <2>1, <2>2, <3>1, <1>5, Zenon
  <2>3. CASE e = k + 1
    <3>1. CASE d = k
      BY <1>13, <3>1, <2>3, <1>1, <1>2, <1>4, <1>5, <1>6
    <3>2. CASE d < k
      <4>1. Top(r).call = "Dump" /\ Height[Top(r).node] < Height[stack[r][d].node]
        <5>1. k \in Depths(r) /\ stack[r][d].call = "Dump"
          BY <1>13, <2>1, <1>1, <1>5, <1>7 DEF k
        <5> QED BY <5>1, <3>2, <2>1, <1>6 DEF Shape
      <4>2. {Height[n], Height[Top(r).node], Height[stack[r][d].node]} \subseteq Int
        <5>1. Top(r).node \in Node /\ stack[r][d].node \in Node
          BY <2>1, <1>1, <1>10 DEF Frame
        <5> QED BY <5>1, <1>10
      <4>3. Height[n] < Height[stack[r][d].node] /\ call = "Dump"
        BY <4>1, <4>2
      <4>4. stack'[r][e] = g /\ stack'[r][d].node = stack[r][d].node
        BY <2>1, <2>3, <1>4, <1>5
      <4> QED BY <4>3, <4>4, <1>2, Zenon
    <3> QED BY <2>1, <1>9, <3>1, <3>2
  <2> QED BY <1>8, <2>2, <2>3
<1>14. \A d \in Depths(r) : Moved(r, d, f.at) /\ d # k + 1
  BY <1>5, <1>7, <1>9, <1>11 DEF Moved
<1>15. Shape(r)'
  BY <1>12, <1>13 DEF Shape
<1> QED BY <1>1, <1>2, <1>4, <1>7, <1>8, <1>14, <1>15

-----------------------------------------------------------------------------
(* Sums of locks, as sets of depths for each reader. *)

Pairs(D) == UNION {{<<h, d>> : d \in D[h]} : h \in Reader}

Sum(count, D, E) ==
  /\ IsFiniteSet(Pairs(D)) /\ IsFiniteSet(Pairs(E))
  /\ count = Cardinality(Pairs(D)) + Cardinality(Pairs(E))

LEMMA InPairs ==
  ASSUME NEW D, NEW x
  PROVE  x \in Pairs(D) <=> \E h \in Reader : \E d \in D[h] : x = <<h, d>>
  BY DEF Pairs

(* E is D and one depth more for r. *)
Adds(D, E, r, k) ==
  /\ \A h \in Reader \ {r} : E[h] = D[h]
  /\ E[r] = D[r] \cup {k} /\ k \notin D[r]

Alike(D, E) == \A h \in Reader : E[h] = D[h]

LEMMA PairsAlike ==
  ASSUME NEW D, NEW E, Alike(D, E)
  PROVE  Pairs(E) = Pairs(D)
<1>1. ASSUME NEW x PROVE x \in Pairs(E) <=> x \in Pairs(D)
  BY InPairs DEF Alike
<1> QED BY <1>1

LEMMA PairsAdded ==
  ASSUME NEW D, NEW E, NEW r \in Reader, NEW k, Adds(D, E, r, k)
  PROVE  Pairs(E) = Pairs(D) \cup {<<r, k>>} /\ <<r, k>> \notin Pairs(D)
<1> USE DEF Adds
<1>1. ASSUME NEW x PROVE x \in Pairs(E) <=> x \in Pairs(D) \/ x = <<r, k>>
  <2>1. ASSUME x \in Pairs(E) PROVE x \in Pairs(D) \/ x = <<r, k>>
    <3>1. PICK h \in Reader : \E d \in E[h] : x = <<h, d>>
      BY <2>1, InPairs
    <3>2. PICK d \in E[h] : x = <<h, d>>
      BY <3>1
    <3>3. d \in D[h] \/ (h = r /\ d = k)
      BY <3>2
    <3> QED BY <3>2, <3>3, InPairs
  <2>2. ASSUME x \in Pairs(D) PROVE x \in Pairs(E)
    <3>1. PICK h \in Reader : \E d \in D[h] : x = <<h, d>>
      BY <2>2, InPairs
    <3>2. PICK d \in D[h] : x = <<h, d>>
      BY <3>1
    <3>3. d \in E[h]
      BY <3>2
    <3> QED BY <3>2, <3>3, InPairs
  <2>3. <<r, k>> \in Pairs(E)
    BY InPairs
  <2> QED BY <2>1, <2>2, <2>3
<1>2. <<r, k>> \notin Pairs(D)
  <2> SUFFICES ASSUME <<r, k>> \in Pairs(D) PROVE FALSE
    OBVIOUS
  <2>1. PICK h \in Reader : \E d \in D[h] : <<r, k>> = <<h, d>>
    BY InPairs
  <2> QED BY <2>1
<1> QED BY <1>1, <1>2

LEMMA SumAlike ==
  ASSUME NEW c, NEW D, NEW E, NEW D2, NEW E2, Sum(c, D, E), Alike(D, D2), Alike(E, E2)
  PROVE  Sum(c, D2, E2)
  BY PairsAlike DEF Sum

LEMMA SumTaken ==
  ASSUME NEW c, NEW D, NEW E, NEW D2, NEW E2, NEW r \in Reader, NEW k, Sum(c, D, E),
         Adds(D, D2, r, k), Alike(E, E2)
  PROVE  Sum(c + 1, D2, E2)
<1>1. Pairs(D2) = Pairs(D) \cup {<<r, k>>} /\ <<r, k>> \notin Pairs(D)
  BY PairsAdded
<1>2. Pairs(E2) = Pairs(E)
  BY PairsAlike
<1>3. IsFiniteSet(Pairs(D2)) /\ Cardinality(Pairs(D2)) = Cardinality(Pairs(D)) + 1
  BY <1>1, FS_AddElement DEF Sum
<1>4. Cardinality(Pairs(D)) \in Nat /\ Cardinality(Pairs(E)) \in Nat
  BY FS_CardinalityType DEF Sum
<1> QED BY <1>2, <1>3, <1>4 DEF Sum

LEMMA SumReleased ==
  ASSUME NEW c, NEW D, NEW E, NEW D2, NEW E2, NEW r \in Reader, NEW k, Sum(c, D, E),
         Adds(D2, D, r, k), Alike(E, E2)
  PROVE  Sum(c - 1, D2, E2)
<1>1. Pairs(D) = Pairs(D2) \cup {<<r, k>>} /\ <<r, k>> \notin Pairs(D2)
  BY PairsAdded
<1>2. Pairs(D2) = Pairs(D) \ {<<r, k>>} /\ <<r, k>> \in Pairs(D)
  BY <1>1
<1>3. Pairs(E2) = Pairs(E)
  BY PairsAlike
<1>4. IsFiniteSet(Pairs(D2)) /\ Cardinality(Pairs(D2)) = Cardinality(Pairs(D)) - 1
  BY <1>2, FS_RemoveElement DEF Sum
<1>5. Cardinality(Pairs(D)) \in Nat /\ Cardinality(Pairs(E)) \in Nat
  BY FS_CardinalityType DEF Sum
<1> QED BY <1>3, <1>4, <1>5 DEF Sum

LEMMA SumTurned ==
  ASSUME NEW c, NEW D, NEW E, Sum(c, D, E)
  PROVE  Sum(c, E, D)
<1>1. Cardinality(Pairs(D)) \in Nat /\ Cardinality(Pairs(E)) \in Nat
  BY FS_CardinalityType DEF Sum
<1> QED BY <1>1 DEF Sum

(* E is D and one depth more, that of the innermost call, for all of W.     *)
Joins(D, E, W, top) ==
  /\ W \subseteq Reader
  /\ \A h \in Reader \ W : E[h] = D[h]
  /\ \A h \in W : E[h] = D[h] \cup {top[h]} /\ top[h] \notin D[h]

LEMMA PairsJoined ==
  ASSUME NEW D, NEW E, NEW W, NEW top, Joins(D, E, W, top), IsFiniteSet(Pairs(D))
  PROVE  /\ IsFiniteSet(Pairs(E)) /\ Cardinality(W) \in Nat
         /\ Cardinality(Pairs(E)) = Cardinality(Pairs(D)) + Cardinality(W)
<1> DEFINE T == {<<h, top[h]>> : h \in W}
           f == [h \in W |-> <<h, top[h]>>]
<1>1. W \subseteq Reader /\ IsFiniteSet(W)
  BY MutexConstants, FS_Subset DEF MutexConstants, Joins
<1>2. ExistsBijection(W, T)
  <2>1. f \in [W -> T] /\ \A t \in T : \E h \in W : f[h] = t
    OBVIOUS
  <2>2. \A g, h \in W : f[g] = f[h] => g = h
    OBVIOUS
  <2>3. f \in Bijection(W, T)
    BY <2>1, <2>2 DEF Bijection, Injection, Surjection, IsInjective
  <2> QED BY <2>3 DEF ExistsBijection
<1>3. IsFiniteSet(T) /\ Cardinality(T) = Cardinality(W)
  BY <1>1, <1>2, FS_Bijection
<1>4. ASSUME NEW x PROVE x \in Pairs(E) <=> x \in Pairs(D) \/ x \in T
  <2>1. ASSUME x \in Pairs(E) PROVE x \in Pairs(D) \/ x \in T
    <3>1. PICK h \in Reader : \E d \in E[h] : x = <<h, d>>
      BY <2>1, InPairs
    <3>2. PICK d \in E[h] : x = <<h, d>>
      BY <3>1
    <3>3. d \in D[h] \/ (h \in W /\ d = top[h])
      BY <3>2 DEF Joins
    <3> QED BY <3>2, <3>3, InPairs
  <2>2. ASSUME x \in Pairs(D) PROVE x \in Pairs(E)
    <3>1. PICK h \in Reader : \E d \in D[h] : x = <<h, d>>
      BY <2>2, InPairs
    <3>2. PICK d \in D[h] : x = <<h, d>>
      BY <3>1
    <3>3. d \in E[h]
      BY <3>2 DEF Joins
    <3> QED BY <3>2, <3>3, InPairs
  <2>3. ASSUME x \in T PROVE x \in Pairs(E)
    <3>1. PICK h \in W : x = <<h, top[h]>>
      BY <2>3
    <3>2. top[h] \in E[h] /\ h \in Reader
      BY <1>1 DEF Joins
    <3> QED BY <3>1, <3>2, InPairs
  <2> QED BY <2>1, <2>2, <2>3
<1>5. Pairs(D) \cap T = {}
  <2> SUFFICES ASSUME NEW x \in T, x \in Pairs(D) PROVE FALSE
    OBVIOUS
  <2>1. PICK g \in W : x = <<g, top[g]>>
    OBVIOUS
  <2>2. PICK h \in Reader : \E d \in D[h] : x = <<h, d>>
    BY InPairs
  <2> QED BY <2>1, <2>2 DEF Joins
<1> HIDE DEF T
<1>6. Pairs(E) = Pairs(D) \cup T
  BY <1>4
<1>7. /\ IsFiniteSet(Pairs(E)) /\ Cardinality(Pairs(D) \cap T) = 0
      /\ Cardinality(Pairs(E)) = Cardinality(Pairs(D)) + Cardinality(T) - Cardinality(Pairs(D) \cap T)
  BY <1>3, <1>5, <1>6, FS_Union, FS_EmptySet
<1>8. Cardinality(Pairs(D)) \in Nat /\ Cardinality(W) \in Nat
  BY <1>1, FS_CardinalityType
<1> QED BY <1>3, <1>7, <1>8

(* All of W are let in, those of W1 to a node of their own.                 *)
LEMMA SumJoined ==
  ASSUME NEW c, NEW D, NEW E, NEW D2, NEW E2, Sum(c, D, E), NEW W1, NEW W2, NEW top,
         Joins(D, D2, W1, top), Joins(E, E2, W2, top), W1 \cap W2 = {}
  PROVE  Sum(c + Cardinality(W1 \cup W2), D2, E2)
<1>1. IsFiniteSet(W1) /\ IsFiniteSet(W2)
  BY MutexConstants, FS_Subset DEF MutexConstants, Joins
<1>2. /\ IsFiniteSet(Pairs(D2)) /\ Cardinality(W1) \in Nat
      /\ Cardinality(Pairs(D2)) = Cardinality(Pairs(D)) + Cardinality(W1)
  BY PairsJoined DEF Sum
<1>3. /\ IsFiniteSet(Pairs(E2)) /\ Cardinality(W2) \in Nat
      /\ Cardinality(Pairs(E2)) = Cardinality(Pairs(E)) + Cardinality(W2)
  BY PairsJoined DEF Sum
<1>4. Cardinality(W1 \cap W2) = 0
  BY FS_EmptySet
<1>5. Cardinality(W1 \cup W2) = Cardinality(W1) + Cardinality(W2) - Cardinality(W1 \cap W2)
  BY <1>1, FS_Union
<1>6. Cardinality(Pairs(D)) \in Nat /\ Cardinality(Pairs(E)) \in Nat
  BY FS_CardinalityType DEF Sum
<1> QED BY <1>2, <1>3, <1>4, <1>5, <1>6 DEF Sum

-----------------------------------------------------------------------------
(* The kinds of steps of a reader. *)

Stepped(r, place) ==
  /\ stack[r] # <<>> /\ ~Blocked(r)
  /\ stack' \in [Reader -> Seq(Frame)] /\ Shape(r)'
  /\ \A h \in Reader \ {r} : stack'[h] = stack[h]
  /\ Len(stack[r]) \in Depths(r)
  /\ \A d \in Depths(r) : d \in Depths(r)' /\ Moved(r, d, place)
  /\ \A d \in Depths(r)' : d \notin Depths(r) => stack'[r][d].at = "enter"

Returned(r) ==
  /\ stack[r] # <<>> /\ ~Blocked(r)
  /\ stack' \in [Reader -> Seq(Frame)] /\ Shape(r)'
  /\ \A h \in Reader \ {r} : stack'[h] = stack[h]
  /\ Len(stack[r]) \in Depths(r)
  /\ \A d : d \in Depths(r)' <=> d \in Depths(r) /\ d # Len(stack[r])
  /\ \A d \in Depths(r)' : stack'[r][d] = stack[r][d]

QuietStep(r) ==
  /\ Top(r).at \in {"locked", "id"}
  /\ \E place \in {"locked", "id", "leave"} : Stepped(r, place)
  /\ UNCHANGED mutexes

Locks(r, m, from, to) ==
  /\ Top(r).at = from /\ m \in Node
  /\ RLock(r, m)
  /\ Stepped(r, to) /\ Len(stack'[r]) = Len(stack[r])

Releases(r, m) ==
  /\ Top(r).at = "siblings" /\ m \in Node
  /\ RUnlock(m)
  /\ Stepped(r, "leave")

LEMMA GotoStep ==
  ASSUME StacksInv, NEW r \in Reader, stack[r] # <<>>, ~Blocked(r), NEW place \in Places, Goto(r, place),
         place \in {"id", "siblings"} => Top(r).call = "xpath",
         place = "siblings" => Top(r).node # Root
  PROVE  Stepped(r, place) /\ Len(stack'[r]) = Len(stack[r])
<1>1. Typed /\ Shape(r)
  BY DEF StacksInv
<1>2. /\ stack' \in [Reader -> Seq(Frame)] /\ Shape(r)'
      /\ \A h \in Reader \ {r} : stack'[h] = stack[h]
      /\ Depths(r)' = Depths(r) /\ Len(stack[r]) \in Depths(r) /\ Len(stack'[r]) = Len(stack[r])
      /\ \A d \in Depths(r) : Moved(r, d, place)
  BY <1>1, GoesTo
<1> QED BY <1>2 DEF Stepped

LEMMA CallStep ==
  ASSUME StacksInv, NEW r \in Reader, stack[r] # <<>>, ~Blocked(r), Top(r).call \in {"xpath", "Dump"},
         NEW f \in Frame, f.at \in {"locked", "id", "leave"}, f.node = Top(r).node, f.call = Top(r).call,
         f.at = "id" => f.call = "xpath",
         NEW call \in Calls \cup {"Attribute"}, NEW n \in Node,
         Top(r).call = "Dump" => call = "Dump" /\ Height[n] < Height[Top(r).node],
         stack' = [stack EXCEPT ![r] = Append(Append(Callers(r), f), Called(call, n))]
  PROVE  Stepped(r, f.at)
<1>1. Typed /\ Shape(r)
  BY DEF StacksInv
<1>2. /\ stack' \in [Reader -> Seq(Frame)] /\ Shape(r)'
      /\ \A h \in Reader \ {r} : stack'[h] = stack[h]
      /\ Len(stack[r]) \in Depths(r) /\ Len(stack'[r]) = Len(stack[r]) + 1
      /\ \A d : d \in Depths(r)' <=> d \in Depths(r) \/ d = Len(stack[r]) + 1
      /\ \A d \in Depths(r) : Moved(r, d, f.at) /\ d # Len(stack[r]) + 1
      /\ stack'[r][Len(stack[r]) + 1].at = "enter"
  BY <1>1, GoesToCall
<1> QED BY <1>2 DEF Stepped

LEMMA ReturnStep ==
  ASSUME StacksInv, NEW r \in Reader, stack[r] # <<>>, ~Blocked(r), stack' = [stack EXCEPT ![r] = Callers(r)]
  PROVE  Returned(r)
<1> DEFINE k == Len(stack[r])
<1>1. stack \in [Reader -> Seq(Frame)] /\ Shape(r)
  BY DEF StacksInv, Typed
<1>2. /\ stack' \in [Reader -> Seq(Frame)]
      /\ Len(stack'[r]) = k - 1 /\ k \in Nat \ {0}
      /\ \A d \in 1 .. k - 1 : stack'[r][d] = stack[r][d]
      /\ \A h \in Reader \ {r} : stack'[h] = stack[h]
  BY <1>1, CallPopped
<1> HIDE DEF k
<1>3. Depths(r) = 1 .. k /\ Depths(r)' = 1 .. k - 1 /\ Len(stack[r]) = k
  BY <1>2 DEF Depths, k
<1>4. /\ \A d : d \in Depths(r)' <=> d \in Depths(r) /\ d # k
      /\ k \in Depths(r)
      /\ \A d \in Depths(r)' : d < k /\ d \in Depths(r)
  BY <1>2, <1>3
<1>5. \A d \in Depths(r)' : stack'[r][d] = stack[r][d]
  BY <1>2, <1>3
<1>6. Shape(r)'
  <2>1. \A d \in Depths(r)' : stack'[r][d].at \in {"locked", "id", "leave"} /\ stack'[r][d].call \in {"xpath", "Dump"}
    BY <1>1, <1>3, <1>4, <1>5 DEF Shape
  <2>2. \A d \in Depths(r)' : stack'[r][d].at \in {"id", "siblings"} => stack'[r][d].call = "xpath"
    BY <1>1, <1>4, <1>5 DEF Shape
  <2>3. ASSUME NEW d \in Depths(r)', NEW e \in Depths(r)', d < e, stack'[r][d].call = "Dump"
        PROVE  stack'[r][e].call = "Dump" /\ Height[stack'[r][e].node] < Height[stack'[r][d].node]
    <3>1. stack'[r][d] = stack[r][d] /\ stack'[r][e] = stack[r][e] /\ d \in Depths(r) /\ e \in Depths(r)
      BY <1>4, <1>5
    <3>2. stack[r][e].call = "Dump" /\ Height[stack[r][e].node] < Height[stack[r][d].node]
      BY <1>1, <2>3, <3>1 DEF Shape
    <3> QED BY <3>1, <3>2, Zenon
  <2>4. \A d \in Depths(r)' : stack'[r][d].at # "siblings"
    BY <2>1
  <2> QED BY <2>1, <2>2, <2>3, <2>4 DEF Shape
<1> QED BY <1>2, <1>3, <1>4, <1>5, <1>6 DEF Returned

LEMMA StepKinds ==
  ASSUME StacksInv, NEW r \in Reader, Continue(r)
  PROVE  \/ QuietStep(r)
         \/ Locks(r, Top(r).node, "enter", "locked")
         \/ Locks(r, Parent[Top(r).node], "id", "siblings")
         \/ Releases(r, Parent[Top(r).node])
         \/ Top(r).at = "leave" /\ RUnlock(Top(r).node) /\ Returned(r)
<1>1. stack[r] # <<>> /\ ~Blocked(r)
  BY DEF Continue, Enter, ReadAttributes, AttributeValue, Stop, LockParent, Siblings, DumpChild, Leave, At
<1>2. Top(r) \in Frame /\ Len(stack[r]) \in Depths(r)
  BY <1>1, TopType DEF StacksInv, Typed
<1>3. Top(r).node \in Node /\ Top(r).call \in Calls \cup {"Attribute"}
  BY <1>2 DEF Frame
<1>4. /\ Top(r).at \in {"id", "siblings"} => Top(r).call = "xpath"
      /\ Top(r).at = "siblings" => Top(r).node # Root
  BY <1>2 DEF StacksInv, Shape, Top
<1>5. Top(r).node # Root => Parent[Top(r).node] \in Node
  BY <1>3, TreeConstants DEF TreeConstants
<1>6. CASE Enter(r)
  <2>1. Top(r).at = "enter" /\ RLock(r, Top(r).node) /\ Goto(r, "locked")
    BY <1>6 DEF Enter, At
  <2>2. Stepped(r, "locked") /\ Len(stack'[r]) = Len(stack[r])
    BY <1>1, <2>1, GotoStep DEF Places
  <2> QED BY <1>3, <2>1, <2>2 DEF Locks
<1>7. ASSUME Top(r).at \in {"locked", "id"}, Goto(r, "leave"), UNCHANGED mutexes PROVE QuietStep(r)
  <2>1. Stepped(r, "leave")
    BY <1>1, <1>7, GotoStep DEF Places
  <2> QED BY <1>7, <2>1 DEF QuietStep
<1>8. CASE ReadAttributes(r) \/ Stop(r)
  BY <1>7, <1>8 DEF ReadAttributes, Stop, At
<1>9. CASE AttributeValue(r)
  <2> DEFINE f == [Top(r) EXCEPT !.at = "id"]
  <2>1. Top(r).at = "locked" /\ Top(r).call = "xpath" /\ UNCHANGED mutexes
    BY <1>9 DEF AttributeValue, At
  <2>2. stack' = [stack EXCEPT ![r] = Append(Append(Callers(r), f), Called("Attribute", Top(r).node))]
    BY <1>9 DEF AttributeValue, GotoCall
  <2>3. f \in Frame /\ f.at = "id" /\ f.node = Top(r).node /\ f.call = "xpath"
    BY <1>2, <2>1 DEF Frame, Places
  <2> HIDE DEF f
  <2>4. Stepped(r, f.at)
    BY <1>1, <1>3, <2>1, <2>2, <2>3, CallStep
  <2> QED BY <2>1, <2>3, <2>4 DEF QuietStep
<1>10. CASE LockParent(r)
  <2>1. /\ Top(r).at = "id" /\ Top(r).call = "xpath" /\ Top(r).node # Root
        /\ RLock(r, Parent[Top(r).node]) /\ Goto(r, "siblings")
    BY <1>10 DEF LockParent, At
  <2>2. Stepped(r, "siblings") /\ Len(stack'[r]) = Len(stack[r])
    BY <1>1, <2>1, GotoStep DEF Places
  <2> QED BY <1>5, <2>1, <2>2 DEF Locks
<1>11. CASE Siblings(r)
  <2> DEFINE f == [Top(r) EXCEPT !.at = "leave"]
             m == Parent[Top(r).node]
  <2>1. Top(r).at = "siblings" /\ Top(r).call = "xpath" /\ RUnlock(m)
    BY <1>11 DEF Siblings, At
  <2>2. stack' = [stack EXCEPT ![r] = Append(Append(Callers(r), f), Called("xpath", m))]
    BY <1>11 DEF Siblings, GotoCall
  <2>3. f \in Frame /\ f.at = "leave" /\ f.node = Top(r).node /\ f.call = "xpath"
    BY <1>2, <2>1 DEF Frame, Places
  <2>4. m \in Node /\ "xpath" \in Calls \cup {"Attribute"}
    BY <1>3, <1>4, <1>5, <2>1
  <2> HIDE DEF f, m
  <2>5. Stepped(r, f.at)
    BY <1>1, <2>1, <2>2, <2>3, <2>4, CallStep
  <2> QED BY <2>1, <2>3, <2>4, <2>5 DEF Releases, m
<1>12. CASE DumpChild(r)
  <2> DEFINE n == Top(r).node
             i == Top(r).i
             f == [Top(r) EXCEPT !.i = i + 1]
  <2>1. Top(r).at = "locked" /\ Top(r).call = "Dump" /\ UNCHANGED mutexes /\ i \in Nat \ {0}
    BY <1>2, <1>12 DEF DumpChild, At, Frame
  <2>2. CASE i <= Len(Children[n])
    <3>1. stack' = [stack EXCEPT ![r] = Append(Append(Callers(r), f), Called("Dump", Children[n][i]))]
      BY <1>12, <2>2 DEF DumpChild
    <3>2. f \in Frame /\ f.at = "locked" /\ f.node = Top(r).node /\ f.call = "Dump"
      BY <1>2, <2>1 DEF Frame
    <3>3. Children[n][i] \in Node /\ Height[Children[n][i]] < Height[n] /\ "Dump" \in Calls \cup {"Attribute"}
      BY <1>3, <2>1, <2>2, ChildLower
    <3> HIDE DEF f
    <3>4. Stepped(r, f.at)
      BY <1>1, <2>1, <3>1, <3>2, <3>3, CallStep
    <3> QED BY <2>1, <3>2, <3>4 DEF QuietStep
  <2>3. CASE ~(i <= Len(Children[n]))
    <3>1. Goto(r, "leave")
      BY <1>12, <2>3 DEF DumpChild
    <3> QED BY <1>7, <2>1, <3>1
  <2> QED BY <2>2, <2>3
<1>13. CASE Leave(r)
  <2>1. Top(r).at = "leave" /\ RUnlock(Top(r).node) /\ stack' = [stack EXCEPT ![r] = Callers(r)]
    BY <1>13 DEF Leave, At
  <2> QED BY <1>1, <2>1, ReturnStep
<1> QED BY <1>6, <1>8, <1>9, <1>10, <1>11, <1>12, <1>13 DEF Continue

-----------------------------------------------------------------------------
(* Each mutex counts the locks of the calls. *)

Own(n) == [h \in Reader |-> {d \in Depths(h) : OwnLock(h, d, n)}]
AtParent(n) == [h \in Reader |-> {d \in Depths(h) : ParentLock(h, d, n)}]

Counted(n) == Sum(readers[n], Own(n), AtParent(n))

OthersKeep(r, n) ==
  \A h \in Reader \ {r} : stack'[h] = stack[h] /\ (h \in waiting'[n] <=> h \in waiting[n])

LEMMA OthersLocks ==
  ASSUME NEW r \in Reader, NEW n \in Node, OthersKeep(r, n)
  PROVE  \A h \in Reader \ {r} : Own(n)'[h] = Own(n)[h] /\ AtParent(n)'[h] = AtParent(n)[h]
<1> SUFFICES ASSUME NEW h \in Reader \ {r}
             PROVE  Own(n)'[h] = Own(n)[h] /\ AtParent(n)'[h] = AtParent(n)[h]
  OBVIOUS
<1>1. stack'[h] = stack[h] /\ (h \in waiting'[n] <=> h \in waiting[n]) /\ h \in Reader
  BY DEF OthersKeep
<1> QED BY <1>1 DEF Own, AtParent, Depths, OwnLock, ParentLock

(* What a reader that is not blocked holds, before and after a step.        *)
LEMMA HeldBefore ==
  ASSUME NEW r \in Reader, NEW n \in Node, r \notin waiting[n]
  PROVE  /\ \A d : d \in Own(n)[r] <=> d \in Depths(r) /\ stack[r][d].node = n /\ stack[r][d].at # "enter"
         /\ \A d : d \in AtParent(n)[r] <=>
              d \in Depths(r) /\ stack[r][d].at = "siblings" /\ Parent[stack[r][d].node] = n
  BY DEF Own, AtParent, OwnLock, ParentLock

LEMMA HeldAfter ==
  ASSUME NEW r \in Reader, NEW n \in Node, r \notin waiting'[n]
  PROVE  /\ \A d : d \in Own(n)'[r] <=> d \in Depths(r)' /\ stack'[r][d].node = n /\ stack'[r][d].at # "enter"
         /\ \A d : d \in AtParent(n)'[r] <=>
              d \in Depths(r)' /\ stack'[r][d].at = "siblings" /\ Parent[stack'[r][d].node] = n
  BY DEF Own, AtParent, OwnLock, ParentLock

(* Below the innermost call, all calls hold their own lock and no other.    *)
LEMMA Below ==
  ASSUME StacksInv, NEW r \in Reader, NEW d \in Depths(r), d # Len(stack[r])
  PROVE  d < Len(stack[r]) /\ stack[r][d].at \in {"locked", "id", "leave"}
<1>1. Len(stack[r]) \in Nat
  BY DEF StacksInv, Typed
<1>2. d < Len(stack[r])
  BY <1>1 DEF Depths
<1> QED BY <1>2 DEF StacksInv, Shape

LEMMA HeldAfterStep ==
  ASSUME StacksInv, NEW r \in Reader, NEW n \in Node, NEW place \in Places \ {"enter"}, Stepped(r, place),
         r \notin waiting'[n]
  PROVE  /\ \A d : d \in Own(n)'[r] <=>
              d \in Depths(r) /\ stack[r][d].node = n /\ (d = Len(stack[r]) \/ stack[r][d].at # "enter")
         /\ \A d : d \in AtParent(n)'[r] <=>
              d = Len(stack[r]) /\ place = "siblings" /\ Parent[Top(r).node] = n
<1> DEFINE k == Len(stack[r])
<1>1. ASSUME NEW d \in Depths(r), d # k
      PROVE  /\ stack'[r][d].node = stack[r][d].node /\ stack'[r][d].at = stack[r][d].at
             /\ stack[r][d].at \in {"locked", "id", "leave"} /\ d \in Depths(r)'
  BY <1>1, Below DEF Stepped, Moved
<1>2. /\ stack'[r][k].node = stack[r][k].node /\ stack'[r][k].at = place
      /\ k \in Depths(r) /\ k \in Depths(r)'
  BY DEF Stepped, Moved
<1>3. ASSUME NEW d \in Depths(r)', d \notin Depths(r) PROVE stack'[r][d].at = "enter"
  BY <1>3 DEF Stepped
<1>4. \A d : d \in Own(n)'[r] <=>
        d \in Depths(r) /\ stack[r][d].node = n /\ (d = k \/ stack[r][d].at # "enter")
  BY <1>1, <1>2, <1>3, HeldAfter
<1>5. \A d : d \in AtParent(n)'[r] <=> d = k /\ place = "siblings" /\ Parent[Top(r).node] = n
  BY <1>1, <1>2, <1>3, HeldAfter DEF Top
<1> QED BY <1>4, <1>5

LEMMA HeldBeforeStep ==
  ASSUME StacksInv, NEW r \in Reader, NEW n \in Node, stack[r] # <<>>, ~Blocked(r)
  PROVE  /\ \A d : d \in Own(n)[r] <=>
              d \in Depths(r) /\ stack[r][d].node = n /\ (d = Len(stack[r]) => Top(r).at # "enter")
         /\ \A d : d \in AtParent(n)[r] <=>
              d = Len(stack[r]) /\ Top(r).at = "siblings" /\ Parent[Top(r).node] = n
         /\ Len(stack[r]) \in Depths(r)
<1>1. r \notin waiting[n]
  BY DEF Blocked
<1>2. Len(stack[r]) \in Depths(r)
  BY TopType DEF StacksInv, Typed
<1>3. ASSUME NEW d \in Depths(r), d # Len(stack[r]) PROVE stack[r][d].at \in {"locked", "id", "leave"}
  BY <1>3, Below
<1> QED BY <1>1, <1>2, <1>3, HeldBefore DEF Top

LEMMA QuietCounts ==
  ASSUME StacksInv, NEW r \in Reader, NEW n \in Node, Counted(n), QuietStep(r)
  PROVE  Counted(n)'
<1>1. PICK place \in {"locked", "id", "leave"} : Stepped(r, place)
  BY DEF QuietStep
<1>2. readers' = readers /\ waiting' = waiting /\ Top(r).at \in {"locked", "id"}
  BY DEF QuietStep, mutexes
<1>3. stack[r] # <<>> /\ ~Blocked(r) /\ r \notin waiting'[n] /\ OthersKeep(r, n) /\ place \in Places \ {"enter"}
  BY <1>1, <1>2 DEF Stepped, Blocked, OthersKeep, Places
<1>4. \A d : (d \in Own(n)'[r] <=> d \in Own(n)[r]) /\ (d \in AtParent(n)'[r] <=> d \in AtParent(n)[r])
  <2>1. /\ \A d : d \in Own(n)'[r] <=>
             d \in Depths(r) /\ stack[r][d].node = n /\ (d = Len(stack[r]) \/ stack[r][d].at # "enter")
        /\ \A d : d \in AtParent(n)'[r] <=>
             d = Len(stack[r]) /\ place = "siblings" /\ Parent[Top(r).node] = n
    BY <1>1, <1>3, HeldAfterStep
  <2>2. /\ \A d : d \in Own(n)[r] <=>
             d \in Depths(r) /\ stack[r][d].node = n /\ (d = Len(stack[r]) => Top(r).at # "enter")
        /\ \A d : d \in AtParent(n)[r] <=>
             d = Len(stack[r]) /\ Top(r).at = "siblings" /\ Parent[Top(r).node] = n
    BY <1>3, HeldBeforeStep
  <2>3. ASSUME NEW d \in Depths(r), d # Len(stack[r]) PROVE stack[r][d].at # "enter"
    BY <2>3, Below
  <2> QED BY <1>1, <1>2, <2>1, <2>2, <2>3
<1>5. Own(n)'[r] = Own(n)[r] /\ AtParent(n)'[r] = AtParent(n)[r]
  BY <1>4
<1>6. Alike(Own(n), Own(n)') /\ Alike(AtParent(n), AtParent(n)')
  BY <1>3, <1>5, OthersLocks DEF Alike
<1> QED BY <1>2, <1>6, SumAlike DEF Counted

LEMMA TakenCounts ==
  ASSUME StacksInv, NEW r \in Reader, NEW n \in Node, Counted(n),
         \/ Locks(r, Top(r).node, "enter", "locked")
         \/ Locks(r, Parent[Top(r).node], "id", "siblings")
  PROVE  Counted(n)'
<1> DEFINE k == Len(stack[r])
<1>1. PICK place \in {"locked", "siblings"} :
        /\ Stepped(r, place) /\ Len(stack'[r]) = k
        /\ place = "locked" => Top(r).at = "enter"
        /\ place = "siblings" => Top(r).at = "id"
        /\ IF place = "locked" THEN RLock(r, Top(r).node) /\ Top(r).node \in Node
                               ELSE RLock(r, Parent[Top(r).node]) /\ Parent[Top(r).node] \in Node
  BY DEF Locks
<1> DEFINE l == IF place = "locked" THEN Top(r).node ELSE Parent[Top(r).node]
<1>2. RLock(r, l) /\ l \in Node
  BY <1>1
<1> HIDE DEF l
<1>3. stack[r] # <<>> /\ ~Blocked(r) /\ r \notin waiting[n] /\ place \in Places \ {"enter"}
  BY <1>1 DEF Stepped, Blocked, Places
<1>4. readers \in [Node -> Int] /\ waiting \in [Node -> SUBSET Reader]
  BY DEF StacksInv, Typed
<1>5. OthersKeep(r, n)
  BY <1>1, <1>2, <1>4 DEF OthersKeep, Stepped, RLock
<1>6. /\ \A d : d \in Own(n)[r] <=>
           d \in Depths(r) /\ stack[r][d].node = n /\ (d = k => Top(r).at # "enter")
      /\ \A d : d \in AtParent(n)[r] <=>
           d = k /\ Top(r).at = "siblings" /\ Parent[Top(r).node] = n
      /\ k \in Depths(r)
  BY <1>3, HeldBeforeStep
<1>7. \A d \in Depths(r) : d # k => stack[r][d].at # "enter"
  BY Below
<1>8. CASE r \notin waiting'[n]
  <2>1. /\ \A d : d \in Own(n)'[r] <=>
             d \in Depths(r) /\ stack[r][d].node = n /\ (d = k \/ stack[r][d].at # "enter")
        /\ \A d : d \in AtParent(n)'[r] <=>
             d = k /\ place = "siblings" /\ Parent[Top(r).node] = n
    BY <1>1, <1>3, <1>8, HeldAfterStep
  <2>2. Top(r) = stack[r][k]
    BY DEF Top
  <2>3. CASE n # l
    <3>1. readers'[n] = readers[n]
      BY <1>2, <1>4, <2>3 DEF RLock
    <3>2. Own(n)'[r] = Own(n)[r] /\ AtParent(n)'[r] = AtParent(n)[r]
      BY <1>1, <1>6, <1>7, <2>1, <2>2, <2>3 DEF l
    <3>3. Alike(Own(n), Own(n)') /\ Alike(AtParent(n), AtParent(n)')
      BY <1>5, <3>2, OthersLocks DEF Alike
    <3> QED BY <3>1, <3>3, SumAlike DEF Counted
  <2>4. CASE n = l
    <3>1. readers'[n] = readers[n] + 1
      BY <1>2, <1>4, <1>8, <2>4 DEF RLock
    <3>2. CASE place = "locked"
      <4>1. k \notin Own(n)[r] /\ Own(n)'[r] = Own(n)[r] \cup {k} /\ AtParent(n)'[r] = AtParent(n)[r]
        BY <1>1, <1>6, <1>7, <2>1, <2>2, <2>4, <3>2 DEF l
      <4>2. Adds(Own(n), Own(n)', r, k) /\ Alike(AtParent(n), AtParent(n)')
        BY <1>5, <4>1, OthersLocks DEF Alike, Adds
      <4> HIDE DEF k
      <4> QED BY <3>1, <4>2, SumTaken DEF Counted
    <3>3. CASE place = "siblings"
      <4>1. k \notin AtParent(n)[r] /\ AtParent(n)'[r] = AtParent(n)[r] \cup {k} /\ Own(n)'[r] = Own(n)[r]
        BY <1>1, <1>6, <1>7, <2>1, <2>2, <2>4, <3>3 DEF l
      <4>2. Adds(AtParent(n), AtParent(n)', r, k) /\ Alike(Own(n), Own(n)')
        BY <1>5, <4>1, OthersLocks DEF Alike, Adds
      <4> HIDE DEF k
      <4>3. Sum(readers[n], AtParent(n), Own(n))
        BY SumTurned DEF Counted
      <4>4. Sum(readers[n] + 1, AtParent(n)', Own(n)')
        BY <4>2, <4>3, SumTaken
      <4>5. Sum(readers[n] + 1, Own(n)', AtParent(n)')
        BY <4>4, SumTurned
      <4> QED BY <3>1, <4>5 DEF Counted
    <3> QED BY <3>2, <3>3
  <2> QED BY <2>3, <2>4
<1>9. CASE r \in waiting'[n]
  <2>1. n = l /\ readers'[n] = readers[n]
    BY <1>2, <1>3, <1>4, <1>9 DEF RLock
  <2>2. ASSUME NEW d \in Depths(r), d # k
        PROVE  /\ stack'[r][d].node = stack[r][d].node /\ stack'[r][d].at = stack[r][d].at
               /\ stack[r][d].at \in {"locked", "id", "leave"} /\ d \in Depths(r)'
    BY <1>1, <2>2, Below DEF Stepped, Moved
  <2>3. /\ stack'[r][k].node = stack[r][k].node /\ stack'[r][k].at = place
        /\ k \in Depths(r) /\ k \in Depths(r)' /\ Depths(r)' = Depths(r) /\ Top(r) = stack[r][k]
    BY <1>1 DEF Stepped, Moved, Depths, Top
  <2>4. \A d : d \in Own(n)'[r] <=> /\ d \in Depths(r) /\ stack'[r][d].node = n /\ stack'[r][d].at # "enter"
                                  /\ ~(d = k /\ stack'[r][d].at = "locked")
    BY <1>1, <1>9, <2>3 DEF Own, OwnLock
  <2>5. \A d : d \notin AtParent(n)'[r]
    BY <1>9 DEF AtParent, ParentLock
  <2>6. \A d : d \notin AtParent(n)[r]
    BY <1>1, <1>6
  <2>7. \A d \in Depths(r) : d # k => (d \in Own(n)'[r] <=> d \in Own(n)[r])
    BY <1>6, <2>2, <2>4
  <2>8. k \in Own(n)'[r] <=> k \in Own(n)[r]
    BY <1>1, <1>6, <2>1, <2>3, <2>4 DEF l
  <2>9. Own(n)'[r] = Own(n)[r] /\ AtParent(n)'[r] = AtParent(n)[r]
    BY <1>6, <2>4, <2>5, <2>6, <2>7, <2>8
  <2>10. Alike(Own(n), Own(n)') /\ Alike(AtParent(n), AtParent(n)')
    BY <1>5, <2>9, OthersLocks DEF Alike
  <2> QED BY <2>1, <2>10, SumAlike DEF Counted
<1> QED BY <1>8, <1>9

LEMMA ReleasedCounts ==
  ASSUME StacksInv, NEW r \in Reader, NEW n \in Node, Counted(n), Releases(r, Parent[Top(r).node])
  PROVE  Counted(n)'
<1> DEFINE k == Len(stack[r])
           m == Parent[Top(r).node]
<1>1. Stepped(r, "leave") /\ RUnlock(m) /\ m \in Node /\ Top(r).at = "siblings"
  BY DEF Releases
<1>2. stack[r] # <<>> /\ ~Blocked(r) /\ r \notin waiting'[n] /\ OthersKeep(r, n)
  BY <1>1 DEF Stepped, Blocked, OthersKeep, RUnlock
<1>3. /\ \A d : d \in Own(n)[r] <=>
           d \in Depths(r) /\ stack[r][d].node = n /\ (d = k => Top(r).at # "enter")
      /\ \A d : d \in AtParent(n)[r] <=> d = k /\ Top(r).at = "siblings" /\ m = n
      /\ k \in Depths(r)
  BY <1>2, HeldBeforeStep
<1>4. /\ \A d : d \in Own(n)'[r] <=>
           d \in Depths(r) /\ stack[r][d].node = n /\ (d = k \/ stack[r][d].at # "enter")
      /\ \A d : d \in AtParent(n)'[r] <=>
           d = k /\ "leave" = "siblings" /\ m = n
  BY <1>1, <1>2, HeldAfterStep DEF Places
<1>5. \A d \in Depths(r) : d # k => stack[r][d].at # "enter"
  BY Below
<1>6. Own(n)'[r] = Own(n)[r]
  BY <1>1, <1>3, <1>4, <1>5
<1>7. Alike(Own(n), Own(n)')
  BY <1>2, <1>6, OthersLocks DEF Alike
<1>8. readers \in [Node -> Int]
  BY DEF StacksInv, Typed
<1>9. CASE n # m
  <2>1. readers'[n] = readers[n]
    BY <1>1, <1>8, <1>9 DEF RUnlock
  <2>2. AtParent(n)'[r] = AtParent(n)[r]
    BY <1>3, <1>4, <1>9
  <2>3. Alike(AtParent(n), AtParent(n)')
    BY <1>2, <2>2, OthersLocks DEF Alike
  <2> QED BY <1>7, <2>1, <2>3, SumAlike DEF Counted
<1>10. CASE n = m
  <2>1. readers'[n] = readers[n] - 1
    BY <1>1, <1>8, <1>10 DEF RUnlock
  <2>2. AtParent(n)[r] = AtParent(n)'[r] \cup {k} /\ k \notin AtParent(n)'[r]
    BY <1>1, <1>3, <1>4, <1>10
  <2>3. Adds(AtParent(n)', AtParent(n), r, k)
    BY <1>2, <2>2, OthersLocks DEF Adds
  <2> HIDE DEF k
  <2>4. Sum(readers[n], AtParent(n), Own(n))
    BY SumTurned DEF Counted
  <2>5. Sum(readers[n] - 1, AtParent(n)', Own(n)')
    BY <1>7, <2>3, <2>4, SumReleased
  <2>6. Sum(readers[n] - 1, Own(n)', AtParent(n)')
    BY <2>5, SumTurned
  <2> QED BY <2>1, <2>6 DEF Counted
<1> QED BY <1>9, <1>10

LEMMA ReturnedCounts ==
  ASSUME StacksInv, NEW r \in Reader, NEW n \in Node, Counted(n),
         Top(r).at = "leave", RUnlock(Top(r).node), Returned(r)
  PROVE  Counted(n)'
<1> DEFINE k == Len(stack[r])
           m == Top(r).node
<1>1. stack[r] # <<>> /\ ~Blocked(r) /\ r \notin waiting'[n] /\ OthersKeep(r, n)
  BY DEF Returned, Blocked, OthersKeep, RUnlock
<1>2. m \in Node
  BY <1>1, TopType DEF StacksInv, Typed, Frame
<1>3. /\ \A d : d \in Own(n)[r] <=>
           d \in Depths(r) /\ stack[r][d].node = n /\ (d = k => Top(r).at # "enter")
      /\ \A d : d \in AtParent(n)[r] <=>
           d = k /\ Top(r).at = "siblings" /\ Parent[Top(r).node] = n
      /\ k \in Depths(r)
  BY <1>1, HeldBeforeStep
<1>4. /\ \A d : d \in Depths(r)' <=> d \in Depths(r) /\ d # k
      /\ \A d \in Depths(r)' : stack'[r][d] = stack[r][d]
  BY DEF Returned
<1>5. \A d \in Depths(r) : d # k => stack[r][d].at \in {"locked", "id", "leave"}
  BY Below
<1>6. /\ \A d : d \in Own(n)'[r] <=> d \in Depths(r)' /\ stack'[r][d].node = n /\ stack'[r][d].at # "enter"
      /\ \A d : d \in AtParent(n)'[r] <=>
           d \in Depths(r)' /\ stack'[r][d].at = "siblings" /\ Parent[stack'[r][d].node] = n
  BY <1>1, HeldAfter
<1>7. AtParent(n)'[r] = AtParent(n)[r]
  BY <1>3, <1>4, <1>5, <1>6
<1>8. Alike(AtParent(n), AtParent(n)')
  BY <1>1, <1>7, OthersLocks DEF Alike
<1>9. readers \in [Node -> Int] /\ m = stack[r][k].node
  BY DEF StacksInv, Typed, Top
<1>10. CASE n # m
  <2>1. readers'[n] = readers[n]
    BY <1>2, <1>9, <1>10 DEF RUnlock
  <2>2. Own(n)'[r] = Own(n)[r]
    <3>1. ASSUME NEW d PROVE d \in Own(n)'[r] <=> d \in Own(n)[r]
      <4>1. CASE d \in Depths(r)'
        <5>1. d \in Depths(r) /\ d # k /\ stack'[r][d] = stack[r][d]
          BY <4>1, <1>4
        <5>2. d \in Own(n)[r] <=> stack[r][d].node = n /\ stack[r][d].at # "enter"
          BY <5>1, <1>3, <1>5
        <5>3. d \in Own(n)'[r] <=> stack[r][d].node = n /\ stack[r][d].at # "enter"
          BY <4>1, <5>1, <1>6
        <5> QED BY <5>2, <5>3
      <4>2. CASE d \notin Depths(r)'
        BY <4>2, <1>3, <1>4, <1>6, <1>9, <1>10
      <4> QED BY <4>1, <4>2
    <3> QED BY <3>1
  <2>3. Alike(Own(n), Own(n)')
    BY <1>1, <2>2, OthersLocks DEF Alike
  <2> QED BY <1>8, <2>1, <2>3, SumAlike DEF Counted
<1>11. CASE n = m
  <2>1. readers'[n] = readers[n] - 1
    BY <1>2, <1>9, <1>11 DEF RUnlock
  <2>2. Own(n)[r] = Own(n)'[r] \cup {k} /\ k \notin Own(n)'[r]
    BY <1>3, <1>4, <1>5, <1>6, <1>9, <1>11
  <2>3. Adds(Own(n)', Own(n), r, k)
    BY <1>1, <2>2, OthersLocks DEF Adds
  <2> HIDE DEF k
  <2> QED BY <1>8, <2>1, <2>3, SumReleased DEF Counted
<1> QED BY <1>10, <1>11

LEMMA UnlockCounts ==
  ASSUME StacksInv, WaitsAtTop, NEW n \in Node, Counted(n), NEW w \in Writer, NEW m \in Node,
         Unlock(w, m), UNCHANGED stack
  PROVE  Counted(n)'
<1>1. readers \in [Node -> Int] /\ waiting \in [Node -> SUBSET Reader]
  BY DEF StacksInv, Typed
<1>2. CASE n # m
  <2>1. readers'[n] = readers[n] /\ waiting'[n] = waiting[n]
    BY <1>1, <1>2 DEF Unlock
  <2>2. Own(n)' = Own(n) /\ AtParent(n)' = AtParent(n)
    BY <2>1 DEF Own, AtParent, Depths, OwnLock, ParentLock
  <2> QED BY <2>1, <2>2 DEF Counted
<1>3. CASE n = m
  <2> DEFINE W1 == {r \in waiting[n] : Top(r).at = "locked"}
             W2 == {r \in waiting[n] : Top(r).at = "siblings"}
             top == [r \in Reader |-> Len(stack[r])]
  <2>1. readers'[n] = readers[n] + Cardinality(waiting[n]) /\ waiting'[n] = {} /\ waiting[n] \subseteq Reader
    BY <1>1, <1>3 DEF Unlock
  <2>2. waiting[n] = W1 \cup W2 /\ W1 \cap W2 = {}
    BY DEF WaitsAtTop
  <2>3. ASSUME NEW r \in waiting[n]
        PROVE  /\ r \in Reader /\ Len(stack[r]) \in Depths(r) /\ Top(r) = stack[r][Len(stack[r])]
               /\ r \in W1 => Top(r).node = n
               /\ r \in W2 => Parent[Top(r).node] = n
    BY <2>1, TopType DEF WaitsAtTop, Wants, StacksInv, Typed, Top
  <2>4. ASSUME NEW r \in Reader, r \notin waiting[n]
        PROVE  Own(n)'[r] = Own(n)[r] /\ AtParent(n)'[r] = AtParent(n)[r]
    BY <2>1, <2>4 DEF Own, AtParent, Depths, OwnLock, ParentLock
  <2>5. ASSUME NEW r \in Reader
        PROVE  /\ \A d : d \in Own(n)'[r] <=> d \in Depths(r) /\ stack[r][d].node = n /\ stack[r][d].at # "enter"
               /\ \A d : d \in AtParent(n)'[r] <=>
                    d \in Depths(r) /\ stack[r][d].at = "siblings" /\ Parent[stack[r][d].node] = n
    BY <2>1 DEF Own, AtParent, Depths, OwnLock, ParentLock
  <2>6. ASSUME NEW r \in waiting[n]
        PROVE  /\ \A d : d \in Own(n)[r] <=> d \in Depths(r) /\ stack[r][d].node = n /\ stack[r][d].at # "enter"
                                              /\ ~(d = Len(stack[r]) /\ r \in W1)
               /\ \A d : d \notin AtParent(n)[r]
    BY <2>3 DEF Own, AtParent, OwnLock, ParentLock
  <2>7. Joins(Own(n), Own(n)', W1, top)
    <3>1. ASSUME NEW r \in Reader \ W1 PROVE Own(n)'[r] = Own(n)[r]
      <4>1. CASE r \in waiting[n]
        <5>1. r \in Reader /\ r \notin W1
          BY <3>1
        <5>2. ASSUME NEW d PROVE d \in Own(n)'[r] <=> d \in Own(n)[r]
          BY <2>5, <2>6, <4>1, <5>1
        <5> QED BY <5>2
      <4> QED BY <2>4, <4>1
    <3>2. ASSUME NEW r \in W1 PROVE Own(n)'[r] = Own(n)[r] \cup {top[r]} /\ top[r] \notin Own(n)[r]
      <4>1. r \in waiting[n] /\ r \in Reader /\ top[r] = Len(stack[r]) /\ top[r] \in Depths(r)
            /\ stack[r][top[r]].node = n /\ stack[r][top[r]].at = "locked"
        BY <2>3
      <4>2. top[r] \notin Own(n)[r] /\ top[r] \in Own(n)'[r]
        BY <2>5, <2>6, <4>1
      <4>3. ASSUME NEW d, d # top[r] PROVE d \in Own(n)'[r] <=> d \in Own(n)[r]
        BY <2>5, <2>6, <4>1, <4>3
      <4> QED BY <4>2, <4>3
    <3> QED BY <2>1, <2>2, <3>1, <3>2 DEF Joins
  <2>8. Joins(AtParent(n), AtParent(n)', W2, top)
    <3>1. ASSUME NEW r \in waiting[n], NEW d \in AtParent(n)'[r] PROVE d = Len(stack[r]) /\ r \in W2
      <4>1. r \in Reader /\ d \in Depths(r) /\ stack[r][d].at = "siblings"
        BY <2>3, <2>5
      <4> QED BY <2>3, <4>1, Below
    <3>2. ASSUME NEW r \in Reader \ W2 PROVE AtParent(n)'[r] = AtParent(n)[r]
      <4>1. CASE r \in waiting[n]
        BY <2>6, <3>1, <3>2, <4>1
      <4> QED BY <2>4, <4>1
    <3>3. ASSUME NEW r \in W2 PROVE AtParent(n)'[r] = AtParent(n)[r] \cup {top[r]} /\ top[r] \notin AtParent(n)[r]
      <4>1. r \in waiting[n] /\ r \in Reader /\ top[r] = Len(stack[r]) /\ top[r] \in Depths(r)
            /\ Parent[stack[r][top[r]].node] = n /\ stack[r][top[r]].at = "siblings"
        BY <2>3
      <4>2. top[r] \in AtParent(n)'[r] /\ \A d : d \notin AtParent(n)[r]
        BY <2>5, <2>6, <4>1
      <4> QED BY <3>1, <4>1, <4>2
    <3> QED BY <2>1, <2>2, <3>2, <3>3 DEF Joins
  <2> HIDE DEF W1, W2, top
  <2>9. Sum(readers[n] + Cardinality(W1 \cup W2), Own(n)', AtParent(n)')
    BY <2>2, <2>7, <2>8, SumJoined DEF Counted
  <2> QED BY <2>1, <2>2, <2>9 DEF Counted
<1> QED BY <1>2, <1>3

-----------------------------------------------------------------------------
(* The invariant. *)

LockInv == StacksInv /\ WaitsAtTop /\ WritersInv /\ \A n \in Node : Counted(n)

LEMMA Initially == Init => LockInv
<1> SUFFICES ASSUME Init PROVE LockInv
  OBVIOUS
<1>1. /\ stack = [r \in Reader |-> <<>>] /\ readers = [n \in Node |-> 0]
      /\ waiting = [n \in Node |-> {}] /\ owner = [n \in Node |-> NoWriter] /\ inside = {}
  BY DEF Init, MutexInit
<1>2. \A r \in Reader : stack[r] = <<>> /\ Depths(r) = {}
  BY <1>1 DEF Depths
<1>3. StacksInv
  BY <1>1, <1>2, EmptySeq DEF StacksInv, Typed, Shape
<1>4. WaitsAtTop /\ WritersInv
  BY <1>1, MutexConstants DEF WaitsAtTop, WritersInv, MutexConstants
<1>5. ASSUME NEW n \in Node PROVE Counted(n)
  <2>1. \A r \in Reader : Own(n)[r] = {} /\ AtParent(n)[r] = {}
    BY <1>2 DEF Own, AtParent
  <2>2. Pairs(Own(n)) = {} /\ Pairs(AtParent(n)) = {}
    BY <2>1 DEF Pairs
  <2>3. readers[n] = 0
    BY <1>1
  <2> QED BY <2>2, <2>3, FS_EmptySet DEF Counted, Sum
<1> QED BY <1>3, <1>4, <1>5 DEF LockInv

(* Who holds a lock is counted.                                            *)
LEMMA HeldCounts ==
  ASSUME NEW c, NEW D, NEW E, Sum(c, D, E), NEW r \in Reader, NEW d, d \in D[r] \/ d \in E[r]
  PROVE  c # 0
<1>1. <<r, d>> \in Pairs(D) \/ <<r, d>> \in Pairs(E)
  BY InPairs
<1>2. Cardinality(Pairs(D)) # 0 \/ Cardinality(Pairs(E)) # 0
  BY <1>1, FS_EmptySet DEF Sum
<1>3. Cardinality(Pairs(D)) \in Nat /\ Cardinality(Pairs(E)) \in Nat
  BY FS_CardinalityType DEF Sum
<1> QED BY <1>2, <1>3 DEF Sum

LEMMA ReaderCounts ==
  ASSUME LockInv, NEW r \in Reader, Continue(r), NEW n \in Node
  PROVE  Counted(n)'
<1>1. StacksInv /\ Counted(n)
  BY DEF LockInv
<1> QED BY <1>1, StepKinds, QuietCounts, TakenCounts, ReleasedCounts, ReturnedCounts

LEMMA LockTypes ==
  ASSUME readers \in [Node -> Int], waiting \in [Node -> SUBSET Reader], NEW r \in Reader, NEW n \in Node,
         RLock(r, n) \/ RUnlock(n)
  PROVE  /\ readers' \in [Node -> Int] /\ waiting' \in [Node -> SUBSET Reader]
         /\ owner' = owner /\ inside' = inside
<1>1. CASE RUnlock(n)
  BY <1>1 DEF RUnlock
<1>2. CASE RLock(r, n) /\ owner[n] = NoWriter
  BY <1>2 DEF RLock
<1>3. CASE RLock(r, n) /\ owner[n] # NoWriter
  BY <1>3 DEF RLock
<1> QED BY <1>1, <1>2, <1>3

(* What a reader leaves to the others.                                     *)
LEMMA ReaderKeeps ==
  ASSUME LockInv, NEW r \in Reader, Continue(r)
  PROVE  StacksInv' /\ owner' = owner /\ inside' = inside
<1>1. Typed /\ (\A h \in Reader : Shape(h)) /\ StacksInv
  BY DEF LockInv, StacksInv
<1>2. readers \in [Node -> Int] /\ waiting \in [Node -> SUBSET Reader]
  BY <1>1 DEF Typed
<1>3. ASSUME NEW place, Stepped(r, place)
      PROVE  /\ stack' \in [Reader -> Seq(Frame)] /\ Shape(r)'
             /\ \A h \in Reader \ {r} : stack'[h] = stack[h]
  BY <1>3 DEF Stepped
<1>4. /\ stack' \in [Reader -> Seq(Frame)] /\ Shape(r)'
      /\ \A h \in Reader \ {r} : stack'[h] = stack[h]
  <2>1. CASE QuietStep(r)
    BY <1>3, <2>1 DEF QuietStep
  <2>2. CASE Top(r).at = "leave" /\ RUnlock(Top(r).node) /\ Returned(r)
    BY <2>2 DEF Returned
  <2>3. CASE Locks(r, Top(r).node, "enter", "locked") \/ Locks(r, Parent[Top(r).node], "id", "siblings")
    <3>1. Stepped(r, "locked") \/ Stepped(r, "siblings")
      BY <2>3 DEF Locks
    <3> QED BY <1>3, <3>1
  <2>4. CASE Releases(r, Parent[Top(r).node])
    BY <1>3, <2>4 DEF Releases
  <2> QED BY <1>1, <2>1, <2>2, <2>3, <2>4, StepKinds
<1>5. /\ owner' = owner /\ inside' = inside
      /\ readers' \in [Node -> Int] /\ waiting' \in [Node -> SUBSET Reader]
  <2>1. UNCHANGED mutexes \/ \E n \in Node : RLock(r, n) \/ RUnlock(n)
    <3>1. CASE Returned(r) /\ RUnlock(Top(r).node)
      <4>1. Top(r).node \in Node
        BY <1>1, <3>1, TopType DEF Returned, Typed, Frame
      <4> QED BY <3>1, <4>1
    <3> QED BY <1>1, <3>1, StepKinds DEF QuietStep, Locks, Releases
  <2>2. CASE UNCHANGED mutexes
    BY <1>2, <2>2 DEF mutexes
  <2> QED BY <1>2, <2>1, <2>2, LockTypes
<1>6. Typed'
  BY <1>1, <1>4, <1>5 DEF Typed
<1>7. ASSUME NEW h \in Reader \ {r} PROVE Shape(h)'
  <2>1. stack'[h] = stack[h] /\ Shape(h)
    BY <1>1, <1>4
  <2> QED BY <2>1 DEF Shape, Depths
<1> QED BY <1>4, <1>5, <1>6, <1>7 DEF StacksInv

LEMMA ReaderWaits ==
  ASSUME LockInv, NEW r \in Reader, Continue(r)
  PROVE  WaitsAtTop'
<1>1. StacksInv /\ WaitsAtTop /\ waiting \in [Node -> SUBSET Reader] /\ owner' = owner
  BY ReaderKeeps DEF LockInv, StacksInv, Typed
<1>2. stack[r] # <<>> /\ ~Blocked(r) /\ \A h \in Reader \ {r} : stack'[h] = stack[h]
  BY <1>1, StepKinds DEF QuietStep, Locks, Releases, Stepped, Returned
<1>3. ASSUME NEW n \in Node, NEW h \in waiting[n]
      PROVE  stack'[h] # <<>> /\ Top(h)'.at \in {"locked", "siblings"} /\ Wants(h)' = n /\ owner'[n] # NoWriter
  <2>1. h \in Reader \ {r} /\ stack'[h] = stack[h]
    BY <1>1, <1>2 DEF Blocked
  <2>2. stack[h] # <<>> /\ Top(h).at \in {"locked", "siblings"} /\ Wants(h) = n /\ owner[n] # NoWriter
    BY <1>1 DEF WaitsAtTop
  <2>3. Top(h)' = Top(h)
    BY <2>1 DEF Top
  <2>4. Wants(h)' = Wants(h)
    BY <2>3 DEF Wants
  <2> QED BY <1>1, <2>1, <2>2, <2>3, <2>4
<1>4. CASE waiting' = waiting
  BY <1>3, <1>4 DEF WaitsAtTop
<1>5. ASSUME NEW l \in Node, NEW from, NEW place \in {"locked", "siblings"}, Locks(r, l, from, place),
             l = IF place = "siblings" THEN Parent[Top(r).node] ELSE Top(r).node, waiting' # waiting
      PROVE  WaitsAtTop'
  <2>1. /\ owner[l] # NoWriter /\ waiting' = [waiting EXCEPT ![l] = @ \cup {r}]
        /\ Stepped(r, place) /\ Len(stack'[r]) = Len(stack[r])
    BY <1>5 DEF Locks, RLock
  <2>2. stack'[r] # <<>> /\ Top(r)'.at = place /\ Top(r)'.node = Top(r).node
    <3>1. /\ stack'[r][Len(stack[r])].node = stack[r][Len(stack[r])].node
          /\ stack'[r][Len(stack[r])].at = place
      BY <2>1 DEF Stepped, Moved
    <3>2. Len(stack[r]) \in 1 .. Len(stack[r])
      BY <2>1 DEF Stepped, Depths
    <3>3. stack'[r] # <<>>
      BY <2>1, <3>2
    <3> QED BY <2>1, <3>1, <3>3 DEF Top
  <2>3. Wants(r)' = l
    BY <1>5, <2>2 DEF Wants
  <2>4. \A n \in Node : \A h \in waiting'[n] : h \in waiting[n] \/ (h = r /\ n = l)
    BY <1>1, <2>1
  <2> QED BY <1>1, <1>3, <2>1, <2>2, <2>3, <2>4 DEF WaitsAtTop
<1>6. ASSUME waiting' # waiting
      PROVE  Locks(r, Top(r).node, "enter", "locked") \/ Locks(r, Parent[Top(r).node], "id", "siblings")
  BY <1>1, <1>6, StepKinds DEF QuietStep, Releases, RUnlock, mutexes
<1>7. ASSUME NEW l, NEW from, NEW to, Locks(r, l, from, to) PROVE l \in Node
  BY <1>7 DEF Locks
<1> QED BY <1>4, <1>5, <1>6, <1>7

LEMMA ReaderWriters ==
  ASSUME LockInv, NEW r \in Reader, Continue(r)
  PROVE  WritersInv'
<1>1. /\ StacksInv /\ WritersInv /\ owner' = owner /\ inside' = inside
      /\ readers \in [Node -> Int] /\ inside \subseteq Writer
  BY ReaderKeeps DEF LockInv, StacksInv, Typed
<1>2. ASSUME NEW n \in Node, owner[n] \in inside PROVE readers'[n] = 0
  <2>1. readers[n] = 0 /\ owner[n] # NoWriter
    BY <1>1, <1>2, MutexConstants DEF WritersInv, MutexConstants
  <2>2. ASSUME NEW l, NEW from, NEW to, Locks(r, l, from, to) PROVE readers'[n] = 0
    BY <1>1, <2>1, <2>2 DEF Locks, RLock
  <2>3. Sum(readers[n], Own(n), AtParent(n))
    BY DEF LockInv, Counted
  <2>4. CASE Releases(r, Parent[Top(r).node])
    <3>1. Top(r).at = "siblings" /\ RUnlock(Parent[Top(r).node]) /\ stack[r] # <<>> /\ ~Blocked(r)
      BY <2>4 DEF Releases, Stepped
    <3>2. ASSUME n = Parent[Top(r).node] PROVE Len(stack[r]) \in AtParent(n)[r]
      BY <1>1, <3>1, <3>2, HeldBeforeStep
    <3>3. n # Parent[Top(r).node]
      BY <2>1, <2>3, <3>2, HeldCounts
    <3> QED BY <1>1, <2>1, <3>1, <3>3 DEF RUnlock
  <2>5. CASE Top(r).at = "leave" /\ RUnlock(Top(r).node) /\ Returned(r)
    <3>1. stack[r] # <<>> /\ ~Blocked(r)
      BY <2>5 DEF Returned
    <3>2. ASSUME n = Top(r).node PROVE Len(stack[r]) \in Own(n)[r]
      <4>1. /\ \A d : d \in Own(n)[r] <=>
                 d \in Depths(r) /\ stack[r][d].node = n /\ (d = Len(stack[r]) => Top(r).at # "enter")
            /\ Len(stack[r]) \in Depths(r)
        BY <1>1, <3>1, HeldBeforeStep
      <4> QED BY <2>5, <3>2, <4>1 DEF Top
    <3>3. n # Top(r).node
      BY <2>1, <2>3, <3>2, HeldCounts
    <3> QED BY <1>1, <2>1, <2>5, <3>3 DEF RUnlock
  <2>6. CASE QuietStep(r)
    BY <2>1, <2>6 DEF QuietStep, mutexes
  <2> QED BY <1>1, <2>2, <2>4, <2>5, <2>6, StepKinds
<1> QED BY <1>1, <1>2 DEF WritersInv, Locking

(* A call from outside holds nothing yet.                                  *)
LEMMA CallKeeps ==
  ASSUME LockInv, NEW r \in Reader, NEW call \in Calls, NEW n \in Node, Call(r, call, n)
  PROVE  LockInv'
<1> DEFINE f == Called(call, n)
<1>1. /\ Typed /\ (\A h \in Reader : Shape(h)) /\ WaitsAtTop /\ WritersInv
      /\ stack[r] = <<>> /\ UNCHANGED mutexes /\ stack' = [stack EXCEPT ![r] = <<f>>]
  BY DEF LockInv, StacksInv, Call
<1>2. f \in Frame /\ f.at = "enter"
  BY DEF Frame, Called, Places
<1> HIDE DEF f
<1>3. /\ stack' \in [Reader -> Seq(Frame)] /\ stack'[r] = <<f>>
      /\ Len(stack'[r]) = 1 /\ stack'[r][1] = f
      /\ \A h \in Reader \ {r} : stack'[h] = stack[h]
  BY <1>1, <1>2 DEF Typed
<1>4. Depths(r) = {} /\ \A d : d \in Depths(r)' <=> d = 1
  BY <1>1, <1>3 DEF Depths
<1>5. UNCHANGED readers /\ UNCHANGED waiting /\ UNCHANGED owner /\ UNCHANGED inside
  BY <1>1 DEF mutexes
<1>6. StacksInv'
  <2>1. Shape(r)'
    BY <1>2, <1>3, <1>4 DEF Shape
  <2>2. ASSUME NEW h \in Reader \ {r} PROVE Shape(h)'
    BY <1>1, <1>3 DEF Shape, Depths
  <2> QED BY <1>1, <1>3, <1>5, <2>1, <2>2 DEF StacksInv, Typed
<1>7. \A m \in Node : r \notin waiting[m]
  BY <1>1 DEF WaitsAtTop
<1>8. WaitsAtTop'
  <2> SUFFICES ASSUME NEW m \in Node, NEW h \in waiting[m]
               PROVE  /\ stack'[h] # <<>> /\ Top(h)'.at \in {"locked", "siblings"} /\ Wants(h)' = m
                      /\ owner'[m] # NoWriter
    BY <1>5 DEF WaitsAtTop
  <2>1. h \in Reader \ {r}
    BY <1>1, <1>7 DEF Typed
  <2>2. Top(h)' = Top(h) /\ stack'[h] = stack[h]
    BY <1>3, <2>1 DEF Top
  <2>3. Wants(h)' = Wants(h)
    BY <2>2 DEF Wants
  <2> QED BY <1>1, <1>5, <2>2, <2>3 DEF WaitsAtTop
<1>9. WritersInv'
  BY <1>1, <1>5 DEF WritersInv, Locking
<1>10. ASSUME NEW m \in Node PROVE Counted(m)'
  <2>1. OthersKeep(r, m)
    BY <1>3, <1>5 DEF OthersKeep
  <2>2. Own(m)[r] = {} /\ AtParent(m)[r] = {}
    BY <1>4 DEF Own, AtParent
  <2>3. r \notin waiting'[m]
    BY <1>5, <1>7
  <2>4. Own(m)'[r] = {} /\ AtParent(m)'[r] = {}
    BY <1>2, <1>3, <1>4, <2>3, HeldAfter
  <2>5. Alike(Own(m), Own(m)') /\ Alike(AtParent(m), AtParent(m)')
    BY <2>1, <2>2, <2>4, OthersLocks DEF Alike
  <2>6. Counted(m)
    BY DEF LockInv
  <2> QED BY <1>5, <2>5, <2>6, SumAlike DEF Counted
<1> QED BY <1>6, <1>8, <1>9, <1>10 DEF LockInv

LEMMA WriterKeeps ==
  ASSUME LockInv, NEW w \in Writer, NEW n \in Node, Change(w, n)
  PROVE  LockInv'
<1>1. /\ Typed /\ (\A h \in Reader : Shape(h)) /\ WaitsAtTop /\ WritersInv /\ StacksInv
      /\ UNCHANGED stack /\ w # NoWriter
  BY MutexConstants DEF LockInv, StacksInv, Change, MutexConstants
<1>2. Announce(w, n) \/ Acquire(w, n) \/ Unlock(w, n)
  BY DEF Change
<1>3. ASSUME Typed' PROVE StacksInv'
  <2>1. ASSUME NEW h \in Reader PROVE Shape(h)'
    BY <1>1 DEF Shape, Depths
  <2> QED BY <1>3, <2>1 DEF StacksInv
<1>4. \A h \in Reader : Top(h)' = Top(h) /\ Wants(h)' = Wants(h)
  BY <1>1 DEF Top, Wants
<1>5. ASSUME UNCHANGED <<readers, waiting>>, NEW m \in Node PROVE Counted(m)'
  <2>1. Own(m)' = Own(m) /\ AtParent(m)' = AtParent(m)
    BY <1>1, <1>5 DEF Own, AtParent, Depths, OwnLock, ParentLock
  <2> QED BY <1>5, <2>1 DEF LockInv, Counted
<1>6. CASE Announce(w, n)
  <2>1. /\ ~Locking(w) /\ owner[n] = NoWriter /\ owner' = [owner EXCEPT ![n] = w]
        /\ UNCHANGED <<readers, waiting, inside>>
    BY <1>6 DEF Announce
  <2>2. Typed'
    BY <1>1, <2>1 DEF Typed
  <2>3. \A m \in Node : owner'[m] = IF m = n THEN w ELSE owner[m]
    BY <1>1, <2>1 DEF Typed
  <2>4. WaitsAtTop'
    BY <1>1, <1>4, <2>1, <2>3 DEF WaitsAtTop, Typed
  <2>5. WritersInv'
    <3>1. w \notin inside /\ \A m \in Node : owner[m] # w
      BY <1>1, <2>1 DEF WritersInv, Locking
    <3>2. \A m, k \in Node : owner'[m] # NoWriter /\ owner'[m] = owner'[k] => m = k
      BY <1>1, <2>3, <3>1 DEF WritersInv
    <3>3. ASSUME NEW v \in inside PROVE \E m \in Node : owner'[m] = v
      <4>1. PICK m \in Node : owner[m] = v
        BY <1>1, <3>3 DEF WritersInv, Locking
      <4>2. m # n
        BY <1>1, <2>1, <3>3, <4>1, MutexConstants DEF Typed, MutexConstants
      <4> QED BY <2>3, <4>1, <4>2
    <3>4. \A m \in Node : owner'[m] \in inside => readers[m] = 0
      BY <1>1, <2>3, <3>1 DEF WritersInv
    <3> QED BY <2>1, <3>2, <3>3, <3>4 DEF WritersInv, Locking
  <2> QED BY <1>3, <1>5, <2>1, <2>2, <2>4, <2>5 DEF LockInv
<1>7. CASE Acquire(w, n)
  <2>1. /\ owner[n] = w /\ readers[n] = 0 /\ inside' = inside \cup {w}
        /\ UNCHANGED <<readers, waiting, owner>>
    BY <1>7 DEF Acquire
  <2>2. Typed'
    BY <1>1, <2>1 DEF Typed
  <2>3. WaitsAtTop'
    BY <1>1, <1>4, <2>1 DEF WaitsAtTop, Typed
  <2>4. WritersInv'
    BY <1>1, <2>1 DEF WritersInv, Locking
  <2> QED BY <1>3, <1>5, <2>1, <2>2, <2>3, <2>4 DEF LockInv
<1>8. CASE Unlock(w, n)
  <2>1. /\ owner[n] = w /\ w \in inside
        /\ owner' = [owner EXCEPT ![n] = NoWriter]
        /\ inside' = inside \ {w}
        /\ readers' = [readers EXCEPT ![n] = @ + Cardinality(waiting[n])]
        /\ waiting' = [waiting EXCEPT ![n] = {}]
    BY <1>8 DEF Unlock
  <2>2. Typed'
    <3>1. Cardinality(waiting[n]) \in Nat
      <4>1. waiting[n] \subseteq Reader
        BY <1>1 DEF Typed
      <4>2. IsFiniteSet(waiting[n])
        BY <4>1, MutexConstants, FS_Subset DEF MutexConstants
      <4> QED BY <4>2, FS_CardinalityType
    <3>2. readers' \in [Node -> Int]
      BY <1>1, <2>1, <3>1 DEF Typed
    <3> QED BY <1>1, <2>1, <3>2 DEF Typed
  <2>3. \A m \in Node : /\ owner'[m] = IF m = n THEN NoWriter ELSE owner[m]
                        /\ waiting'[m] = IF m = n THEN {} ELSE waiting[m]
                        /\ m # n => readers'[m] = readers[m]
    BY <1>1, <2>1 DEF Typed
  <2>4. WaitsAtTop'
    BY <1>1, <1>4, <2>3 DEF WaitsAtTop, Typed
  <2>5. WritersInv'
    <3>1. \A m, k \in Node : owner'[m] # NoWriter /\ owner'[m] = owner'[k] => m = k
      BY <1>1, <2>3 DEF WritersInv
    <3>2. ASSUME NEW v \in inside' PROVE \E m \in Node : owner'[m] = v
      BY <1>1, <2>1, <2>3 DEF WritersInv, Locking
    <3>3. \A m \in Node : owner'[m] \in inside' => readers'[m] = 0
      <4>1. NoWriter \notin inside
        BY <1>1, MutexConstants DEF Typed, MutexConstants
      <4> QED BY <1>1, <2>1, <2>3, <4>1 DEF WritersInv
    <3> QED BY <3>1, <3>2, <3>3 DEF WritersInv, Locking
  <2>6. ASSUME NEW m \in Node PROVE Counted(m)'
    <3>1. Counted(m)
      BY DEF LockInv
    <3> QED BY <1>1, <1>8, <3>1, UnlockCounts
  <2> QED BY <1>3, <2>2, <2>4, <2>5, <2>6 DEF LockInv
<1> QED BY <1>2, <1>6, <1>7, <1>8

LEMMA Inductive == LockInv /\ [Next]_vars => LockInv'
<1> SUFFICES ASSUME LockInv, [Next]_vars PROVE LockInv'
  OBVIOUS
<1>1. ASSUME NEW r \in Reader, Continue(r) PROVE LockInv'
  BY <1>1, ReaderKeeps, ReaderWaits, ReaderWriters, ReaderCounts DEF LockInv
<1>2. ASSUME NEW r \in Reader, NEW call \in Calls, NEW n \in Node, Call(r, call, n) PROVE LockInv'
  BY <1>2, CallKeeps
<1>3. ASSUME NEW w \in Writer, NEW n \in Node, Change(w, n) PROVE LockInv'
  BY <1>3, WriterKeeps
<1>4. CASE UNCHANGED vars
  <2>1. UNCHANGED <<stack, readers, waiting, owner, inside>>
    BY <1>4 DEF vars
  <2>2. StacksInv'
    BY <2>1 DEF LockInv, StacksInv, Typed, Shape, Depths
  <2>3. WaitsAtTop' /\ WritersInv'
    BY <2>1 DEF LockInv, WaitsAtTop, Top, Wants, WritersInv, Locking
  <2>4. ASSUME NEW n \in Node PROVE Counted(n)'
    <3>1. Own(n)' = Own(n) /\ AtParent(n)' = AtParent(n) /\ readers'[n] = readers[n]
      BY <2>1 DEF Own, AtParent, Depths, OwnLock, ParentLock
    <3> QED BY <3>1 DEF LockInv, Counted
  <2> QED BY <2>2, <2>3, <2>4 DEF LockInv
<1> QED BY <1>1, <1>2, <1>3, <1>4 DEF Next

THEOREM Invariant == Spec => []LockInv
  BY Initially, Inductive, PTL DEF Spec

-----------------------------------------------------------------------------
(* The properties. *)

LEMMA LocksAreCounted ==
  ASSUME LockInv, NEW n \in Node
  PROVE  readers[n] = Cardinality(OwnLocks(n)) + Cardinality(ParentLocks(n))
<1>1. ASSUME NEW x PROVE x \in OwnLocks(n) <=> x \in Pairs(Own(n))
  BY DEF OwnLocks, Pairs, Own, Depths
<1>2. ASSUME NEW x PROVE x \in ParentLocks(n) <=> x \in Pairs(AtParent(n))
  BY DEF ParentLocks, Pairs, AtParent, Depths
<1>3. OwnLocks(n) = Pairs(Own(n)) /\ ParentLocks(n) = Pairs(AtParent(n))
  BY <1>1, <1>2
<1> QED BY <1>3 DEF LockInv, Counted, Sum

(* Whatever the tree, the readers and the writers are, the calls on the     *)
(* stacks hold the locks that the mutexes count: Attribute, xpath and Dump  *)
(* release each lock that they take once, on every path.                    *)
THEOREM TypeCorrect == Spec => []TypeOK
<1>1. LockInv => TypeOK
  BY LocksAreCounted DEF LockInv, StacksInv, Typed, TypeOK
<1> QED BY <1>1, Invariant, PTL

LEMMA RacesOnlyAtSiblings ==
  ASSUME LockInv, NEW w \in inside, NEW r \in Reader, NEW n \in Node, owner[n] = w, n \in Reads(r)
  PROVE  Top(r).at = "siblings" /\ n \notin {Top(r).node, Parent[Top(r).node]}
<1>1. StacksInv /\ stack \in [Reader -> Seq(Frame)] /\ WritersInv
  BY DEF LockInv, StacksInv, Typed
<1>2. stack[r] # <<>> /\ ~Blocked(r) /\ Top(r).at # "enter"
  BY DEF Reads
<1>3. /\ \A d : d \in Own(n)[r] <=>
           d \in Depths(r) /\ stack[r][d].node = n /\ (d = Len(stack[r]) => Top(r).at # "enter")
      /\ \A d : d \in AtParent(n)[r] <=>
           d = Len(stack[r]) /\ Top(r).at = "siblings" /\ Parent[Top(r).node] = n
      /\ Len(stack[r]) \in Depths(r)
  BY <1>1, <1>2, HeldBeforeStep
<1>4. readers[n] = 0 /\ Sum(readers[n], Own(n), AtParent(n))
  BY <1>1 DEF WritersInv, LockInv, Counted
<1>5. n # Top(r).node
  <2>1. ASSUME n = Top(r).node PROVE Len(stack[r]) \in Own(n)[r]
    BY <1>2, <1>3, <2>1 DEF Top
  <2> QED BY <1>4, <2>1, HeldCounts
<1>6. ~(Top(r).at = "siblings" /\ n = Parent[Top(r).node])
  <2>1. ASSUME Top(r).at = "siblings", n = Parent[Top(r).node] PROVE Len(stack[r]) \in AtParent(n)[r]
    BY <1>3, <2>1
  <2> QED BY <1>4, <2>1, HeldCounts
<1>7. Top(r).at = "siblings"
  BY <1>2, <1>5 DEF Reads
<1> QED BY <1>5, <1>6, <1>7

(* In any tree, what a thread reads while a client changes the node is the  *)
(* name or the id of a sibling, in xpath.                                   *)
THEOREM RacesAtSiblings == Spec => []OnlySiblingsRace
<1>1. LockInv => OnlySiblingsRace
  BY RacesOnlyAtSiblings DEF OnlySiblingsRace
<1> QED BY <1>1, Invariant, PTL

-----------------------------------------------------------------------------
(* Who waits for whom. *)

LEMMA Least ==
  ASSUME NEW T, T \subseteq Nat, T # {}
  PROVE  \E x \in T : \A y \in T : ~(y < x)
<1>1. \E x \in T : \A y \in T : <<y, x>> \notin OpToRel(<, Nat)
  BY NatLessThanWellFounded, WFMin
<1>2. ASSUME NEW x \in T, NEW y \in T, y < x PROVE <<y, x>> \in OpToRel(<, Nat)
  BY <1>2 DEF OpToRel
<1> QED BY <1>1, <1>2

LEMMA LowestNode ==
  ASSUME NEW W, W \subseteq Node, W # {}
  PROVE  \E n \in W : \A m \in W : ~(Height[m] < Height[n])
<1> DEFINE T == {Height[n] : n \in W}
<1>1. T \subseteq Nat /\ T # {}
  BY ChildLower
<1>2. PICK x \in T : \A y \in T : ~(y < x)
  BY <1>1, Least
<1>3. PICK n \in W : x = Height[n]
  BY <1>2
<1> QED BY <1>2, <1>3

(* A reader waits for the writer of the one mutex that it wants.           *)
LEMMA ReaderWaitsFor ==
  ASSUME LockInv, NEW r \in Reader, NEW b, WaitsFor(r, b), ~InXPath(r)
  PROVE  \E n \in Node : /\ r \in waiting[n] /\ b = owner[n] /\ b \in Writer
                         /\ stack[r] # <<>> /\ Top(r).at = "locked" /\ Top(r).node = n
                         /\ \A m \in Node : r \in waiting[m] => m = n
<1>1. r \notin Writer
  BY MutexConstants DEF MutexConstants
<1>2. PICK n \in Node : r \in waiting[n] /\ b = owner[n]
  BY <1>1 DEF WaitsFor
<1>3. StacksInv /\ Typed /\ WaitsAtTop /\ Shape(r)
  BY DEF LockInv, StacksInv
<1>4. stack[r] # <<>> /\ Len(stack[r]) \in Depths(r)
  BY <1>2, <1>3, TopType DEF WaitsAtTop, Typed
<1>5. b \in Writer
  BY <1>2, <1>3 DEF WaitsAtTop, Typed
<1>6. Top(r).at # "siblings"
  BY <1>3, <1>4 DEF Shape, Top, InXPath, Depths
<1>7. Wants(r) = Top(r).node
  BY <1>6 DEF Wants
<1>8. Top(r).at = "locked" /\ \A m \in Node : r \in waiting[m] => Top(r).node = m
  BY <1>2, <1>3, <1>6, <1>7 DEF WaitsAtTop
<1> QED BY <1>2, <1>4, <1>5, <1>8

(* A writer waits for those that hold the one mutex that it has asked for. *)
LEMMA WriterWaitsFor ==
  ASSUME LockInv, NEW n \in Node, owner[n] \in Writer, NEW c, WaitsFor(owner[n], c)
  PROVE  c \in Reader /\ Holds(c, n)
<1>1. owner[n] \notin Reader /\ owner[n] # NoWriter
  BY MutexConstants DEF MutexConstants
<1>2. PICK k \in Node : owner[k] = owner[n] /\ c \in Reader /\ Holds(c, k)
  BY <1>1 DEF WaitsFor
<1>3. k = n
  BY <1>1, <1>2 DEF LockInv, WritersInv
<1> QED BY <1>2, <1>3

(* Without xpath, who holds a mutex and waits, waits for one further down.  *)
LEMMA HoldersWaitBelow ==
  ASSUME LockInv, NEW c \in Reader, ~InXPath(c), NEW n \in Node, Holds(c, n), c \in waiting[Top(c).node],
         stack[c] # <<>>, Top(c).at = "locked"
  PROVE  Height[Top(c).node] < Height[n]
<1>1. Shape(c) /\ StacksInv
  BY DEF LockInv, StacksInv
<1>2. PICK d \in Depths(c) : OwnLock(c, d, n) \/ ParentLock(c, d, n)
  BY DEF Holds, Depths
<1>3. stack[c][d].call # "xpath"
  BY <1>2 DEF InXPath, Depths
<1>4. OwnLock(c, d, n)
  BY <1>1, <1>2, <1>3 DEF ParentLock, Shape
<1>5. d # Len(stack[c])
  BY <1>4 DEF OwnLock, Top
<1>6. d < Len(stack[c])
  BY <1>1, <1>5, Below
<1>7. stack[c][d].call = "Dump" /\ Len(stack[c]) \in Depths(c)
  BY <1>1, <1>3, <1>6, TopType DEF Shape, StacksInv, Typed
<1> QED BY <1>1, <1>4, <1>6, <1>7 DEF Shape, OwnLock, Top

LEMMA DumpsDoNotCircle ==
  ASSUME LockInv, NEW S \in SUBSET (Reader \cup Writer), Deadlocked(S)
  PROVE  \E r \in S \cap Reader : InXPath(r)
<1> SUFFICES ASSUME \A r \in S \cap Reader : ~InXPath(r)
             PROVE  FALSE
  OBVIOUS
<1> DEFINE W == {n \in Node : \E r \in S \cap Reader : r \in waiting[n]}
<1>1. S # {} /\ \A a \in S : \E b \in S : WaitsFor(a, b)
  BY DEF Deadlocked
<1>2. ASSUME NEW r \in S \cap Reader
      PROVE  \E n \in W : /\ r \in waiting[n] /\ owner[n] \in Writer /\ owner[n] \in S
                          /\ stack[r] # <<>> /\ Top(r).at = "locked" /\ Top(r).node = n
                          /\ \A m \in Node : r \in waiting[m] => m = n
  <2>1. PICK b \in S : WaitsFor(r, b)
    BY <1>1
  <2> QED BY <2>1, ReaderWaitsFor
<1>3. ASSUME NEW n \in Node, owner[n] \in Writer, owner[n] \in S
      PROVE  \E c \in S \cap Reader : Holds(c, n)
  <2>1. PICK c \in S : WaitsFor(owner[n], c)
    BY <1>1, <1>3
  <2> QED BY <1>3, <2>1, WriterWaitsFor
<1>4. W # {}
  <2>1. PICK a \in S : TRUE
    BY <1>1
  <2>2. CASE a \in Reader
    BY <1>2, <2>2
  <2>3. CASE a \in Writer /\ a \notin Reader
    <3>1. PICK b \in S : WaitsFor(a, b)
      BY <1>1
    <3>2. b \in Reader
      BY <2>3, <3>1 DEF WaitsFor
    <3> QED BY <1>2, <3>2
  <2> QED BY <2>2, <2>3
<1>5. PICK n \in W : \A m \in W : ~(Height[m] < Height[n])
  <2>1. W \subseteq Node
    OBVIOUS
  <2> HIDE DEF W
  <2> QED BY <1>4, <2>1, LowestNode
<1>6. PICK r \in S \cap Reader : r \in waiting[n]
  OBVIOUS
<1>7. owner[n] \in Writer /\ owner[n] \in S
  BY <1>2, <1>6
<1>8. PICK c \in S \cap Reader : Holds(c, n)
  BY <1>3, <1>7
<1>9. c \in waiting[Top(c).node] /\ Top(c).node \in W /\ stack[c] # <<>> /\ Top(c).at = "locked"
  BY <1>2
<1>10. Height[Top(c).node] < Height[n]
  BY <1>8, <1>9, HoldersWaitBelow
<1> QED BY <1>5, <1>9, <1>10

(* However deep the tree is and however many threads there are, threads     *)
(* that only call Attribute and Dump do not wait for each other in a        *)
(* circle, with the clients that change the nodes: whoever waits holds      *)
(* locks further up only.                                                   *)
THEOREM CirclesNeedXPath == Spec => []DeadlocksNeedXPath
<1>1. LockInv => DeadlocksNeedXPath
  BY DumpsDoNotCircle DEF DeadlocksNeedXPath
<1> QED BY <1>1, Invariant, PTL

=============================================================================
