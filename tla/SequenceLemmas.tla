--------------------------- MODULE SequenceLemmas ---------------------------
(***************************************************************************)
(* Facts about sequences of any values, about FlattenSeq and SelectInSeq of *)
(* the library, and about Picked and Distinct of Lists.  What a recursive   *)
(* function is follows by induction over the natural numbers, in the form   *)
(* of a set that holds them all (Numbers).                                  *)
(***************************************************************************)
EXTENDS Naturals, SequencesExt, Lists, FiniteSets, FiniteSetTheorems, WellFoundedInduction, TLAPS

(* A sequence, whatever its elements are.                                  *)
IsSeq(s) == s \in Seq(ToSet(s))

-----------------------------------------------------------------------------
(* A set with 0 and the successors of its numbers has all numbers.         *)
LEMMA Numbers ==
  ASSUME NEW S, 0 \in S, \A n \in Nat : n \in S => n + 1 \in S
  PROVE  Nat \subseteq S
<1> SUFFICES ASSUME Nat \ S # {} PROVE FALSE
  OBVIOUS
<1>1. \E x \in Nat \ S : \A y \in Nat \ S : <<y, x>> \notin OpToRel(<, Nat)
  BY NatLessThanWellFounded, WFMin
<1>2. PICK x \in Nat \ S : \A y \in Nat \ S : <<y, x>> \notin OpToRel(<, Nat)
  BY <1>1
<1>3. x # 0 /\ x - 1 \in Nat /\ x - 1 < x
  BY Z3
<1>4. x - 1 \in S
  BY <1>2, <1>3 DEF OpToRel
<1> QED BY <1>3, <1>4

(* A nonempty set of numbers has a least one.                              *)
LEMMA LeastNumber ==
  ASSUME NEW S, S \subseteq Nat, S # {}
  PROVE  \E x \in S : \A y \in S : x <= y
<1>1. \E x \in S : \A y \in S : <<y, x>> \notin OpToRel(<, Nat)
  BY NatLessThanWellFounded, WFMin
<1>2. PICK x \in S : \A y \in S : <<y, x>> \notin OpToRel(<, Nat)
  BY <1>1
<1>3. ASSUME NEW y \in S PROVE x <= y
  <2>1. ~(y < x)
    BY <1>2 DEF OpToRel
  <2> QED BY <2>1
<1> QED BY <1>3

-----------------------------------------------------------------------------
(* Sequences of any values.                                                *)

LEMMA AnySeq == ASSUME NEW S, NEW s \in Seq(S) PROVE IsSeq(s)
<1>1. Len(s) \in Nat /\ DOMAIN s = 1 .. Len(s) /\ s = [i \in 1 .. Len(s) |-> s[i]]
  OBVIOUS
<1>2. \A i \in 1 .. Len(s) : s[i] \in ToSet(s)
  BY <1>1 DEF ToSet
<1>3. s \in [1 .. Len(s) -> ToSet(s)]
  BY <1>1, <1>2
<1> QED BY <1>1, <1>3 DEF IsSeq

LEMMA SeqFacts ==
  ASSUME NEW s, IsSeq(s)
  PROVE  /\ Len(s) \in Nat /\ DOMAIN s = 1 .. Len(s)
         /\ s = [i \in 1 .. Len(s) |-> s[i]]
         /\ ToSet(s) = {s[i] : i \in 1 .. Len(s)}
         /\ \A x : x \in ToSet(s) <=> \E i \in 1 .. Len(s) : s[i] = x
         /\ s = <<>> <=> Len(s) = 0
  BY DEF IsSeq, ToSet

LEMMA SeqFunction ==
  ASSUME NEW n \in Nat, NEW s, s = [i \in 1 .. n |-> s[i]]
  PROVE  IsSeq(s) /\ Len(s) = n
<1>1. s \in [1 .. n -> ToSet(s)]
  BY DEF ToSet
<1> QED BY <1>1 DEF IsSeq

LEMMA NoElements == IsSeq(<<>>) /\ Len(<<>>) = 0 /\ ToSet(<<>>) = {}
<1>1. <<>> \in Seq({}) /\ Len(<<>>) = 0 /\ DOMAIN <<>> = {}
  OBVIOUS
<1> QED BY <1>1, AnySeq DEF ToSet

LEMMA Single == ASSUME NEW x PROVE IsSeq(<<x>>) /\ Len(<<x>>) = 1 /\ <<x>>[1] = x /\ ToSet(<<x>>) = {x}
<1>1. <<x>> \in Seq({x})
  OBVIOUS
<1> QED BY <1>1 DEF IsSeq, ToSet

LEMMA Concat ==
  ASSUME NEW s, NEW t, IsSeq(s), IsSeq(t)
  PROVE  /\ IsSeq(s \o t)
         /\ Len(s \o t) = Len(s) + Len(t)
         /\ \A i \in 1 .. Len(s) : (s \o t)[i] = s[i]
         /\ \A i \in 1 .. Len(t) : (s \o t)[Len(s) + i] = t[i]
         /\ ToSet(s \o t) = ToSet(s) \cup ToSet(t)
<1> DEFINE S == ToSet(s) \cup ToSet(t)
<1>1. s \in Seq(S) /\ t \in Seq(S)
  BY DEF IsSeq
<1> HIDE DEF S
<1>2. s \o t \in Seq(S) /\ Len(s \o t) = Len(s) + Len(t) /\ Len(s) \in Nat /\ Len(t) \in Nat
  BY <1>1
<1>3. ASSUME NEW i \in 1 .. Len(s) PROVE (s \o t)[i] = s[i]
  BY <1>1, <1>2
<1>4. ASSUME NEW i \in 1 .. Len(t) PROVE (s \o t)[Len(s) + i] = t[i]
  BY <1>1, <1>2
<1>5. ASSUME NEW i \in 1 .. Len(s \o t) PROVE (s \o t)[i] \in ToSet(s) \cup ToSet(t)
  BY <1>1, <1>2 DEF S
<1>6. DOMAIN (s \o t) = 1 .. Len(s) + Len(t) /\ DOMAIN s = 1 .. Len(s) /\ DOMAIN t = 1 .. Len(t)
  BY <1>1, <1>2
<1>7. ToSet(s \o t) \subseteq ToSet(s) \cup ToSet(t)
  BY <1>2, <1>5, <1>6 DEF ToSet
<1>8. ASSUME NEW x \in ToSet(s) PROVE x \in ToSet(s \o t)
  <2>1. PICK i \in 1 .. Len(s) : s[i] = x
    BY <1>6 DEF ToSet
  <2>2. i \in 1 .. Len(s) + Len(t)
    BY <1>2
  <2> QED BY <2>1, <2>2, <1>3, <1>6 DEF ToSet
<1>9. ASSUME NEW x \in ToSet(t) PROVE x \in ToSet(s \o t)
  <2>1. PICK i \in 1 .. Len(t) : t[i] = x
    BY <1>6 DEF ToSet
  <2>2. Len(s) + i \in 1 .. Len(s) + Len(t)
    BY <1>2
  <2> QED BY <2>1, <2>2, <1>4, <1>6 DEF ToSet
<1> QED BY <1>2, <1>3, <1>4, <1>7, <1>8, <1>9, AnySeq

LEMMA Appended ==
  ASSUME NEW s, NEW x, IsSeq(s)
  PROVE  /\ IsSeq(Append(s, x))
         /\ Len(Append(s, x)) = Len(s) + 1
         /\ \A i \in 1 .. Len(s) : Append(s, x)[i] = s[i]
         /\ Append(s, x)[Len(s) + 1] = x
         /\ ToSet(Append(s, x)) = ToSet(s) \cup {x}
<1> DEFINE S == ToSet(s) \cup {x}
<1>1. s \in Seq(S) /\ x \in S
  BY DEF IsSeq
<1>2. Len(s) \in Nat
  BY <1>1
<1>3. /\ Append(s, x) \in Seq(S) /\ Len(Append(s, x)) = Len(s) + 1
      /\ \A i \in 1 .. Len(s) : Append(s, x)[i] = s[i]
      /\ Append(s, x)[Len(s) + 1] = x
  BY <1>1, <1>2
<1>4. DOMAIN Append(s, x) = 1 .. Len(s) + 1 /\ DOMAIN s = 1 .. Len(s)
  BY <1>1, <1>3
<1>5. \A i : i \in 1 .. Len(s) + 1 <=> i \in 1 .. Len(s) \/ i = Len(s) + 1
  BY <1>2
<1> HIDE DEF S
<1>6. ToSet(Append(s, x)) = ToSet(s) \cup {x}
  BY <1>3, <1>4, <1>5 DEF ToSet
<1> QED BY <1>3, <1>6, AnySeq

-----------------------------------------------------------------------------
(* SelectInSeq: the first element that passes a test, by the set of those  *)
(* that do.                                                                *)
LEMMA FirstOf ==
  ASSUME NEW I, I \subseteq Nat, I # {}
  PROVE  Min(I) \in I /\ \A i \in I : Min(I) <= i
<1>1. \E x \in I : \A y \in I : x <= y
  BY LeastNumber
<1> QED BY <1>1 DEF Min

-----------------------------------------------------------------------------
(* FlattenSeq. *)

Flat(g, ss, i) == IF i = 1 THEN ss[i] ELSE g[i - 1] \o ss[i]

LEMMA FlattenExists ==
  ASSUME NEW ss, NEW n \in Nat
  PROVE  \E g : g = [i \in 1 .. n |-> Flat(g, ss, i)]
<1> DEFINE S == {m \in Nat : \E g : g = [i \in 1 .. m |-> Flat(g, ss, i)]}
<1>1. 0 \in S
  <2> DEFINE g == [i \in 1 .. 0 |-> 0]
  <2>1. g = [i \in 1 .. 0 |-> Flat(g, ss, i)]
    OBVIOUS
  <2> QED BY <2>1
<1>2. ASSUME NEW m \in Nat, m \in S PROVE m + 1 \in S
  <2>1. PICK g : g = [i \in 1 .. m |-> Flat(g, ss, i)]
    BY <1>2
  <2> DEFINE h == [i \in 1 .. m + 1 |-> IF i <= m THEN g[i] ELSE Flat(g, ss, i)]
  <2>2. ASSUME NEW i \in 1 .. m + 1 PROVE h[i] = Flat(h, ss, i)
    <3>1. i > 1 => i - 1 \in 1 .. m
      OBVIOUS
    <3>2. i > 1 => h[i - 1] = g[i - 1]
      BY <3>1
    <3>3. Flat(h, ss, i) = Flat(g, ss, i)
      BY <3>2 DEF Flat
    <3>4. CASE i <= m
      BY <2>1, <3>3, <3>4
    <3> QED BY <3>3, <3>4
  <2>3. h = [i \in 1 .. m + 1 |-> Flat(h, ss, i)]
    BY <2>2
  <2> HIDE DEF h
  <2> QED BY <2>3
<1> HIDE DEF S
<1>3. n \in S
  BY <1>1, <1>2, Numbers
<1> QED BY <1>3 DEF S

LEMMA Flattened ==
  ASSUME NEW ss, Len(ss) \in Nat \ {0}
  PROVE  \E g : FlattenSeq(ss) = g[Len(ss)] /\ \A i \in 1 .. Len(ss) : g[i] = Flat(g, ss, i)
<1> DEFINE P(g) == g = [i \in 1 .. Len(ss) |-> IF i = 1 THEN ss[i] ELSE g[i - 1] \o ss[i]]
<1> DEFINE g == CHOOSE g : P(g)
<1>1. \E x : P(x)
  BY FlattenExists DEF Flat
<1>2. P(g)
  BY <1>1, Zenon
<1>3. FlattenSeq(ss) = g[Len(ss)]
  BY DEF FlattenSeq
<1> HIDE DEF g
<1> QED BY <1>2, <1>3 DEF Flat

(* Each element of FlattenSeq(ss) is at a place of one of the sequences,   *)
(* each place has one, and they are in order.                              *)
Places(flat, ss, n, row, col) ==
  /\ \A k \in 1 .. Len(flat) : /\ row[k] \in 1 .. n /\ col[k] \in 1 .. Len(ss[row[k]])
                               /\ flat[k] = ss[row[k]][col[k]]
  /\ \A i \in 1 .. n : \A j \in 1 .. Len(ss[i]) :
       \E k \in 1 .. Len(flat) : row[k] = i /\ col[k] = j
  /\ \A k, l \in 1 .. Len(flat) :
       k < l => row[k] < row[l] \/ (row[k] = row[l] /\ col[k] < col[l])

LEMMA FlattenPlaces ==
  ASSUME NEW ss, IsSeq(ss), \A i \in 1 .. Len(ss) : IsSeq(ss[i])
  PROVE  /\ IsSeq(FlattenSeq(ss))
         /\ \E row, col : Places(FlattenSeq(ss), ss, Len(ss), row, col)
<1>1. Len(ss) \in Nat
  BY SeqFacts
<1>2. CASE Len(ss) = 0
  <2>1. FlattenSeq(ss) = <<>>
    BY <1>2, SeqFacts DEF FlattenSeq
  <2>2. Places(<<>>, ss, 0, <<>>, <<>>)
    BY DEF Places
  <2> QED BY <1>2, <2>1, <2>2, NoElements
<1>3. CASE Len(ss) # 0
  <2>1. PICK g : /\ FlattenSeq(ss) = g[Len(ss)]
                 /\ \A i \in 1 .. Len(ss) : g[i] = Flat(g, ss, i)
    BY <1>1, <1>3, Flattened
  <2> DEFINE S == {n \in Nat : n \in 1 .. Len(ss) =>
                     IsSeq(g[n]) /\ \E row, col : Places(g[n], ss, n, row, col)}
  <2>2. 0 \in S
    OBVIOUS
  <2>3. 1 \in S
    <3> DEFINE row == [k \in 1 .. Len(ss[1]) |-> 1]
               col == [k \in 1 .. Len(ss[1]) |-> k]
    <3>1. g[1] = ss[1] /\ IsSeq(ss[1])
      BY <1>1, <1>3, <2>1 DEF Flat
    <3>2. Places(ss[1], ss, 1, row, col)
      BY <3>1, SeqFacts DEF Places
    <3> HIDE DEF row, col
    <3> QED BY <3>1, <3>2
  <2>4. ASSUME NEW n \in Nat, n \in S, n # 0 PROVE n + 1 \in S
    <3> PICK m \in Nat : m = n + 1
      OBVIOUS
    <3> SUFFICES ASSUME m \in 1 .. Len(ss)
                 PROVE  IsSeq(g[m]) /\ \E row, col : Places(g[m], ss, m, row, col)
      OBVIOUS
    <3>1. n \in 1 .. Len(ss) /\ m # 1 /\ m - 1 = n
      BY <1>1, <2>4
    <3>2. IsSeq(g[n]) /\ IsSeq(ss[m]) /\ g[m] = g[n] \o ss[m]
      BY <2>1, <2>4, <3>1 DEF Flat
    <3>3. PICK row, col : Places(g[n], ss, n, row, col)
      BY <2>4, <3>1
    <3> DEFINE a == Len(g[n])
               b == Len(ss[m])
               row2 == [k \in 1 .. a + b |-> IF k <= a THEN row[k] ELSE m]
               col2 == [k \in 1 .. a + b |-> IF k <= a THEN col[k] ELSE k - a]
    <3>4. a \in Nat /\ b \in Nat
      BY <3>2, SeqFacts
    <3>5. /\ IsSeq(g[m]) /\ Len(g[m]) = a + b
          /\ \A k \in 1 .. a : g[m][k] = g[n][k]
          /\ \A k \in 1 .. b : g[m][a + k] = ss[m][k]
      <4> HIDE DEF row2, col2
      <4>1. PICK u, v : u = g[n] /\ v = ss[m]
        OBVIOUS
      <4>2. IsSeq(u) /\ IsSeq(v)
        BY <3>2, <4>1
      <4>3. /\ IsSeq(u \o v) /\ Len(u \o v) = Len(u) + Len(v)
            /\ \A k \in 1 .. Len(u) : (u \o v)[k] = u[k]
            /\ \A k \in 1 .. Len(v) : (u \o v)[Len(u) + k] = v[k]
        BY <4>2, Concat
      <4>4. g[m] = u \o v
        BY <3>2, <4>1
      <4> QED BY <4>1, <4>3, <4>4, Zenon
    <3> HIDE DEF a, b
    <3>6. Len(g[n]) = a /\ Len(ss[m]) = b
      BY DEF a, b
    <3>7. ASSUME NEW k \in 1 .. a + b
          PROVE  /\ row2[k] \in 1 .. m /\ col2[k] \in 1 .. Len(ss[row2[k]])
                 /\ g[m][k] = ss[row2[k]][col2[k]]
      <4>1. CASE k <= a
        <5>1. k \in 1 .. a /\ row2[k] = row[k] /\ col2[k] = col[k]
          BY <3>4, <4>1
        <5>2. row[k] \in 1 .. n /\ col[k] \in 1 .. Len(ss[row[k]]) /\ g[n][k] = ss[row[k]][col[k]]
          BY <3>3, <3>6, <5>1 DEF Places
        <5> HIDE DEF row2, col2
        <5> QED BY <3>5, <5>1, <5>2
      <4>2. CASE k > a
        <5>1. row2[k] = m /\ col2[k] = k - a /\ k - a \in 1 .. b
          BY <3>4, <4>2
        <5>2. g[m][a + (k - a)] = ss[m][k - a] /\ a + (k - a) = k
          BY <3>4, <3>5, <5>1
        <5> HIDE DEF row2, col2
        <5> QED BY <3>6, <5>1, <5>2
      <4> QED BY <3>4, <4>1, <4>2
    <3>8. ASSUME NEW i \in 1 .. m, NEW j \in 1 .. Len(ss[i])
          PROVE  \E k \in 1 .. a + b : row2[k] = i /\ col2[k] = j
      <4>1. CASE i <= n
        <5>1. i \in 1 .. n
          BY <4>1
        <5>2. PICK k \in 1 .. a : row[k] = i /\ col[k] = j
          BY <3>3, <3>6, <5>1 DEF Places
        <5>3. k \in 1 .. a + b /\ row2[k] = row[k] /\ col2[k] = col[k]
          BY <3>4
        <5> HIDE DEF row2, col2
        <5> QED BY <5>2, <5>3
      <4>2. CASE i = m
        <5>1. j \in 1 .. b
          BY <3>6, <4>2
        <5>2. a + j \in 1 .. a + b /\ row2[a + j] = m /\ col2[a + j] = j
          BY <3>4, <5>1
        <5> HIDE DEF row2, col2
        <5> QED BY <4>2, <5>2
      <4> QED BY <4>1, <4>2
    <3>9. ASSUME NEW k \in 1 .. a + b, NEW l \in 1 .. a + b, k < l
          PROVE  row2[k] < row2[l] \/ (row2[k] = row2[l] /\ col2[k] < col2[l])
      <4>1. CASE l <= a
        <5>1. k \in 1 .. a /\ l \in 1 .. a
          BY <3>4, <3>9, <4>1
        <5>2. row[k] < row[l] \/ (row[k] = row[l] /\ col[k] < col[l])
          BY <3>3, <3>6, <3>9, <5>1 DEF Places
        <5> QED BY <5>1, <5>2
      <4>2. CASE k <= a /\ l > a
        <5>1. k \in 1 .. a
          BY <3>4, <4>2
        <5>2. row[k] \in 1 .. n
          BY <3>3, <3>6, <5>1 DEF Places
        <5> QED BY <3>4, <4>2, <5>2
      <4>3. CASE k > a /\ l > a
        BY <3>4, <3>9, <4>3
      <4> QED BY <3>4, <3>9, <4>1, <4>2, <4>3
    <3> HIDE DEF row2, col2
    <3>10. Places(g[m], ss, m, row2, col2)
      BY <3>5, <3>7, <3>8, <3>9 DEF Places
    <3> QED BY <3>5, <3>10
  <2> HIDE DEF S
  <2>5. \A n \in Nat : n \in S => n + 1 \in S
    BY <2>3, <2>4
  <2>6. Len(ss) \in S
    BY <1>1, <2>2, <2>5, Numbers
  <2> QED BY <1>1, <1>3, <2>1, <2>6 DEF S
<1> QED BY <1>2, <1>3

LEMMA FlattenElements ==
  ASSUME NEW ss, IsSeq(ss), \A i \in 1 .. Len(ss) : IsSeq(ss[i])
  PROVE  /\ IsSeq(FlattenSeq(ss))
         /\ \A x : x \in ToSet(FlattenSeq(ss)) <=> \E i \in 1 .. Len(ss) : x \in ToSet(ss[i])
<1> DEFINE f == FlattenSeq(ss)
<1>1. IsSeq(f)
  BY FlattenPlaces
<1>2. PICK row, col : Places(f, ss, Len(ss), row, col)
  BY FlattenPlaces
<1> HIDE DEF f
<1>3. ASSUME NEW x, x \in ToSet(f) PROVE \E i \in 1 .. Len(ss) : x \in ToSet(ss[i])
  <2>1. PICK k \in 1 .. Len(f) : f[k] = x
    BY <1>1, <1>3, SeqFacts
  <2>2. row[k] \in 1 .. Len(ss) /\ col[k] \in 1 .. Len(ss[row[k]]) /\ x = ss[row[k]][col[k]]
    BY <1>2, <2>1 DEF Places
  <2> QED BY <2>2, SeqFacts
<1>4. ASSUME NEW x, NEW i \in 1 .. Len(ss), x \in ToSet(ss[i]) PROVE x \in ToSet(f)
  <2>1. PICK j \in 1 .. Len(ss[i]) : ss[i][j] = x
    BY <1>4, SeqFacts
  <2>2. PICK k \in 1 .. Len(f) : row[k] = i /\ col[k] = j
    BY <1>2 DEF Places
  <2>3. f[k] = x
    BY <1>2, <2>1, <2>2 DEF Places
  <2> QED BY <1>1, <2>3, SeqFacts
<1> QED BY <1>1, <1>3, <1>4 DEF f

-----------------------------------------------------------------------------
(* Picked.  T is the set of the indices whose elements are taken.          *)

Select(f, s, T, i) ==
  IF i = 0 THEN <<>> ELSE IF i \in T THEN Append(f[i - 1], s[i]) ELSE f[i - 1]

LEMMA SelectExists ==
  ASSUME NEW s, NEW T, NEW n \in Nat
  PROVE  \E f : f = [i \in 0 .. n |-> Select(f, s, T, i)]
<1> DEFINE S == {m \in Nat : \E f : f = [i \in 0 .. m |-> Select(f, s, T, i)]}
<1>1. 0 \in S
  <2> DEFINE f == [i \in 0 .. 0 |-> <<>>]
  <2>1. f = [i \in 0 .. 0 |-> Select(f, s, T, i)]
    BY DEF Select
  <2> HIDE DEF f
  <2> QED BY <2>1
<1>2. ASSUME NEW m \in Nat, m \in S PROVE m + 1 \in S
  <2>1. PICK f : f = [i \in 0 .. m |-> Select(f, s, T, i)]
    BY <1>2
  <2> DEFINE h == [i \in 0 .. m + 1 |-> IF i <= m THEN f[i] ELSE Select(f, s, T, i)]
  <2>2. ASSUME NEW i \in 0 .. m + 1 PROVE h[i] = Select(h, s, T, i)
    <3>1. i > 0 => i - 1 \in 0 .. m
      OBVIOUS
    <3>2. i > 0 => h[i - 1] = f[i - 1]
      BY <3>1
    <3>3. Select(h, s, T, i) = Select(f, s, T, i)
      BY <3>2 DEF Select
    <3>4. CASE i <= m
      BY <2>1, <3>3, <3>4
    <3> QED BY <3>3, <3>4
  <2>3. h = [i \in 0 .. m + 1 |-> Select(h, s, T, i)]
    BY <2>2
  <2> HIDE DEF h
  <2> QED BY <2>3
<1> HIDE DEF S
<1>3. n \in S
  BY <1>1, <1>2, Numbers
<1> QED BY <1>3 DEF S

(* The elements of out are those of s at the indices of T, in order.       *)
Picks(out, s, n, T, pos) ==
  /\ \A k \in 1 .. Len(out) : pos[k] \in T /\ pos[k] \in 1 .. n /\ out[k] = s[pos[k]]
  /\ \A i \in 1 .. n : i \in T => \E k \in 1 .. Len(out) : pos[k] = i
  /\ \A k, l \in 1 .. Len(out) : k < l => pos[k] < pos[l]

Selection(out, s, T) == IsSeq(out) /\ \E pos : Picks(out, s, Len(s), T, pos)

LEMMA SelectPlaces ==
  ASSUME NEW s, NEW T, Len(s) \in Nat,
         NEW f, f = [i \in 0 .. Len(s) |-> Select(f, s, T, i)]
  PROVE  Selection(f[Len(s)], s, T)
<1> DEFINE S == {n \in Nat : n \in 0 .. Len(s) =>
                   IsSeq(f[n]) /\ \E pos : Picks(f[n], s, n, T, pos)}
<1>1. 0 \in S
  <2>1. f[0] = <<>>
    BY DEF Select
  <2>2. Picks(<<>>, s, 0, T, <<>>)
    BY DEF Picks
  <2> QED BY <2>1, <2>2, NoElements
<1>2. ASSUME NEW n \in Nat, n \in S PROVE n + 1 \in S
  <2> PICK m \in Nat : m = n + 1
    OBVIOUS
  <2> SUFFICES ASSUME m \in 0 .. Len(s)
               PROVE  IsSeq(f[m]) /\ \E pos : Picks(f[m], s, m, T, pos)
    OBVIOUS
  <2>1. n \in 0 .. Len(s) /\ m # 0 /\ m - 1 = n
    OBVIOUS
  <2>2. IsSeq(f[n])
    BY <1>2, <2>1
  <2>3. PICK pos : Picks(f[n], s, n, T, pos)
    BY <1>2, <2>1
  <2>4. f[m] = IF m \in T THEN Append(f[n], s[m]) ELSE f[n]
    BY <2>1 DEF Select
  <2> PICK u : u = f[n]
    OBVIOUS
  <2> HIDE DEF S
  <2>5. IsSeq(u) /\ Len(u) \in Nat /\ Picks(u, s, n, T, pos)
    BY <2>2, <2>3, SeqFacts
  <2>6. CASE m \notin T
    <3>1. f[m] = u
      BY <2>4, <2>6
    <3>2. \A i : i \in 1 .. m <=> i \in 1 .. n \/ i = m
      OBVIOUS
    <3>3. Picks(u, s, m, T, pos)
      BY <2>5, <2>6, <3>2 DEF Picks
    <3> QED BY <2>5, <3>1, <3>3
  <2>7. CASE m \in T
    <3> PICK v : v = Append(u, s[m])
      OBVIOUS
    <3>1. f[m] = v
      BY <2>4, <2>7
    <3>2. /\ IsSeq(v) /\ Len(v) = Len(u) + 1 /\ v[Len(u) + 1] = s[m]
          /\ \A k \in 1 .. Len(u) : v[k] = u[k]
      BY <2>5, Appended
    <3> DEFINE a == Len(u)
               pos2 == [k \in 1 .. a + 1 |-> IF k <= a THEN pos[k] ELSE m]
    <3>3. \A k \in 1 .. a : k \in 1 .. a + 1 /\ pos2[k] = pos[k]
      BY <2>5
    <3>4. a + 1 \in 1 .. a + 1 /\ pos2[a + 1] = m
      BY <2>5
    <3>5. \A k \in 1 .. a + 1 : k \in 1 .. a \/ k = a + 1
      BY <2>5
    <3> HIDE DEF pos2
    <3>6. Picks(v, s, m, T, pos2)
      <4>1. ASSUME NEW k \in 1 .. a + 1
            PROVE  pos2[k] \in T /\ pos2[k] \in 1 .. m /\ v[k] = s[pos2[k]]
        <5>1. CASE k \in 1 .. a
          <6>1. pos[k] \in T /\ pos[k] \in 1 .. n /\ u[k] = s[pos[k]]
            BY <2>5, <5>1 DEF Picks
          <6>2. pos2[k] = pos[k] /\ v[k] = u[k] /\ pos[k] \in 1 .. m
            <7>1. \A x \in 1 .. n : x \in 1 .. m
              OBVIOUS
            <7> QED BY <3>2, <3>3, <5>1, <6>1, <7>1, Zenon DEF a
          <6> HIDE DEF a
          <6> QED BY <6>1, <6>2
        <5>2. CASE k = a + 1
          BY <2>7, <3>2, <3>4, <5>2
        <5> QED BY <3>5, <5>1, <5>2
      <4>2. ASSUME NEW i \in 1 .. m, i \in T PROVE \E k \in 1 .. a + 1 : pos2[k] = i
        <5>1. i \in 1 .. n \/ i = m
          OBVIOUS
        <5> QED BY <2>5, <3>3, <3>4, <4>2, <5>1 DEF Picks
      <4>3. ASSUME NEW k \in 1 .. a + 1, NEW l \in 1 .. a + 1, k < l PROVE pos2[k] < pos2[l]
        <5>1. k \in 1 .. a
          BY <2>5, <4>3
        <5>2. CASE l \in 1 .. a
          BY <2>5, <3>3, <4>3, <5>1, <5>2 DEF Picks
        <5>3. CASE l = a + 1
          <6>1. pos[k] \in 1 .. n
            BY <2>5, <5>1 DEF Picks
          <6> QED BY <3>3, <3>4, <5>1, <5>3, <6>1
        <5> QED BY <3>5, <5>2, <5>3
      <4> QED BY <3>2, <4>1, <4>2, <4>3 DEF Picks
    <3> QED BY <3>1, <3>2, <3>6
  <2> QED BY <2>6, <2>7
<1> HIDE DEF S
<1>3. Len(s) \in S
  BY <1>1, <1>2, Numbers
<1> QED BY <1>3 DEF S, Selection

(* The set of the elements that are selected.                              *)
LEMMA SelectionSet ==
  ASSUME NEW s, NEW out, NEW T, IsSeq(s), Selection(out, s, T)
  PROVE  /\ IsSeq(out)
         /\ \A x : x \in ToSet(out) <=> \E i \in 1 .. Len(s) : i \in T /\ s[i] = x
<1>1. PICK pos : Picks(out, s, Len(s), T, pos)
  BY DEF Selection
<1>2. IsSeq(out)
  BY DEF Selection
<1>3. ASSUME NEW x, x \in ToSet(out) PROVE \E i \in 1 .. Len(s) : i \in T /\ s[i] = x
  <2>1. PICK k \in 1 .. Len(out) : out[k] = x
    BY <1>2, <1>3, SeqFacts
  <2> QED BY <1>1, <2>1 DEF Picks
<1>4. ASSUME NEW i \in 1 .. Len(s), i \in T PROVE s[i] \in ToSet(out)
  <2>1. PICK k \in 1 .. Len(out) : pos[k] = i
    BY <1>1, <1>4 DEF Picks
  <2>2. out[k] = s[i]
    BY <1>1, <2>1 DEF Picks
  <2> QED BY <1>2, <2>2, SeqFacts
<1> QED BY <1>2, <1>3, <1>4

LEMMA PickedSelection ==
  ASSUME NEW s, NEW T, IsSeq(s)
  PROVE  Selection(Picked(s, T), s, T)
<1> DEFINE P(f) == f = [i \in 0 .. Len(s) |-> IF i = 0 THEN <<>>
                          ELSE IF i \in T THEN Append(f[i - 1], s[i]) ELSE f[i - 1]]
<1>1. Len(s) \in Nat
  BY SeqFacts
<1>2. \E f : P(f)
  <2>1. PICK f : f = [i \in 0 .. Len(s) |-> Select(f, s, T, i)]
    BY <1>1, SelectExists
  <2>2. P(f)
    BY <2>1, Zenon DEF Select
  <2> HIDE DEF P
  <2> QED BY <2>2, Zenon
<1>3. P(CHOOSE f : P(f))
  BY <1>2, Zenon
<1>4. PICK f : P(f) /\ f = CHOOSE x : P(x)
  BY <1>3
<1>5. Picked(s, T) = f[Len(s)]
  BY <1>4 DEF Picked
<1>6. Selection(f[Len(s)], s, T)
  <2>1. f = [i \in 0 .. Len(s) |-> Select(f, s, T, i)]
    BY <1>4, Zenon DEF Select
  <2> QED BY <1>1, <2>1, SelectPlaces
<1> QED BY <1>5, <1>6

LEMMA PickedElements ==
  ASSUME NEW s, NEW T, IsSeq(s)
  PROVE  /\ IsSeq(Picked(s, T))
         /\ \A x : x \in ToSet(Picked(s, T)) <=> \E i \in 1 .. Len(s) : i \in T /\ s[i] = x
<1> PICK out : out = Picked(s, T)
  OBVIOUS
<1>1. Selection(out, s, T)
  BY PickedSelection
<1>2. IsSeq(out) /\ \A x : x \in ToSet(out) <=> \E i \in 1 .. Len(s) : i \in T /\ s[i] = x
  BY <1>1, SelectionSet
<1> QED BY <1>2, Zenon

LEMMA PickedType ==
  ASSUME NEW S, NEW s \in Seq(S), NEW T
  PROVE  Picked(s, T) \in Seq(S)
<1> PICK out : out = Picked(s, T)
  OBVIOUS
<1>1. IsSeq(s) /\ \A i \in 1 .. Len(s) : s[i] \in S
  BY AnySeq
<1>2. IsSeq(out) /\ \A x \in ToSet(out) : x \in S
  BY <1>1, PickedElements
<1>3. out \in Seq(S)
  BY <1>2 DEF IsSeq
<1> QED BY <1>3

(* Distinct keeps every value, once.                                       *)
LEMMA DistinctOnce ==
  ASSUME NEW s, IsSeq(s)
  PROVE  /\ IsSeq(Distinct(s)) /\ ToSet(Distinct(s)) = ToSet(s)
         /\ \A k, l \in 1 .. Len(Distinct(s)) : Distinct(s)[k] = Distinct(s)[l] => k = l
<1> DEFINE T == {i \in 1 .. Len(s) : \A j \in 1 .. i - 1 : s[j] # s[i]}
<1> PICK out : out = Distinct(s)
  OBVIOUS
<1>1. Selection(out, s, T)
  BY PickedSelection DEF Distinct
<1>2. PICK pos : Picks(out, s, Len(s), T, pos)
  BY <1>1 DEF Selection
<1>3. IsSeq(out) /\ Len(out) \in Nat /\ Len(s) \in Nat
  BY <1>1, SeqFacts DEF Selection
<1>4. ASSUME NEW k \in 1 .. Len(out), NEW l \in 1 .. Len(out), k < l PROVE out[k] # out[l]
  <2>1. pos[k] < pos[l] /\ pos[k] \in 1 .. Len(s) /\ pos[l] \in T
    BY <1>2, <1>4 DEF Picks
  <2>2. s[pos[k]] # s[pos[l]]
    BY <2>1
  <2> QED BY <1>2, <2>2 DEF Picks
<1>5. ASSUME NEW k \in 1 .. Len(out), NEW l \in 1 .. Len(out), out[k] = out[l] PROVE k = l
  <2>1. k < l \/ l < k \/ k = l
    BY <1>3
  <2> QED BY <1>4, <1>5, <2>1
<1>6. ASSUME NEW x, x \in ToSet(s) PROVE x \in ToSet(out)
  <2> DEFINE I == {i \in 1 .. Len(s) : s[i] = x}
  <2>1. I # {} /\ I \subseteq Nat
    BY <1>6, SeqFacts
  <2>2. PICK i \in I : \A j \in I : i <= j
    BY <2>1, LeastNumber
  <2>3. i \in T
    <3>1. ASSUME NEW j \in 1 .. i - 1 PROVE s[j] # s[i]
      <4>1. j \in 1 .. Len(s) /\ ~(i <= j)
        BY <1>3
      <4> QED BY <2>2, <4>1
    <3> QED BY <3>1
  <2> QED BY <1>1, <2>2, <2>3, SelectionSet
<1>7. ASSUME NEW x, x \in ToSet(out) PROVE x \in ToSet(s)
  <2>1. \E i \in 1 .. Len(s) : i \in T /\ s[i] = x
    BY <1>1, <1>7, SelectionSet
  <2> QED BY <2>1, SeqFacts
<1> HIDE DEF T
<1>8. ToSet(out) = ToSet(s)
  BY <1>6, <1>7
<1> QED BY <1>3, <1>5, <1>8

(* A sequence without repetition is as long as the set of its elements.    *)
LEMMA LengthOfDistinct ==
  ASSUME NEW s, IsSeq(s), \A k, l \in 1 .. Len(s) : s[k] = s[l] => k = l
  PROVE  IsFiniteSet(ToSet(s)) /\ Cardinality(ToSet(s)) = Len(s)
<1>1. Len(s) \in Nat /\ s \in [1 .. Len(s) -> ToSet(s)]
  BY SeqFacts DEF IsSeq
<1>2. s \in Bijection(1 .. Len(s), ToSet(s))
  BY <1>1, SeqFacts DEF Bijection, Injection, Surjection, IsInjective
<1>3. ExistsBijection(1 .. Len(s), ToSet(s))
  BY <1>2 DEF ExistsBijection
<1> QED BY <1>1, <1>3, FS_CountingElements, FS_NatBijection

-----------------------------------------------------------------------------
(* One place of a sequence changes.                                        *)
Put(s, i, x) == [s EXCEPT ![i] = x]

LEMMA OnePlace ==
  ASSUME NEW s, IsSeq(s), NEW i, NEW x
  PROVE  /\ IsSeq(Put(s, i, x)) /\ Len(Put(s, i, x)) = Len(s)
         /\ \A k \in 1 .. Len(s) : Put(s, i, x)[k] = IF k = i THEN x ELSE s[k]
<1> PICK t : t = Put(s, i, x)
  OBVIOUS
<1>1. Len(s) \in Nat /\ DOMAIN s = 1 .. Len(s)
  BY SeqFacts
<1>2. t = [k \in 1 .. Len(s) |-> t[k]] /\ \A k \in 1 .. Len(s) : t[k] = IF k = i THEN x ELSE s[k]
  BY <1>1 DEF Put
<1> QED BY <1>1, <1>2, SeqFunction

(* The first element of a sequence, and the others.                        *)
LEMMA HeadTail ==
  ASSUME NEW ls, IsSeq(ls), ls # <<>>
  PROVE  /\ 1 \in 1 .. Len(ls) /\ Head(ls) = ls[1]
         /\ IsSeq(Tail(ls)) /\ Len(Tail(ls)) = Len(ls) - 1 /\ Len(ls) - 1 \in Nat
         /\ \A i \in 1 .. Len(ls) - 1 : Tail(ls)[i] = ls[i + 1] /\ i + 1 \in 1 .. Len(ls)
<1>1. ls \in Seq(ToSet(ls)) /\ Len(ls) \in Nat /\ Len(ls) # 0
  BY SeqFacts DEF IsSeq
<1>2. Tail(ls) \in Seq(ToSet(ls)) /\ Len(Tail(ls)) = Len(ls) - 1 /\ Head(ls) = ls[1]
  BY <1>1
<1>3. \A i \in 1 .. Len(ls) - 1 : Tail(ls)[i] = ls[i + 1]
  BY <1>1, <1>2
<1>4. IsSeq(Tail(ls))
  BY <1>2, AnySeq
<1>5. 1 \in 1 .. Len(ls) /\ Len(ls) - 1 \in Nat /\ \A i \in 1 .. Len(ls) - 1 : i + 1 \in 1 .. Len(ls)
  BY <1>1
<1> QED BY <1>2, <1>3, <1>4, <1>5

(* Parts of a sequence, joined.                                            *)
JoinThree(a, b, c) == a \o b \o c
JoinFour(a, b, c, d) == a \o b \o c \o d
JoinFive(a, b, c, d, e) == a \o b \o c \o d \o e

LEMMA JoinedThree ==
  ASSUME NEW a, NEW b, NEW c, IsSeq(a), IsSeq(b), IsSeq(c) PROVE JoinThree(a, b, c) = a \o (b \o c)
<1>1. PICK S : S = ToSet(a) \cup ToSet(b) \cup ToSet(c)
  OBVIOUS
<1>2. a \in Seq(S) /\ b \in Seq(S) /\ c \in Seq(S)
  BY <1>1 DEF IsSeq
<1>3. (a \o b) \o c = a \o (b \o c)
  BY <1>2
<1> QED BY <1>3 DEF JoinThree

LEMMA JoinedFour ==
  ASSUME NEW a, NEW b, NEW c, NEW d, IsSeq(a), IsSeq(b), IsSeq(c), IsSeq(d)
  PROVE  JoinFour(a, b, c, d) = a \o JoinThree(b, c, d)
<1>1. PICK r : r = b \o c
  OBVIOUS
<1>2. IsSeq(r)
  BY <1>1, Concat
<1>3. JoinThree(a, b, c) = a \o r
  BY <1>1, JoinedThree
<1>4. JoinThree(a, r, d) = a \o (r \o d)
  BY <1>2, JoinedThree
<1>5. JoinFour(a, b, c, d) = JoinThree(a, b, c) \o d
  BY Zenon DEF JoinFour, JoinThree
<1>6. JoinThree(a, r, d) = (a \o r) \o d
  BY Zenon DEF JoinThree
<1>7. JoinThree(b, c, d) = r \o d
  BY <1>1, Zenon DEF JoinThree
<1> QED BY <1>3, <1>4, <1>5, <1>6, <1>7, Zenon

LEMMA JoinedFive ==
  ASSUME NEW a, NEW b, NEW c, NEW d, NEW e, IsSeq(a), IsSeq(b), IsSeq(c), IsSeq(d), IsSeq(e)
  PROVE  JoinFive(a, b, c, d, e) = a \o JoinFour(b, c, d, e)
<1>1. PICK r : r = JoinThree(b, c, d)
  OBVIOUS
<1>2. IsSeq(r)
  <2>1. IsSeq(b \o c)
    BY Concat
  <2>2. IsSeq(b \o c \o d)
    BY <2>1, Concat
  <2> QED BY <1>1, <2>2, Zenon DEF JoinThree
<1>3. JoinFour(a, b, c, d) = a \o r
  BY <1>1, JoinedFour
<1>4. JoinThree(a, r, e) = a \o (r \o e)
  BY <1>2, JoinedThree
<1>5. JoinFive(a, b, c, d, e) = JoinFour(a, b, c, d) \o e
  BY Zenon DEF JoinFive, JoinFour
<1>6. JoinThree(a, r, e) = (a \o r) \o e
  BY Zenon DEF JoinThree
<1>7. JoinFour(b, c, d, e) = r \o e
  BY <1>1, Zenon DEF JoinThree, JoinFour
<1> QED BY <1>3, <1>4, <1>5, <1>6, <1>7, Zenon

(* What is picked is the last value of a function of the number of elements *)
(* that have been considered.                                              *)
LEMMA PickedFunction ==
  ASSUME NEW s, NEW T, IsSeq(s)
  PROVE  \E f : f = [i \in 0 .. Len(s) |-> Select(f, s, T, i)] /\ Picked(s, T) = f[Len(s)]
<1> DEFINE P(f) == f = [i \in 0 .. Len(s) |-> IF i = 0 THEN <<>>
                          ELSE IF i \in T THEN Append(f[i - 1], s[i]) ELSE f[i - 1]]
<1>1. Len(s) \in Nat
  BY SeqFacts
<1>2. \E f : P(f)
  <2>1. PICK f : f = [i \in 0 .. Len(s) |-> Select(f, s, T, i)]
    BY <1>1, SelectExists
  <2>2. P(f)
    BY <2>1, Zenon DEF Select
  <2> HIDE DEF P
  <2> QED BY <2>2, Zenon
<1>3. P(CHOOSE f : P(f))
  BY <1>2, Zenon
<1>4. PICK f : P(f) /\ f = CHOOSE x : P(x)
  BY <1>3
<1>5. Picked(s, T) = f[Len(s)]
  BY <1>4 DEF Picked
<1>6. f = [i \in 0 .. Len(s) |-> Select(f, s, T, i)]
  BY <1>4, Zenon DEF Select
<1> QED BY <1>5, <1>6

(* A sequence with one element more.                                       *)
LEMMA PickedMore ==
  ASSUME NEW s, NEW t, IsSeq(s), IsSeq(t), Len(t) = Len(s) + 1, \A i \in 1 .. Len(s) : t[i] = s[i],
         NEW T, NEW U, \A i \in 1 .. Len(s) : i \in T <=> i \in U
  PROVE  Picked(t, U) = IF Len(s) + 1 \in U THEN Append(Picked(s, T), t[Len(s) + 1]) ELSE Picked(s, T)
<1>1. PICK n : n = Len(s) /\ n \in Nat
  BY SeqFacts
<1>2. PICK f : f = [i \in 0 .. n |-> Select(f, s, T, i)] /\ Picked(s, T) = f[n]
  BY <1>1, PickedFunction
<1>3. PICK g : g = [i \in 0 .. n + 1 |-> Select(g, t, U, i)] /\ Picked(t, U) = g[n + 1]
  <2>1. PICK m : m = Len(t)
    OBVIOUS
  <2>2. \E g : g = [i \in 0 .. m |-> Select(g, t, U, i)] /\ Picked(t, U) = g[m]
    BY <2>1, PickedFunction
  <2>3. m = n + 1
    BY <1>1, <2>1
  <2> QED BY <2>2, <2>3
<1> DEFINE S == {i \in Nat : i <= n => g[i] = f[i]}
<1>4. 0 \in S
  <2>1. 0 \in 0 .. n /\ 0 \in 0 .. n + 1
    BY <1>1
  <2>2. f[0] = <<>> /\ g[0] = <<>>
    BY <1>2, <1>3, <2>1 DEF Select
  <2> QED BY <2>2
<1>5. ASSUME NEW i \in Nat, i \in S PROVE i + 1 \in S
  <2>1. SUFFICES ASSUME i + 1 <= n PROVE g[i + 1] = f[i + 1]
    OBVIOUS
  <2>2. i + 1 \in 1 .. n /\ i + 1 \in 0 .. n /\ i + 1 \in 0 .. n + 1 /\ (i + 1) - 1 = i /\ i <= n /\ i + 1 # 0
    BY <1>1, <2>1
  <2>3. g[i] = f[i]
    BY <1>5, <2>2
  <2>4. t[i + 1] = s[i + 1] /\ (i + 1 \in T <=> i + 1 \in U)
    BY <1>1, <2>2
  <2>5. f[i + 1] = Select(f, s, T, i + 1) /\ g[i + 1] = Select(g, t, U, i + 1)
    BY <1>2, <1>3, <2>2
  <2>6. PICK k : k = i + 1
    OBVIOUS
  <2>7. k # 0 /\ k - 1 = i
    BY <2>2, <2>6
  <2> QED BY <2>3, <2>4, <2>5, <2>6, <2>7, Zenon DEF Select
<1>6. n \in S
  <2> HIDE DEF S
  <2>1. Nat \subseteq S
    BY <1>4, <1>5, Numbers
  <2> QED BY <1>1, <2>1
<1>7. g[n] = f[n]
  BY <1>1, <1>6
<1>8. n + 1 \in 0 .. n + 1 /\ n + 1 # 0 /\ (n + 1) - 1 = n
  BY <1>1
<1>9. g[n + 1] = IF n + 1 \in U THEN Append(g[n], t[n + 1]) ELSE g[n]
  BY <1>3, <1>8 DEF Select
<1> QED BY <1>1, <1>2, <1>3, <1>7, <1>9

LEMMA PickedNone ==
  ASSUME NEW s, IsSeq(s), NEW T, \A i \in 1 .. Len(s) : i \notin T
  PROVE  Picked(s, T) = <<>>
<1>1. PICK out : out = Picked(s, T)
  OBVIOUS
<1>2. IsSeq(out) /\ \E pos : Picks(out, s, Len(s), T, pos)
  BY <1>1, PickedSelection DEF Selection
<1>3. PICK n : n = Len(out) /\ n \in Nat
  BY <1>2, SeqFacts
<1>4. \A k \in 1 .. n : FALSE
  BY <1>2, <1>3 DEF Picks
<1>5. n = 0
  BY <1>3, <1>4
<1> QED BY <1>1, <1>2, <1>3, <1>5, SeqFacts

=============================================================================
