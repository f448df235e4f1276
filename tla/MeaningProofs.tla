--------------------------- MODULE MeaningProofs ----------------------------
(***************************************************************************)
(* Proofs that what Parse has built from a grammatical file is what its    *)
(* lines mean, for any vocabulary of lines and files of any length.        *)
(*                                                                         *)
(* Meaning looks upwards from each line for the one that it belongs to;    *)
(* Parse has pointers instead.  A line more changes the meaning of the     *)
(* lines above in one place at most: the lemmas follow the new line from   *)
(* the lists of lines (Each) and the owners (Latest), through members,     *)
(* items and domains, to the document.                                     *)
(*                                                                         *)
(* WrittenInv is the invariant: the document is what the lines read mean,  *)
(* and the pointers are at the lines that the next line would look up to,  *)
(* if what they begin is open (WrittenHere).                               *)
(*                                                                         *)
(* ReadBackInv is the invariant of what happens next: the documents are    *)
(* combined, written and read again.  RoundTrip speaks of the end only;    *)
(* that it is reached needs what holds on the way, LeftToRead: ThenAll, of *)
(* what Parse knows and of the lines left, is the combined document but    *)
(* for the order of its lists.  It begins with the lines that Bytes        *)
(* chooses, by ReadDocument, which wants parts that their lines give back; *)
(* FilesMeant says that the documents are meanings, KindsRead that no item *)
(* of their files has parts of another class (which Bytes would not        *)
(* write), and so their parts are, wherever Restorable does not exclude    *)
(* them.  LeftUnknown adds that the parser does not get through what       *)
(* Restorable excludes, but for what Faithful does.                        *)
(***************************************************************************)
EXTENDS PDLProofs

(* ms has one line more than ls.                                           *)
OneMore(ls, ms) ==
  /\ IsSeq(ls) /\ IsSeq(ms) /\ Len(ls) \in Nat /\ Len(ms) = Len(ls) + 1
  /\ \A i \in 1 .. Len(ls) : ms[i] = ls[i]

LEMMA OneMoreLine ==
  ASSUME NEW ls, IsSeq(ls), NEW l
  PROVE  OneMore(ls, Append(ls, l)) /\ Append(ls, l)[Len(ls) + 1] = l
  BY Appended, SeqFacts DEF OneMore

(* The values of a function of some lines, when one line is added.         *)
Numbered(ls) == [i \in 1 .. Len(ls) |-> i]

LinesOf(ls, D) == Picked(Numbered(ls), D)

LEMMA NumberedSeq ==
  ASSUME NEW ls, IsSeq(ls)
  PROVE  IsSeq(Numbered(ls)) /\ Len(Numbered(ls)) = Len(ls) /\ \A i \in 1 .. Len(ls) : Numbered(ls)[i] = i
<1>1. Len(ls) \in Nat
  BY SeqFacts
<1>2. PICK n, s : n = Len(ls) /\ s = Numbered(ls)
  OBVIOUS
<1>3. s = [i \in 1 .. n |-> i]
  BY <1>2 DEF Numbered
<1>4. s = [i \in 1 .. n |-> s[i]]
  BY <1>3
<1> QED BY <1>1, <1>2, <1>3, <1>4, SeqFunction

(* e is the values of f at the lines L, which are those of D in order.      *)
Values(e, L, ls, f, D) ==
  /\ IsSeq(L) /\ IsSeq(e) /\ Len(e) = Len(L) /\ e = [k \in 1 .. Len(L) |-> f[L[k]]]
  /\ \A k \in 1 .. Len(L) : L[k] \in D /\ L[k] \in 1 .. Len(ls)
  /\ \A k, m \in 1 .. Len(L) : k < m => L[k] < L[m]
  /\ \A i \in D : i \in 1 .. Len(ls) => \E k \in 1 .. Len(L) : L[k] = i

LEMMA EachIs ==
  ASSUME NEW ls, IsSeq(ls), NEW f, NEW D, D = DOMAIN f
  PROVE  Values(Each(ls, f), LinesOf(ls, D), ls, f, D)
<1>1. PICK L, s, e : L = LinesOf(ls, D) /\ s = Numbered(ls) /\ e = Each(ls, f)
  OBVIOUS
<1>2. IsSeq(s) /\ Len(s) = Len(ls) /\ \A i \in 1 .. Len(ls) : s[i] = i
  BY <1>1, NumberedSeq
<1>3. IsSeq(L) /\ \E pos : Picks(L, s, Len(s), D, pos)
  BY <1>1, <1>2, PickedSelection DEF Selection, LinesOf
<1>4. PICK pos : Picks(L, s, Len(s), D, pos)
  BY <1>3
<1>5. \A k \in 1 .. Len(L) : L[k] = pos[k] /\ pos[k] \in D /\ pos[k] \in 1 .. Len(ls)
  BY <1>2, <1>4 DEF Picks
<1>6. e = [k \in 1 .. Len(L) |-> f[L[k]]]
  BY <1>1 DEF Each, LinesOf, Numbered
<1>7. Len(L) \in Nat
  BY <1>3, SeqFacts
<1>8. e = [k \in 1 .. Len(L) |-> e[k]]
  BY <1>6
<1>9. IsSeq(e) /\ Len(e) = Len(L)
  BY <1>7, <1>8, SeqFunction
<1>10. \A k, m \in 1 .. Len(L) : k < m => L[k] < L[m]
  BY <1>4, <1>5 DEF Picks
<1>11. \A i \in D : i \in 1 .. Len(ls) => \E k \in 1 .. Len(L) : L[k] = i
  BY <1>2, <1>4, <1>5 DEF Picks
<1> QED BY <1>1, <1>3, <1>5, <1>6, <1>9, <1>10, <1>11 DEF Values

LEMMA LinesOfMore ==
  ASSUME NEW ls, NEW ms, OneMore(ls, ms), NEW D, NEW E,
         \A i \in 1 .. Len(ls) : i \in D <=> i \in E
  PROVE  LinesOf(ms, E) = IF Len(ls) + 1 \in E THEN Append(LinesOf(ls, D), Len(ls) + 1) ELSE LinesOf(ls, D)
<1>1. IsSeq(ls) /\ IsSeq(ms) /\ Len(ms) = Len(ls) + 1 /\ Len(ls) \in Nat
  BY DEF OneMore
<1>2. PICK n, s, t : n = Len(ls) /\ s = Numbered(ls) /\ t = Numbered(ms)
  OBVIOUS
<1>3. IsSeq(s) /\ Len(s) = n /\ IsSeq(t) /\ Len(t) = n + 1 /\ (\A i \in 1 .. n : s[i] = i)
      /\ \A i \in 1 .. n + 1 : t[i] = i
  BY <1>1, <1>2, NumberedSeq
<1>4. (\A i \in 1 .. n : t[i] = s[i]) /\ t[n + 1] = n + 1
  BY <1>1, <1>2, <1>3
<1>5. Picked(t, E) = IF n + 1 \in E THEN Append(Picked(s, D), t[n + 1]) ELSE Picked(s, D)
  BY <1>2, <1>3, <1>4, PickedMore
<1> QED BY <1>2, <1>4, <1>5 DEF LinesOf

LEMMA EachNone ==
  ASSUME NEW ls, IsSeq(ls), NEW f, DOMAIN f = {}
  PROVE  Each(ls, f) = <<>>
<1>1. PICK L : L = LinesOf(ls, {})
  OBVIOUS
<1>2. L = <<>>
  BY <1>1, NumberedSeq, PickedNone DEF LinesOf
<1>3. Len(L) = 0
  BY <1>2
<1>4. IsSeq(Each(ls, f)) /\ Len(Each(ls, f)) = 0
  <2>1. Values(Each(ls, f), L, ls, f, {})
    BY <1>1, EachIs
  <2> QED BY <1>3, <2>1 DEF Values
<1> QED BY <1>4, SeqFacts

(* None of the values has changed. *)
LEMMA EachKept ==
  ASSUME NEW ls, NEW ms, OneMore(ls, ms), NEW f, NEW g,
         DOMAIN g = DOMAIN f, Len(ls) + 1 \notin DOMAIN f, \A i \in DOMAIN f : i \in 1 .. Len(ls) => g[i] = f[i]
  PROVE  Each(ms, g) = Each(ls, f)
<1>1. PICK D : D = DOMAIN f
  OBVIOUS
<1>3. IsSeq(ls) /\ IsSeq(ms)
  BY DEF OneMore
<1>2. LinesOf(ms, D) = LinesOf(ls, D)
  <2>1. Len(ls) + 1 \notin D
    BY <1>1
  <2>2. \A i \in 1 .. Len(ls) : i \in D <=> i \in D
    OBVIOUS
  <2>3. LinesOf(ms, D) = IF Len(ls) + 1 \in D THEN Append(LinesOf(ls, D), Len(ls) + 1) ELSE LinesOf(ls, D)
    BY <2>2, LinesOfMore
  <2> QED BY <2>1, <2>3
<1>4. PICK L : L = LinesOf(ls, D)
  OBVIOUS
<1>5. Each(ls, f) = [k \in 1 .. Len(L) |-> f[L[k]]] /\ \A k \in 1 .. Len(L) : L[k] \in D /\ L[k] \in 1 .. Len(ls)
  <2>1. Values(Each(ls, f), L, ls, f, D)
    BY <1>1, <1>3, <1>4, EachIs
  <2> QED BY <2>1 DEF Values
<1>6. Each(ms, g) = [k \in 1 .. Len(L) |-> g[L[k]]]
  <2>1. D = DOMAIN g
    BY <1>1
  <2>2. Values(Each(ms, g), LinesOf(ms, D), ms, g, D)
    BY <1>3, <2>1, EachIs
  <2>3. Values(Each(ms, g), L, ms, g, D)
    BY <1>2, <1>4, <2>2
  <2> QED BY <2>3 DEF Values
<1> QED BY <1>1, <1>5, <1>6

(* There is a value for the new line. *)
LEMMA EachMore ==
  ASSUME NEW ls, NEW ms, OneMore(ls, ms), NEW f, NEW g,
         DOMAIN f \subseteq 1 .. Len(ls),
         DOMAIN g = DOMAIN f \cup {Len(ls) + 1}, \A i \in DOMAIN f : g[i] = f[i]
  PROVE  Each(ms, g) = Append(Each(ls, f), g[Len(ls) + 1])
<1>1. PICK D, E, n : D = DOMAIN f /\ E = DOMAIN g /\ n = Len(ls)
  OBVIOUS
<1>2. n \in Nat /\ IsSeq(ls) /\ IsSeq(ms) /\ Len(ms) = n + 1
  BY <1>1 DEF OneMore
<1>3. n + 1 \in E /\ \A i \in 1 .. n : i \in D <=> i \in E
  <2>1. E = D \cup {n + 1}
    BY <1>1
  <2>2. \A i \in 1 .. n : i # n + 1
    BY <1>2
  <2> QED BY <2>1, <2>2
<1>4. PICK L, M : L = LinesOf(ls, D) /\ M = LinesOf(ms, E)
  OBVIOUS
<1>5. M = Append(L, n + 1)
  <2>1. M = IF Len(ls) + 1 \in E THEN Append(LinesOf(ls, D), Len(ls) + 1) ELSE LinesOf(ls, D)
    <3>1. \A i \in 1 .. Len(ls) : i \in D <=> i \in E
      BY <1>1, <1>3
    <3> QED BY <1>4, <3>1, LinesOfMore
  <2> QED BY <1>1, <1>3, <1>4, <2>1
<1>6. PICK e, h : e = Each(ls, f) /\ h = Each(ms, g)
  OBVIOUS
<1>7. /\ e = [k \in 1 .. Len(L) |-> f[L[k]]] /\ IsSeq(L) /\ IsSeq(e) /\ Len(e) = Len(L)
      /\ \A k \in 1 .. Len(L) : L[k] \in D
  <2>1. Values(e, L, ls, f, D)
    BY <1>1, <1>2, <1>4, <1>6, EachIs
  <2> QED BY <2>1 DEF Values
<1>8. h = [k \in 1 .. Len(M) |-> g[M[k]]] /\ IsSeq(h) /\ Len(h) = Len(M)
  <2>1. Values(h, M, ms, g, E)
    BY <1>1, <1>2, <1>4, <1>6, EachIs
  <2> QED BY <2>1 DEF Values
<1>9. PICK r, m : r = Append(e, g[n + 1]) /\ m = Len(L)
  OBVIOUS
<1>10. /\ IsSeq(r) /\ Len(r) = m + 1 /\ m \in Nat /\ r[m + 1] = g[n + 1] /\ \A k \in 1 .. m : r[k] = e[k]
  BY <1>7, <1>9, Appended, SeqFacts
<1>11. Len(M) = m + 1 /\ M[m + 1] = n + 1 /\ \A k \in 1 .. m : M[k] = L[k]
  BY <1>5, <1>7, <1>9, Appended
<1>12. ASSUME NEW k \in 1 .. m + 1 PROVE h[k] = r[k]
  <2>1. h[k] = g[M[k]]
    BY <1>8, <1>11
  <2>2. CASE k \in 1 .. m
    BY <1>1, <1>7, <1>9, <1>10, <1>11, <2>1, <2>2
  <2>3. CASE k = m + 1
    BY <1>10, <1>11, <2>1, <2>3
  <2> QED BY <1>10, <2>2, <2>3
<1>13. h = [k \in 1 .. m + 1 |-> h[k]] /\ r = [k \in 1 .. m + 1 |-> r[k]]
  BY <1>8, <1>10, <1>11, SeqFacts
<1>14. h = r
  BY <1>12, <1>13
<1> QED BY <1>1, <1>6, <1>9, <1>14

(* The value for the last of the lines has changed. *)
LEMMA EachLast ==
  ASSUME NEW ls, NEW ms, OneMore(ls, ms), NEW f, NEW g,
         DOMAIN f \subseteq 1 .. Len(ls), DOMAIN g = DOMAIN f,
         NEW m \in DOMAIN f, \A i \in DOMAIN f : i <= m, \A i \in DOMAIN f : i # m => g[i] = f[i]
  PROVE  /\ Len(Each(ls, f)) \in Nat \ {0} /\ Each(ls, f)[Len(Each(ls, f))] = f[m]
         /\ Each(ms, g) = Put(Each(ls, f), Len(Each(ls, f)), g[m])
<1>1. PICK D, n : D = DOMAIN f /\ n = Len(ls)
  OBVIOUS
<1>2. n \in Nat /\ IsSeq(ls) /\ IsSeq(ms) /\ Len(ms) = n + 1
  BY <1>1 DEF OneMore
<1>3. PICK L : L = LinesOf(ls, D)
  OBVIOUS
<1>4. LinesOf(ms, D) = L
  <2>1. n + 1 \notin D
    BY <1>1, <1>2
  <2>2. \A i \in 1 .. Len(ls) : i \in D <=> i \in D
    OBVIOUS
  <2>3. LinesOf(ms, D) = IF Len(ls) + 1 \in D THEN Append(LinesOf(ls, D), Len(ls) + 1) ELSE LinesOf(ls, D)
    BY <2>2, LinesOfMore
  <2> QED BY <1>1, <1>3, <2>1, <2>3
<1>5. PICK e, h : e = Each(ls, f) /\ h = Each(ms, g)
  OBVIOUS
<1>6. /\ e = [k \in 1 .. Len(L) |-> f[L[k]]] /\ IsSeq(L) /\ IsSeq(e) /\ Len(e) = Len(L)
      /\ \A k \in 1 .. Len(L) : L[k] \in D /\ L[k] \in 1 .. n
      /\ \A j, k \in 1 .. Len(L) : j < k => L[j] < L[k]
      /\ \A i \in D : i \in 1 .. n => \E k \in 1 .. Len(L) : L[k] = i
  <2>1. Values(e, L, ls, f, D)
    BY <1>1, <1>2, <1>3, <1>5, EachIs
  <2> QED BY <1>1, <2>1 DEF Values
<1>7. h = [k \in 1 .. Len(L) |-> g[L[k]]]
  <2>1. Values(Each(ms, g), LinesOf(ms, D), ms, g, D)
    BY <1>1, <1>2, EachIs
  <2>2. Values(h, L, ms, g, D)
    BY <1>4, <1>5, <2>1
  <2> QED BY <2>2 DEF Values
<1>8. PICK c : c = Len(L) /\ c \in Nat
  BY <1>6, SeqFacts
<1>9. PICK k \in 1 .. c : L[k] = m
  BY <1>1, <1>6, <1>8
<1>10. m \in 1 .. n
  BY <1>1
<1>11. c \in 1 .. c /\ L[c] = m
  <2>1. c \in 1 .. c
    BY <1>8, <1>9
  <2>2. L[c] <= m /\ L[c] \in 1 .. n
    BY <1>1, <1>6, <1>8, <2>1
  <2>3. CASE k < c
    <3>1. m < L[c]
      BY <1>6, <1>8, <1>9, <2>1, <2>3
    <3> QED BY <1>10, <2>2, <3>1
  <2>4. CASE k = c
    BY <1>9, <2>1, <2>4
  <2> QED BY <1>8, <1>9, <2>3, <2>4
<1>12. ASSUME NEW j \in 1 .. c, j # c PROVE L[j] # m
  <2>1. j < c
    BY <1>8, <1>12
  <2>2. L[j] < m
    BY <1>6, <1>8, <1>11, <2>1
  <2>3. L[j] \in 1 .. n
    BY <1>6, <1>8
  <2> QED BY <1>10, <2>2, <2>3
<1>13. e[c] = f[m] /\ h[c] = g[m]
  BY <1>6, <1>7, <1>8, <1>11
<1>14. PICK r, x : r = Put(e, c, x) /\ x = g[m]
  OBVIOUS
<1>15. IsSeq(r) /\ Len(r) = c /\ \A j \in 1 .. c : r[j] = IF j = c THEN g[m] ELSE e[j]
  <2>1. IsSeq(e)
    BY <1>6
  <2>2. IsSeq(r) /\ Len(r) = Len(e) /\ \A j \in 1 .. Len(e) : r[j] = IF j = c THEN x ELSE e[j]
    BY <1>14, <2>1, OnePlace
  <2> QED BY <1>6, <1>8, <1>14, <2>2, Zenon
<1>16. ASSUME NEW j \in 1 .. c PROVE h[j] = r[j]
  <2>1. CASE j = c
    BY <1>13, <1>15, <2>1
  <2>2. CASE j # c
    <3>1. L[j] \in D /\ L[j] # m
      BY <1>6, <1>8, <1>12, <2>2, Zenon
    <3>2. g[L[j]] = f[L[j]]
      BY <1>1, <3>1
    <3>3. h[j] = g[L[j]] /\ e[j] = f[L[j]]
      BY <1>6, <1>7, <1>8
    <3> QED BY <1>15, <2>2, <3>2, <3>3
  <2> QED BY <2>1, <2>2
<1>17. h = [j \in 1 .. c |-> h[j]] /\ r = [j \in 1 .. c |-> r[j]]
  BY <1>7, <1>8, <1>15, SeqFacts
<1>18. h = r
  BY <1>16, <1>17
<1>19. Len(e) = c /\ c # 0
  BY <1>6, <1>8, <1>11
<1> QED BY <1>5, <1>8, <1>13, <1>14, <1>18, <1>19

-----------------------------------------------------------------------------
(* The nearest line of a kind above a line.                                *)
LastBelow(K, j) == LastLine({i \in K : i < j})

Nearest(d, K, j) == d \in 0 .. j - 1 /\ (d # 0 => d \in K) /\ \A i \in K : i < j => i <= d

LEMMA NearestIs ==
  ASSUME NEW n \in Nat, NEW K, K \subseteq 1 .. n, NEW j \in 1 .. n + 2
  PROVE  Nearest(LastBelow(K, j), K, j)
<1>1. PICK A : A = {i \in K : i < j}
  OBVIOUS
<1>2. A \subseteq 1 .. n /\ LastBelow(K, j) = LastLine(A)
  BY <1>1 DEF LastBelow
<1>3. CASE A = {}
  BY <1>1, <1>2, <1>3 DEF LastLine, Nearest
<1>4. CASE A # {}
  <2>1. PICK d : d = LastOf(A)
    OBVIOUS
  <2>2. d \in A /\ \A k \in A : k <= d
    BY <1>2, <1>4, <2>1, LastOfSome
  <2>3. LastBelow(K, j) = d
    BY <1>2, <1>4, <2>1 DEF LastLine
  <2>4. d \in K /\ d \in 1 .. n /\ d < j
    BY <1>1, <1>2, <2>2
  <2>5. d \in 0 .. j - 1
    BY <2>4
  <2>6. \A i \in K : i < j => i <= d
    BY <1>1, <2>2
  <2>7. Nearest(d, K, j)
    BY <2>4, <2>5, <2>6 DEF Nearest
  <2> QED BY <2>3, <2>7
<1> QED BY <1>3, <1>4

(* There is one nearest line. *)
LEMMA NearestOne ==
  ASSUME NEW n \in Nat, NEW K, K \subseteq 1 .. n, NEW j \in 1 .. n + 2, NEW d, Nearest(d, K, j)
  PROVE  LastBelow(K, j) = d
<1>1. PICK e : e = LastBelow(K, j)
  OBVIOUS
<1>2. Nearest(e, K, j)
  BY <1>1, NearestIs
<1>3. d \in 0 .. j - 1 /\ e \in 0 .. j - 1
  BY <1>2 DEF Nearest
<1>4. e # 0 => e <= d
  BY <1>2, <1>3 DEF Nearest
<1>5. d # 0 => d <= e
  BY <1>2, <1>3 DEF Nearest
<1>6. e = d
  BY <1>3, <1>4, <1>5
<1> QED BY <1>1, <1>6

(* A line more does not change what is above the others. *)
LEMMA BelowKept ==
  ASSUME NEW n \in Nat, NEW K, K \subseteq 1 .. n, NEW M, M \subseteq 1 .. n + 1,
         \A i \in 1 .. n : i \in M <=> i \in K, NEW j \in 1 .. n + 1
  PROVE  LastBelow(M, j) = LastBelow(K, j)
<1>1. {i \in M : i < j} = {i \in K : i < j}
  <2>1. ASSUME NEW i PROVE (i \in M /\ i < j) <=> (i \in K /\ i < j)
    <3>1. i \in M /\ i < j => i \in 1 .. n
      OBVIOUS
    <3> QED BY <3>1
  <2> QED BY <2>1
<1> QED BY <1>1 DEF LastBelow

LEMMA BelowNext ==
  ASSUME NEW n \in Nat, NEW K, K \subseteq 1 .. n, NEW M, M \subseteq 1 .. n + 1,
         \A i \in 1 .. n : i \in M <=> i \in K
  PROVE  LastBelow(M, n + 2) = IF n + 1 \in M THEN n + 1 ELSE LastBelow(K, n + 1)
<1>1. PICK m : m = n + 1 /\ m \in Nat
  OBVIOUS
<1>2. n + 2 \in 1 .. m + 2
  BY <1>1
<1>3. CASE n + 1 \in M
  <2>1. Nearest(n + 1, M, n + 2)
    BY <1>3 DEF Nearest
  <2> QED BY <1>1, <1>2, <1>3, <2>1, NearestOne
<1>4. CASE n + 1 \notin M
  <2>1. PICK d : d = LastBelow(K, n + 1)
    OBVIOUS
  <2>2. Nearest(d, K, n + 1)
    <3>1. n + 1 \in 1 .. n + 2
      OBVIOUS
    <3> QED BY <2>1, <3>1, NearestIs
  <2>3. Nearest(d, M, n + 2)
    <3>1. \A i \in M : i \in 1 .. n
      BY <1>4
    <3>2. d \in 0 .. n + 2 - 1 /\ (d # 0 => d \in 1 .. n)
      BY <2>2 DEF Nearest
    <3> QED BY <2>2, <3>1, <3>2 DEF Nearest
  <2>4. LastBelow(M, n + 2) = d
    BY <1>1, <1>2, <2>3, NearestOne
  <2> QED BY <1>4, <2>1, <2>4
<1> QED BY <1>3, <1>4

(* Below the last line of a kind, it is the nearest. *)
LEMMA BelowBetween ==
  ASSUME NEW n \in Nat, NEW K, K \subseteq 1 .. n, NEW j \in 1 .. n + 1, LastBelow(K, n + 1) < j
  PROVE  LastBelow(K, j) = LastBelow(K, n + 1)
<1>1. PICK d : d = LastBelow(K, n + 1)
  OBVIOUS
<1>2. Nearest(d, K, n + 1) /\ j \in 1 .. n + 2
  <2>1. n + 1 \in 1 .. n + 2
    OBVIOUS
  <2>2. Nearest(d, K, n + 1)
    BY <1>1, <2>1, NearestIs
  <2>3. j \in 1 .. n + 2
    OBVIOUS
  <2> QED BY <2>2, <2>3
<1>3. d \in 0 .. j - 1
  BY <1>1, <1>2 DEF Nearest
<1>4. \A i \in K : i < j => i <= d
  BY <1>2 DEF Nearest
<1>5. Nearest(d, K, j)
  BY <1>2, <1>3, <1>4 DEF Nearest
<1>6. LastBelow(K, j) = d
  BY <1>2, <1>5, NearestOne
<1> QED BY <1>1, <1>6

(* The lines of each kind. *)
DomainsIn(ls) == {i \in 1 .. Len(ls) : IsDomain(ls[i])}
ItemsIn(ls) == {i \in 1 .. Len(ls) : IsItem(ls[i])}
SectionsIn(ls) == {i \in 1 .. Len(ls) : IsSection(ls[i])}
OwnersIn(ls) == {i \in 1 .. Len(ls) : OwnsLiterals(ls[i])}
IsComment(l) == l.class = "comment"
OthersIn(ls) == {i \in 1 .. Len(ls) : ~IsComment(ls[i])}
TopOf(ls, j) == Latest(ls, j, LAMBDA l : l.class # "comment")

LEMMA KindsIn ==
  ASSUME NEW ls, NEW n, n = Len(ls)
  PROVE  /\ DomainsIn(ls) \subseteq 1 .. n /\ ItemsIn(ls) \subseteq 1 .. n
         /\ SectionsIn(ls) \subseteq 1 .. n /\ OwnersIn(ls) \subseteq 1 .. n /\ OthersIn(ls) \subseteq 1 .. n
  BY DEF DomainsIn, ItemsIn, SectionsIn, OwnersIn, OthersIn

LEMMA AboveLine ==
  ASSUME NEW ls, NEW n \in Nat, n = Len(ls), NEW j \in 1 .. n + 1
  PROVE  /\ DomainOf(ls, j) = LastBelow(DomainsIn(ls), j)
         /\ ItemOf(ls, j) = LastBelow(ItemsIn(ls), j)
         /\ SectionOf(ls, j) = LastBelow(SectionsIn(ls), j)
         /\ OwnerOf(ls, j) = LastBelow(OwnersIn(ls), j)
         /\ TopOf(ls, j) = LastBelow(OthersIn(ls), j)
<1> DEFINE Before == 1 .. j - 1
<1>1. \A i : i \in Before <=> i \in 1 .. n /\ i < j
  OBVIOUS
<1> HIDE DEF Before
<1>2. DomainOf(ls, j) = LastBelow(DomainsIn(ls), j)
  <2> DEFINE A == {i \in 1 .. j - 1 : IsDomain(ls[i])}
  <2>1. DomainOf(ls, j) = LastLine(A)
    BY DEF DomainOf, Latest, LastOf, LastLine
  <2>2. A = {i \in DomainsIn(ls) : i < j}
    BY <1>1 DEF Before, DomainsIn
  <2> HIDE DEF A
  <2> QED BY <2>1, <2>2 DEF LastBelow
<1>3. ItemOf(ls, j) = LastBelow(ItemsIn(ls), j)
  <2> DEFINE A == {i \in 1 .. j - 1 : IsItem(ls[i])}
  <2>1. ItemOf(ls, j) = LastLine(A)
    BY DEF ItemOf, Latest, LastOf, LastLine
  <2>2. A = {i \in ItemsIn(ls) : i < j}
    BY <1>1 DEF Before, ItemsIn
  <2> HIDE DEF A
  <2> QED BY <2>1, <2>2 DEF LastBelow
<1>4. SectionOf(ls, j) = LastBelow(SectionsIn(ls), j)
  <2> DEFINE A == {i \in 1 .. j - 1 : IsSection(ls[i])}
  <2>1. SectionOf(ls, j) = LastLine(A)
    BY DEF SectionOf, Latest, LastOf, LastLine
  <2>2. A = {i \in SectionsIn(ls) : i < j}
    BY <1>1 DEF Before, SectionsIn
  <2> HIDE DEF A
  <2> QED BY <2>1, <2>2 DEF LastBelow
<1>5. OwnerOf(ls, j) = LastBelow(OwnersIn(ls), j)
  <2> DEFINE A == {i \in 1 .. j - 1 : OwnsLiterals(ls[i])}
  <2>1. OwnerOf(ls, j) = LastLine(A)
    BY DEF OwnerOf, Latest, LastOf, LastLine
  <2>2. A = {i \in OwnersIn(ls) : i < j}
    BY <1>1 DEF Before, OwnersIn
  <2> HIDE DEF A
  <2> QED BY <2>1, <2>2 DEF LastBelow
<1>6. TopOf(ls, j) = LastBelow(OthersIn(ls), j)
  <2> DEFINE A == {i \in 1 .. j - 1 : ls[i].class # "comment"}
  <2>1. TopOf(ls, j) = LastLine(A)
    BY DEF TopOf, Latest, LastOf, LastLine
  <2>2. A = {i \in OthersIn(ls) : i < j}
    BY <1>1 DEF Before, OthersIn, IsComment
  <2> HIDE DEF A
  <2> QED BY <2>1, <2>2 DEF LastBelow
<1> QED BY <1>2, <1>3, <1>4, <1>5, <1>6

(* A line more, and the lines of each kind. *)
LEMMA KindsMore ==
  ASSUME NEW ls, NEW ms, OneMore(ls, ms), NEW n, n = Len(ls)
  PROVE  /\ \A i \in 1 .. n : i \in DomainsIn(ms) <=> i \in DomainsIn(ls)
         /\ \A i \in 1 .. n : i \in ItemsIn(ms) <=> i \in ItemsIn(ls)
         /\ \A i \in 1 .. n : i \in SectionsIn(ms) <=> i \in SectionsIn(ls)
         /\ \A i \in 1 .. n : i \in OwnersIn(ms) <=> i \in OwnersIn(ls)
         /\ \A i \in 1 .. n : i \in OthersIn(ms) <=> i \in OthersIn(ls)
         /\ n + 1 \in DomainsIn(ms) <=> IsDomain(ms[n + 1])
         /\ n + 1 \in ItemsIn(ms) <=> IsItem(ms[n + 1])
         /\ n + 1 \in SectionsIn(ms) <=> IsSection(ms[n + 1])
         /\ n + 1 \in OwnersIn(ms) <=> OwnsLiterals(ms[n + 1])
         /\ n + 1 \in OthersIn(ms) <=> ~IsComment(ms[n + 1])
<1>1. n \in Nat /\ Len(ms) = n + 1 /\ (\A i \in 1 .. n : i \in 1 .. n + 1 /\ ms[i] = ls[i]) /\ n + 1 \in 1 .. n + 1
  BY DEF OneMore
<1> QED BY <1>1 DEF DomainsIn, ItemsIn, SectionsIn, OwnersIn, OthersIn

LEMMA OwnersKept ==
  ASSUME NEW ls, NEW ms, OneMore(ls, ms), NEW j \in 1 .. Len(ls) + 1
  PROVE  /\ DomainOf(ms, j) = DomainOf(ls, j) /\ ItemOf(ms, j) = ItemOf(ls, j)
         /\ SectionOf(ms, j) = SectionOf(ls, j) /\ OwnerOf(ms, j) = OwnerOf(ls, j)
         /\ TopOf(ms, j) = TopOf(ls, j)
<1>1. PICK n, m : n = Len(ls) /\ m = Len(ms)
  OBVIOUS
<1>2. n \in Nat /\ m \in Nat /\ m = n + 1 /\ j \in 1 .. n + 1 /\ j \in 1 .. m + 1
  BY <1>1 DEF OneMore
<1>3. /\ DomainOf(ls, j) = LastBelow(DomainsIn(ls), j) /\ DomainOf(ms, j) = LastBelow(DomainsIn(ms), j)
      /\ ItemOf(ls, j) = LastBelow(ItemsIn(ls), j) /\ ItemOf(ms, j) = LastBelow(ItemsIn(ms), j)
      /\ SectionOf(ls, j) = LastBelow(SectionsIn(ls), j) /\ SectionOf(ms, j) = LastBelow(SectionsIn(ms), j)
      /\ OwnerOf(ls, j) = LastBelow(OwnersIn(ls), j) /\ OwnerOf(ms, j) = LastBelow(OwnersIn(ms), j)
      /\ TopOf(ls, j) = LastBelow(OthersIn(ls), j) /\ TopOf(ms, j) = LastBelow(OthersIn(ms), j)
  BY <1>1, <1>2, AboveLine
<1>4. /\ DomainsIn(ls) \subseteq 1 .. n /\ ItemsIn(ls) \subseteq 1 .. n
      /\ SectionsIn(ls) \subseteq 1 .. n /\ OwnersIn(ls) \subseteq 1 .. n /\ OthersIn(ls) \subseteq 1 .. n
  BY <1>1, KindsIn
<1>5. /\ DomainsIn(ms) \subseteq 1 .. n + 1 /\ ItemsIn(ms) \subseteq 1 .. n + 1
      /\ SectionsIn(ms) \subseteq 1 .. n + 1 /\ OwnersIn(ms) \subseteq 1 .. n + 1 /\ OthersIn(ms) \subseteq 1 .. n + 1
  BY <1>1, <1>2, KindsIn
<1>6. /\ \A i \in 1 .. n : i \in DomainsIn(ms) <=> i \in DomainsIn(ls)
      /\ \A i \in 1 .. n : i \in ItemsIn(ms) <=> i \in ItemsIn(ls)
      /\ \A i \in 1 .. n : i \in SectionsIn(ms) <=> i \in SectionsIn(ls)
      /\ \A i \in 1 .. n : i \in OwnersIn(ms) <=> i \in OwnersIn(ls)
      /\ \A i \in 1 .. n : i \in OthersIn(ms) <=> i \in OthersIn(ls)
  BY <1>1, KindsMore
<1>7. LastBelow(DomainsIn(ms), j) = LastBelow(DomainsIn(ls), j)
  BY <1>2, <1>4, <1>5, <1>6, BelowKept
<1>8. LastBelow(ItemsIn(ms), j) = LastBelow(ItemsIn(ls), j)
  BY <1>2, <1>4, <1>5, <1>6, BelowKept
<1>9. LastBelow(SectionsIn(ms), j) = LastBelow(SectionsIn(ls), j)
  BY <1>2, <1>4, <1>5, <1>6, BelowKept
<1>10. LastBelow(OwnersIn(ms), j) = LastBelow(OwnersIn(ls), j)
  BY <1>2, <1>4, <1>5, <1>6, BelowKept
<1>11. LastBelow(OthersIn(ms), j) = LastBelow(OthersIn(ls), j)
  <2>1. /\ OthersIn(ls) \subseteq 1 .. n /\ OthersIn(ms) \subseteq 1 .. n + 1
        /\ \A i \in 1 .. n : i \in OthersIn(ms) <=> i \in OthersIn(ls)
    BY <1>4, <1>5, <1>6
  <2>2. PICK K, M : K = OthersIn(ls) /\ M = OthersIn(ms)
    OBVIOUS
  <2>3. LastBelow(M, j) = LastBelow(K, j)
    <3>1. n \in Nat /\ j \in 1 .. n + 1
      BY <1>2
    <3>2. /\ K \subseteq 1 .. n /\ M \subseteq 1 .. n + 1
          /\ \A i \in 1 .. n : i \in M <=> i \in K
      BY <2>1, <2>2
    <3> QED BY <3>1, <3>2, BelowKept, Zenon
  <2> QED BY <2>2, <2>3, Zenon
<1> QED BY <1>3, <1>7, <1>8, <1>9, <1>10, <1>11

LEMMA OwnersNext ==
  ASSUME NEW ls, NEW ms, OneMore(ls, ms), NEW n, n = Len(ls), NEW l, l = ms[n + 1]
  PROVE  /\ DomainOf(ms, n + 2) = IF IsDomain(l) THEN n + 1 ELSE DomainOf(ls, n + 1)
         /\ ItemOf(ms, n + 2) = IF IsItem(l) THEN n + 1 ELSE ItemOf(ls, n + 1)
         /\ SectionOf(ms, n + 2) = IF IsSection(l) THEN n + 1 ELSE SectionOf(ls, n + 1)
         /\ OwnerOf(ms, n + 2) = IF OwnsLiterals(l) THEN n + 1 ELSE OwnerOf(ls, n + 1)
         /\ TopOf(ms, n + 2) = IF ~IsComment(l) THEN n + 1 ELSE TopOf(ls, n + 1)
<1>1. PICK m, j : m = Len(ms) /\ j = n + 2
  OBVIOUS
<1>2. n \in Nat /\ m \in Nat /\ m = n + 1 /\ n + 1 \in 1 .. n + 1 /\ j \in 1 .. m + 1
  BY <1>1 DEF OneMore
<1>3. /\ DomainOf(ls, n + 1) = LastBelow(DomainsIn(ls), n + 1) /\ ItemOf(ls, n + 1) = LastBelow(ItemsIn(ls), n + 1)
      /\ SectionOf(ls, n + 1) = LastBelow(SectionsIn(ls), n + 1) /\ OwnerOf(ls, n + 1) = LastBelow(OwnersIn(ls), n + 1)
      /\ TopOf(ls, n + 1) = LastBelow(OthersIn(ls), n + 1)
  BY <1>2, AboveLine
<1>4. /\ DomainOf(ms, j) = LastBelow(DomainsIn(ms), j) /\ ItemOf(ms, j) = LastBelow(ItemsIn(ms), j)
      /\ SectionOf(ms, j) = LastBelow(SectionsIn(ms), j) /\ OwnerOf(ms, j) = LastBelow(OwnersIn(ms), j)
      /\ TopOf(ms, j) = LastBelow(OthersIn(ms), j)
  BY <1>1, <1>2, AboveLine
<1>5. /\ DomainsIn(ls) \subseteq 1 .. n /\ ItemsIn(ls) \subseteq 1 .. n
      /\ SectionsIn(ls) \subseteq 1 .. n /\ OwnersIn(ls) \subseteq 1 .. n /\ OthersIn(ls) \subseteq 1 .. n
  BY <1>1, KindsIn
<1>6. /\ DomainsIn(ms) \subseteq 1 .. n + 1 /\ ItemsIn(ms) \subseteq 1 .. n + 1
      /\ SectionsIn(ms) \subseteq 1 .. n + 1 /\ OwnersIn(ms) \subseteq 1 .. n + 1 /\ OthersIn(ms) \subseteq 1 .. n + 1
  BY <1>1, <1>2, KindsIn
<1>7. /\ \A i \in 1 .. n : i \in DomainsIn(ms) <=> i \in DomainsIn(ls)
      /\ \A i \in 1 .. n : i \in ItemsIn(ms) <=> i \in ItemsIn(ls)
      /\ \A i \in 1 .. n : i \in SectionsIn(ms) <=> i \in SectionsIn(ls)
      /\ \A i \in 1 .. n : i \in OwnersIn(ms) <=> i \in OwnersIn(ls)
      /\ \A i \in 1 .. n : i \in OthersIn(ms) <=> i \in OthersIn(ls)
      /\ n + 1 \in DomainsIn(ms) <=> IsDomain(l)
      /\ n + 1 \in ItemsIn(ms) <=> IsItem(l)
      /\ n + 1 \in SectionsIn(ms) <=> IsSection(l)
      /\ n + 1 \in OwnersIn(ms) <=> OwnsLiterals(l)
      /\ n + 1 \in OthersIn(ms) <=> ~IsComment(l)
  BY KindsMore
<1>8. LastBelow(DomainsIn(ms), j) = IF IsDomain(l) THEN n + 1 ELSE DomainOf(ls, n + 1)
  <2>1. PICK K, M : K = DomainsIn(ls) /\ M = DomainsIn(ms)
    OBVIOUS
  <2>2. LastBelow(M, n + 2) = IF n + 1 \in M THEN n + 1 ELSE LastBelow(K, n + 1)
    BY <1>2, <1>5, <1>6, <1>7, <2>1, BelowNext
  <2> QED BY <1>1, <1>3, <1>7, <2>1, <2>2, Zenon
<1>9. LastBelow(ItemsIn(ms), j) = IF IsItem(l) THEN n + 1 ELSE ItemOf(ls, n + 1)
  <2>1. PICK K, M : K = ItemsIn(ls) /\ M = ItemsIn(ms)
    OBVIOUS
  <2>2. LastBelow(M, n + 2) = IF n + 1 \in M THEN n + 1 ELSE LastBelow(K, n + 1)
    BY <1>2, <1>5, <1>6, <1>7, <2>1, BelowNext
  <2> QED BY <1>1, <1>3, <1>7, <2>1, <2>2, Zenon
<1>10. LastBelow(SectionsIn(ms), j) = IF IsSection(l) THEN n + 1 ELSE SectionOf(ls, n + 1)
  <2>1. PICK K, M : K = SectionsIn(ls) /\ M = SectionsIn(ms)
    OBVIOUS
  <2>2. LastBelow(M, n + 2) = IF n + 1 \in M THEN n + 1 ELSE LastBelow(K, n + 1)
    BY <1>2, <1>5, <1>6, <1>7, <2>1, BelowNext
  <2> QED BY <1>1, <1>3, <1>7, <2>1, <2>2, Zenon
<1>11. LastBelow(OwnersIn(ms), j) = IF OwnsLiterals(l) THEN n + 1 ELSE OwnerOf(ls, n + 1)
  <2>1. PICK K, M : K = OwnersIn(ls) /\ M = OwnersIn(ms)
    OBVIOUS
  <2>2. LastBelow(M, n + 2) = IF n + 1 \in M THEN n + 1 ELSE LastBelow(K, n + 1)
    BY <1>2, <1>5, <1>6, <1>7, <2>1, BelowNext
  <2> QED BY <1>1, <1>3, <1>7, <2>1, <2>2, Zenon
<1>12. LastBelow(OthersIn(ms), j) = IF ~IsComment(l) THEN n + 1 ELSE TopOf(ls, n + 1)
  <2>1. PICK K, M : K = OthersIn(ls) /\ M = OthersIn(ms)
    OBVIOUS
  <2>2. LastBelow(M, n + 2) = IF n + 1 \in M THEN n + 1 ELSE LastBelow(K, n + 1)
    BY <1>2, <1>5, <1>6, <1>7, <2>1, BelowNext
  <2> QED BY <1>1, <1>3, <1>7, <2>1, <2>2, Zenon
<1> QED BY <1>1, <1>4, <1>8, <1>9, <1>10, <1>11, <1>12, Zenon

LEMMA OwnersAre ==
  ASSUME NEW ls, IsSeq(ls), NEW j \in 1 .. Len(ls) + 1
  PROVE  /\ Nearest(DomainOf(ls, j), DomainsIn(ls), j) /\ Nearest(ItemOf(ls, j), ItemsIn(ls), j)
         /\ Nearest(SectionOf(ls, j), SectionsIn(ls), j) /\ Nearest(OwnerOf(ls, j), OwnersIn(ls), j)
         /\ Nearest(TopOf(ls, j), OthersIn(ls), j)
<1>1. PICK n : n = Len(ls) /\ n \in Nat
  BY SeqFacts
<1>2. j \in 1 .. n + 1 /\ j \in 1 .. n + 2
  BY <1>1
<1>3. /\ DomainOf(ls, j) = LastBelow(DomainsIn(ls), j)
      /\ ItemOf(ls, j) = LastBelow(ItemsIn(ls), j)
      /\ SectionOf(ls, j) = LastBelow(SectionsIn(ls), j)
      /\ OwnerOf(ls, j) = LastBelow(OwnersIn(ls), j)
      /\ TopOf(ls, j) = LastBelow(OthersIn(ls), j)
  BY <1>1, <1>2, AboveLine
<1>4. /\ DomainsIn(ls) \subseteq 1 .. n /\ ItemsIn(ls) \subseteq 1 .. n
      /\ SectionsIn(ls) \subseteq 1 .. n /\ OwnersIn(ls) \subseteq 1 .. n /\ OthersIn(ls) \subseteq 1 .. n
  BY <1>1, KindsIn
<1>5. /\ Nearest(LastBelow(DomainsIn(ls), j), DomainsIn(ls), j) /\ Nearest(LastBelow(ItemsIn(ls), j), ItemsIn(ls), j)
      /\ Nearest(LastBelow(SectionsIn(ls), j), SectionsIn(ls), j) /\ Nearest(LastBelow(OwnersIn(ls), j), OwnersIn(ls), j)
      /\ Nearest(LastBelow(OthersIn(ls), j), OthersIn(ls), j)
  BY <1>1, <1>2, <1>4, NearestIs
<1> QED BY <1>3, <1>5

LEMMA OwnersBetween ==
  ASSUME NEW ls, IsSeq(ls), NEW n, n = Len(ls), NEW j \in 1 .. n + 1
  PROVE  /\ DomainOf(ls, n + 1) < j => DomainOf(ls, j) = DomainOf(ls, n + 1)
         /\ ItemOf(ls, n + 1) < j => ItemOf(ls, j) = ItemOf(ls, n + 1)
         /\ SectionOf(ls, n + 1) < j => SectionOf(ls, j) = SectionOf(ls, n + 1)
         /\ OwnerOf(ls, n + 1) < j => OwnerOf(ls, j) = OwnerOf(ls, n + 1)
<1>1. n \in Nat /\ n + 1 \in 1 .. n + 1
  BY SeqFacts
<1>2. /\ DomainOf(ls, j) = LastBelow(DomainsIn(ls), j) /\ DomainOf(ls, n + 1) = LastBelow(DomainsIn(ls), n + 1)
      /\ ItemOf(ls, j) = LastBelow(ItemsIn(ls), j) /\ ItemOf(ls, n + 1) = LastBelow(ItemsIn(ls), n + 1)
      /\ SectionOf(ls, j) = LastBelow(SectionsIn(ls), j) /\ SectionOf(ls, n + 1) = LastBelow(SectionsIn(ls), n + 1)
      /\ OwnerOf(ls, j) = LastBelow(OwnersIn(ls), j) /\ OwnerOf(ls, n + 1) = LastBelow(OwnersIn(ls), n + 1)
  BY <1>1, AboveLine
<1>3. /\ DomainsIn(ls) \subseteq 1 .. n /\ ItemsIn(ls) \subseteq 1 .. n
      /\ SectionsIn(ls) \subseteq 1 .. n /\ OwnersIn(ls) \subseteq 1 .. n
  BY KindsIn
<1> QED BY <1>1, <1>2, <1>3, BelowBetween

-----------------------------------------------------------------------------
(* The comments above a line.                                              *)
TextsFrom(ls, top, j) == [i \in 1 .. j - 1 - top |-> ls[top + i].text]

TextsAbove(ls, j) == TextsFrom(ls, TopOf(ls, j), j)

FromText(texts) ==
  LET start == {i \in 1 .. Len(texts) : HasText(texts[i])}
  IN  IF start = {} THEN <<>> ELSE SubSeq(texts, CHOOSE i \in start : \A k \in start : i <= k, Len(texts))

LEMMA CommentsAre == ASSUME NEW ls, NEW j PROVE CommentsAbove(ls, j) = FromText(TextsAbove(ls, j))
  BY DEF CommentsAbove, FromText, TextsAbove, TextsFrom, TopOf, HasText

(* A line more does not change the comments above the others.              *)
LEMMA CommentsKept ==
  ASSUME NEW ls, NEW ms, OneMore(ls, ms), NEW j \in 1 .. Len(ls) + 1
  PROVE  CommentsAbove(ms, j) = CommentsAbove(ls, j)
<1>1. PICK n, t : n = Len(ls) /\ t = TopOf(ls, j)
  OBVIOUS
<1>2. n \in Nat /\ IsSeq(ls) /\ \A i \in 1 .. n : ms[i] = ls[i]
  BY <1>1 DEF OneMore
<1>3. TopOf(ms, j) = t
  BY <1>1, OwnersKept
<1>4. t \in 0 .. j - 1
  <2>1. Nearest(TopOf(ls, j), OthersIn(ls), j)
    BY <1>2, OwnersAre
  <2> QED BY <1>1, <2>1 DEF Nearest
<1>5. ASSUME NEW i \in 1 .. j - 1 - t PROVE ms[t + i] = ls[t + i]
  <2>1. j \in 1 .. n + 1
    BY <1>1
  <2>2. t + i \in 1 .. n
    BY <1>2, <1>4, <2>1
  <2> QED BY <1>2, <2>2
<1>6. TextsAbove(ms, j) = TextsAbove(ls, j)
  <2>1. TextsFrom(ms, t, j) = TextsFrom(ls, t, j)
    BY <1>5 DEF TextsFrom
  <2> QED BY <1>1, <1>3, <2>1 DEF TextsAbove
<1> QED BY <1>6, CommentsAre

LEMMA FromTextStart ==
  ASSUME NEW t, IsSeq(t), NEW k, k \in 1 .. Len(t), HasText(t[k]), \A i \in 1 .. k - 1 : ~HasText(t[i])
  PROVE  FromText(t) = [i \in 1 .. Len(t) - k + 1 |-> t[i + k - 1]]
<1>1. PICK n : n = Len(t) /\ n \in Nat
  BY SeqFacts
<1>2. PICK A : A = {i \in 1 .. n : HasText(t[i])}
  OBVIOUS
<1>3. k \in A /\ \A i \in A : k <= i
  <2>1. ASSUME NEW i \in A, i < k PROVE FALSE
    <3>1. i \in 1 .. k - 1 /\ HasText(t[i])
      BY <1>1, <1>2, <2>1
    <3> QED BY <3>1
  <2>2. \A i \in A : i \in Nat
    BY <1>2
  <2> QED BY <1>1, <1>2, <2>1, <2>2
<1>4. (CHOOSE i \in A : \A m \in A : i <= m) = k
  <2>1. PICK c : c = CHOOSE i \in A : \A m \in A : i <= m
    OBVIOUS
  <2>2. c \in A /\ \A m \in A : c <= m
    BY <1>3, <2>1
  <2>3. c \in Nat /\ k \in Nat /\ c <= k /\ k <= c
    BY <1>2, <1>3, <2>2
  <2> QED BY <2>1, <2>3
<1>5. FromText(t) = SubSeq(t, k, n)
  BY <1>1, <1>2, <1>3, <1>4 DEF FromText
<1>6. SubSeq(t, k, n) = [i \in 1 .. n - k + 1 |-> t[i + k - 1]]
  <2>1. t \in Seq(ToSet(t)) /\ k \in 1 .. n
    BY <1>1 DEF IsSeq
  <2> QED BY <1>1, <2>1
<1> QED BY <1>1, <1>5, <1>6

LEMMA FromTextNone ==
  ASSUME NEW t, \A i \in 1 .. Len(t) : ~HasText(t[i])
  PROVE  FromText(t) = <<>>
  BY DEF FromText

(* The first of the texts, if there is one. *)
LEMMA FirstText ==
  ASSUME NEW t, IsSeq(t)
  PROVE  \/ \A i \in 1 .. Len(t) : ~HasText(t[i])
         \/ \E k \in 1 .. Len(t) : HasText(t[k]) /\ \A i \in 1 .. k - 1 : ~HasText(t[i])
<1>1. PICK n : n = Len(t) /\ n \in Nat
  BY SeqFacts
<1>2. PICK A : A = {i \in 1 .. n : HasText(t[i])}
  OBVIOUS
<1>3. CASE A = {}
  BY <1>1, <1>2, <1>3
<1>4. CASE A # {}
  <2>1. A \subseteq Nat
    BY <1>2
  <2>2. PICK k \in A : \A i \in A : k <= i
    BY <1>4, <2>1, LeastNumber
  <2>3. k \in 1 .. n /\ HasText(t[k])
    BY <1>2
  <2>4. ASSUME NEW i \in 1 .. k - 1 PROVE ~HasText(t[i])
    <3>1. i \in 1 .. n /\ ~(k <= i)
      BY <1>1, <2>3
    <3> QED BY <1>2, <2>2, <3>1
  <2> QED BY <1>1, <2>3, <2>4
<1> QED BY <1>3, <1>4

(* One text more. *)
LEMMA FromTextMore ==
  ASSUME NEW t, IsSeq(t), NEW x
  PROVE  FromText(Append(t, x)) = IF FromText(t) = <<>> /\ ~HasText(x) THEN <<>> ELSE Append(FromText(t), x)
<1>1. PICK n : n = Len(t) /\ n \in Nat
  BY SeqFacts
<1>2. PICK u : u = Append(t, x)
  OBVIOUS
<1>3. IsSeq(u) /\ Len(u) = n + 1 /\ u[n + 1] = x /\ \A i \in 1 .. n : u[i] = t[i]
  BY <1>1, <1>2, Appended
<1>4. CASE \A i \in 1 .. n : ~HasText(t[i])
  <2>1. FromText(t) = <<>>
    BY <1>1, <1>4, FromTextNone
  <2>2. CASE HasText(x)
    <3>1. n + 1 \in 1 .. n + 1 /\ n + 1 - 1 = n
      BY <1>1
    <3>2. \A i \in 1 .. n + 1 - 1 : ~HasText(u[i])
      BY <1>3, <1>4, <3>1
    <3>3. PICK k : k = n + 1
      OBVIOUS
    <3>4. k \in 1 .. Len(u) /\ HasText(u[k]) /\ \A i \in 1 .. k - 1 : ~HasText(u[i])
      <4>1. k \in 1 .. Len(u) /\ u[k] = x /\ k - 1 = n
        BY <1>1, <1>3, <3>1, <3>3
      <4>2. \A i \in 1 .. n : ~HasText(u[i])
        BY <1>3, <1>4
      <4> QED BY <2>2, <4>1, <4>2
    <3>5. FromText(u) = [i \in 1 .. Len(u) - k + 1 |-> u[i + k - 1]]
      BY <1>3, <3>4, FromTextStart
    <3>6. Len(u) - k + 1 = 1 /\ \A i \in 1 .. 1 : u[i + k - 1] = x
      BY <1>1, <1>3, <3>3
    <3>7. FromText(u) = [i \in 1 .. 1 |-> x]
      BY <3>5, <3>6
    <3>8. Append(<<>>, x) = [i \in 1 .. 1 |-> x]
      OBVIOUS
    <3> QED BY <1>2, <2>1, <2>2, <3>7, <3>8
  <2>3. CASE ~HasText(x)
    <3>1. ASSUME NEW i \in 1 .. n + 1 PROVE ~HasText(u[i])
      <4>1. i \in 1 .. n \/ i = n + 1
        BY <1>1
      <4> QED BY <1>3, <1>4, <2>3, <4>1
    <3>2. FromText(u) = <<>>
      BY <1>3, <3>1, FromTextNone
    <3> QED BY <1>2, <2>1, <2>3, <3>2
  <2> QED BY <2>2, <2>3
<1>5. CASE \E k \in 1 .. n : HasText(t[k]) /\ \A i \in 1 .. k - 1 : ~HasText(t[i])
  <2>1. PICK k \in 1 .. n : HasText(t[k]) /\ \A i \in 1 .. k - 1 : ~HasText(t[i])
    BY <1>5
  <2>2. k \in 1 .. n + 1 /\ HasText(u[k])
    BY <1>1, <1>3, <2>1
  <2>3. \A i \in 1 .. k - 1 : ~HasText(u[i])
    <3>1. \A i \in 1 .. k - 1 : i \in 1 .. n
      BY <1>1
    <3> QED BY <1>3, <2>1, <3>1
  <2>4. PICK f, g : f = FromText(t) /\ g = FromText(u)
    OBVIOUS
  <2>5. PICK m : m = n - k + 1
    OBVIOUS
  <2>6. f = [i \in 1 .. m |-> t[i + k - 1]]
    <3>1. k \in 1 .. Len(t)
      BY <1>1
    <3>2. FromText(t) = [i \in 1 .. Len(t) - k + 1 |-> t[i + k - 1]]
      <4>1. HasText(t[k]) /\ \A i \in 1 .. k - 1 : ~HasText(t[i])
        BY <2>1
      <4> HIDE <2>1
      <4> QED BY <3>1, <4>1, FromTextStart, Zenon
    <3> QED BY <1>1, <2>4, <2>5, <3>2
  <2>7. g = [i \in 1 .. m + 1 |-> u[i + k - 1]]
    <3>1. g = [i \in 1 .. Len(u) - k + 1 |-> u[i + k - 1]]
      BY <1>3, <2>2, <2>3, <2>4, FromTextStart
    <3>2. Len(u) - k + 1 = m + 1
      BY <1>1, <1>3, <2>5
    <3> QED BY <3>1, <3>2
  <2>8. m \in Nat /\ m # 0
    BY <1>1, <2>5
  <2>9. IsSeq(f) /\ Len(f) = m
    <3>1. f = [i \in 1 .. m |-> f[i]]
      BY <2>6
    <3> QED BY <2>8, <3>1, SeqFunction
  <2>10. PICK h : h = Append(f, x)
    OBVIOUS
  <2>11. IsSeq(h) /\ Len(h) = m + 1 /\ h[m + 1] = x /\ \A i \in 1 .. m : h[i] = f[i]
    BY <2>9, <2>10, Appended
  <2>12. ASSUME NEW i \in 1 .. m + 1 PROVE h[i] = g[i]
    <3>1. CASE i \in 1 .. m
      <4>1. i + k - 1 \in 1 .. n
        BY <1>1, <2>5, <3>1
      <4>2. u[i + k - 1] = t[i + k - 1]
        BY <1>3, <4>1
      <4> QED BY <2>6, <2>7, <2>11, <3>1, <4>2
    <3>2. CASE i = m + 1
      <4>1. i + k - 1 = n + 1
        BY <1>1, <2>5, <3>2
      <4> QED BY <1>3, <2>7, <2>11, <3>2, <4>1
    <3> QED BY <2>8, <3>1, <3>2
  <2>13. h = [i \in 1 .. m + 1 |-> h[i]] /\ g = [i \in 1 .. m + 1 |-> g[i]]
    BY <2>7, <2>11, SeqFacts
  <2>14. h = g
    BY <2>12, <2>13
  <2>15. f # <<>>
    BY <2>8, <2>9, SeqFacts
  <2> QED BY <1>2, <2>4, <2>10, <2>14, <2>15
<1> QED BY <1>1, <1>4, <1>5, FirstText

(* What is above the next line: this one is a comment, or not. *)
LEMMA CommentsNext ==
  ASSUME NEW ls, NEW ms, OneMore(ls, ms), NEW n, n = Len(ls), NEW l, l = ms[n + 1], NEW d, d = CommentsAbove(ls, n + 1)
  PROVE  CommentsAbove(ms, n + 2) =
           IF IsComment(l) THEN IF d = <<>> /\ ~HasText(l.text) THEN <<>> ELSE Append(d, l.text) ELSE <<>>
<1>1. n \in Nat /\ IsSeq(ls) /\ \A i \in 1 .. n : ms[i] = ls[i]
  BY DEF OneMore
<1>2. TopOf(ms, n + 2) = IF ~IsComment(l) THEN n + 1 ELSE TopOf(ls, n + 1)
  BY OwnersNext
<1>3. PICK t, u : t = TextsAbove(ls, n + 1) /\ u = TextsAbove(ms, n + 2)
  OBVIOUS
<1>4. CASE ~IsComment(l)
  <2>1. PICK b : b = TopOf(ms, n + 2)
    OBVIOUS
  <2>2. n + 2 - 1 - b = 0
    BY <1>1, <1>2, <1>4, <2>1
  <2>3. u = [i \in 1 .. 0 |-> ms[b + i].text]
    <3>1. PICK j : j = n + 2
      OBVIOUS
    <3>2. u = TextsFrom(ms, b, j)
      BY <1>3, <2>1, <3>1 DEF TextsAbove
    <3>3. 0 = j - 1 - b
      BY <1>1, <1>2, <1>4, <2>1, <3>1
    <3> QED BY <3>2, <3>3 DEF TextsFrom
  <2>4. u = [i \in 1 .. 0 |-> u[i]]
    BY <2>3
  <2>5. Len(u) = 0
    BY <2>4, SeqFunction
  <2>6. FromText(u) = <<>>
    BY <2>5, FromTextNone
  <2> QED BY <1>3, <1>4, <2>6, CommentsAre
<1>5. CASE IsComment(l)
  <2>1. PICK b : b = TopOf(ls, n + 1)
    OBVIOUS
  <2>2. TopOf(ms, n + 2) = b
    BY <1>2, <1>5, <2>1
  <2>3. b \in 0 .. n
    <3>1. n + 1 \in 1 .. Len(ls) + 1 /\ n + 1 - 1 = n
      BY <1>1
    <3>2. Nearest(TopOf(ls, n + 1), OthersIn(ls), n + 1)
      BY <1>1, <3>1, OwnersAre
    <3> QED BY <2>1, <3>1, <3>2 DEF Nearest
  <2>4. PICK m : m = n - b
    OBVIOUS
  <2>5. m \in Nat /\ n + 1 - 1 - b = m /\ n + 2 - 1 - b = m + 1
    BY <1>1, <2>3, <2>4
  <2>6. t = [i \in 1 .. m |-> ls[b + i].text]
    <3>1. PICK j : j = n + 1
      OBVIOUS
    <3>2. t = TextsFrom(ls, b, j)
      BY <1>3, <2>1, <3>1 DEF TextsAbove
    <3>3. m = j - 1 - b
      BY <1>1, <2>3, <2>4, <3>1
    <3> QED BY <3>2, <3>3 DEF TextsFrom
  <2>7. u = [i \in 1 .. m + 1 |-> ms[b + i].text]
    <3>1. PICK j, c : j = n + 2 /\ c = m + 1
      OBVIOUS
    <3>2. u = TextsFrom(ms, b, j)
      BY <1>3, <2>2, <3>1 DEF TextsAbove
    <3>3. c = j - 1 - b
      BY <1>1, <2>3, <2>4, <3>1
    <3>4. u = [i \in 1 .. c |-> ms[b + i].text]
      BY <3>2, <3>3 DEF TextsFrom
    <3> QED BY <3>1, <3>4
  <2>8. IsSeq(t) /\ Len(t) = m
    <3>1. t = [i \in 1 .. m |-> t[i]]
      BY <2>6
    <3> QED BY <2>5, <3>1, SeqFunction
  <2>9. PICK x, h : x = l.text /\ h = Append(t, x)
    OBVIOUS
  <2>10. IsSeq(h) /\ Len(h) = m + 1 /\ h[m + 1] = x /\ \A i \in 1 .. m : h[i] = t[i]
    BY <2>8, <2>9, Appended
  <2>11. ASSUME NEW i \in 1 .. m + 1 PROVE h[i] = u[i]
    <3>1. CASE i \in 1 .. m
      <4>1. b + i \in 1 .. n
        BY <1>1, <2>3, <2>4, <3>1
      <4> QED BY <1>1, <2>6, <2>7, <2>10, <3>1, <4>1
    <3>2. CASE i = m + 1
      <4>1. b + i = n + 1
        BY <1>1, <2>3, <2>4, <3>2
      <4> QED BY <2>7, <2>9, <2>10, <3>2, <4>1
    <3> QED BY <2>5, <3>1, <3>2
  <2>12. h = [i \in 1 .. m + 1 |-> h[i]] /\ u = [i \in 1 .. m + 1 |-> u[i]]
    BY <2>7, <2>10, SeqFacts
  <2>13. u = Append(t, x)
    BY <2>9, <2>11, <2>12
  <2>14. FromText(u) = IF FromText(t) = <<>> /\ ~HasText(x) THEN <<>> ELSE Append(FromText(t), x)
    BY <2>8, <2>13, FromTextMore
  <2> QED BY <1>3, <1>5, <2>9, <2>14, CommentsAre
<1> QED BY <1>4, <1>5

-----------------------------------------------------------------------------
(* What the lines of a class own, and what they mean, with one line more.   *)

(* Items and members are below a domain, members below a section of theirs. *)
Owned(ls) ==
  \A j \in 1 .. Len(ls) :
    /\ IsItem(ls[j]) => DomainOf(ls, j) # 0
    /\ ls[j].class = "member" => DomainOf(ls, j) # 0 /\ ItemOf(ls, j) < SectionOf(ls, j)

Growing(ls, ms) == OneMore(ls, ms) /\ Owned(ms)

(* Some lines, and the same with the new one if it is one of them.          *)
With(D, more, n) == IF more THEN D \cup {n + 1} ELSE D

LEMMA AllOfMore ==
  ASSUME NEW ls, NEW ms, OneMore(ls, ms), NEW n, n = Len(ls), NEW c
  PROVE  AllOf(ls, c) \subseteq 1 .. n /\ AllOf(ms, c) = With(AllOf(ls, c), ms[n + 1].class = c, n)
<1>1. n \in Nat /\ Len(ms) = n + 1 /\ \A i \in 1 .. n : ms[i] = ls[i]
  BY DEF OneMore
<1>2. \A i : i \in 1 .. n + 1 <=> i \in 1 .. n \/ i = n + 1
  BY <1>1
<1> QED BY <1>1, <1>2 DEF AllOf, With

LEMMA InDomainMore ==
  ASSUME NEW ls, NEW ms, OneMore(ls, ms), NEW n, n = Len(ls), NEW c, NEW d
  PROVE  /\ InDomain(ls, c, d) \subseteq 1 .. n
         /\ InDomain(ms, c, d) = With(InDomain(ls, c, d), ms[n + 1].class = c /\ DomainOf(ls, n + 1) = d, n)
<1>1. n \in Nat
  BY DEF OneMore
<1>2. AllOf(ls, c) \subseteq 1 .. n /\ AllOf(ms, c) = With(AllOf(ls, c), ms[n + 1].class = c, n)
  BY AllOfMore
<1>3. \A j \in 1 .. n + 1 : DomainOf(ms, j) = DomainOf(ls, j)
  BY OwnersKept
<1>4. \A j \in 1 .. n : j \in 1 .. n + 1 /\ j # n + 1
  BY <1>1
<1>5. n + 1 \in 1 .. n + 1
  BY <1>1
<1> QED BY <1>2, <1>3, <1>4, <1>5 DEF InDomain, With

LEMMA InItemMore ==
  ASSUME NEW ls, NEW ms, OneMore(ls, ms), NEW n, n = Len(ls), NEW c, NEW it
  PROVE  /\ InItem(ls, c, it) \subseteq 1 .. n
         /\ InItem(ms, c, it) = With(InItem(ls, c, it), ms[n + 1].class = c /\ ItemOf(ls, n + 1) = it, n)
<1>1. n \in Nat
  BY DEF OneMore
<1>2. AllOf(ls, c) \subseteq 1 .. n /\ AllOf(ms, c) = With(AllOf(ls, c), ms[n + 1].class = c, n)
  BY AllOfMore
<1>3. \A j \in 1 .. n + 1 : ItemOf(ms, j) = ItemOf(ls, j)
  BY OwnersKept
<1>4. \A j \in 1 .. n : j \in 1 .. n + 1 /\ j # n + 1
  BY <1>1
<1>5. n + 1 \in 1 .. n + 1
  BY <1>1
<1> QED BY <1>2, <1>3, <1>4, <1>5 DEF InItem, With

(* A line's owner is a line above it. *)
LEMMA OwnerAbove ==
  ASSUME NEW ls, NEW ms, OneMore(ls, ms), NEW n, n = Len(ls), NEW j \in 1 .. n + 1
  PROVE  /\ DomainOf(ls, j) \in 0 .. n /\ ItemOf(ls, j) \in 0 .. n
         /\ SectionOf(ls, j) \in 0 .. n /\ OwnerOf(ls, j) \in 0 .. n
         /\ DomainOf(ls, j) < j /\ ItemOf(ls, j) < j /\ SectionOf(ls, j) < j /\ OwnerOf(ls, j) < j
         /\ DomainOf(ls, j) # 0 => ms[DomainOf(ls, j)] = ls[DomainOf(ls, j)]
         /\ SectionOf(ls, j) # 0 => ms[SectionOf(ls, j)] = ls[SectionOf(ls, j)]
<1>1. n \in Nat /\ IsSeq(ls) /\ \A i \in 1 .. n : ms[i] = ls[i]
  BY DEF OneMore
<1>2. \A d : d \in 0 .. j - 1 => d \in 0 .. n /\ d < j /\ (d # 0 => d \in 1 .. n)
  BY <1>1
<1>3. /\ DomainOf(ls, j) \in 0 .. j - 1 /\ ItemOf(ls, j) \in 0 .. j - 1
      /\ SectionOf(ls, j) \in 0 .. j - 1 /\ OwnerOf(ls, j) \in 0 .. j - 1
  BY <1>1, OwnersAre DEF Nearest
<1> QED BY <1>1, <1>2, <1>3

LEMMA InSectionMore ==
  ASSUME NEW ls, NEW ms, Growing(ls, ms), NEW n, n = Len(ls), NEW it, NEW c
  PROVE  /\ InSection(ls, it, c) \subseteq 1 .. n
         /\ InSection(ms, it, c) =
              With(InSection(ls, it, c),
                   ms[n + 1].class = "member" /\ ItemOf(ls, n + 1) = it /\ ls[SectionOf(ls, n + 1)].class = c, n)
<1>1. OneMore(ls, ms) /\ n \in Nat /\ Len(ms) = n + 1 /\ \A i \in 1 .. n : ms[i] = ls[i]
  BY DEF Growing, OneMore
<1>2. PICK D, E, more : D = InItem(ls, "member", it) /\ E = InItem(ms, "member", it)
                        /\ more = (ms[n + 1].class = "member" /\ ItemOf(ls, n + 1) = it)
  OBVIOUS
<1>3. D \subseteq 1 .. n /\ E = With(D, more, n)
  BY <1>1, <1>2, InItemMore
<1>4. E \subseteq 1 .. n + 1 /\ \A j \in E : ms[j].class = "member"
  BY <1>1, <1>2 DEF InItem, AllOf
<1>5. ASSUME NEW j \in E PROVE SectionOf(ms, j) = SectionOf(ls, j) /\ ms[SectionOf(ms, j)] = ls[SectionOf(ls, j)]
  <2>1. j \in 1 .. n + 1 /\ j \in 1 .. Len(ms)
    BY <1>1, <1>4
  <2>2. SectionOf(ms, j) = SectionOf(ls, j) /\ ItemOf(ms, j) = ItemOf(ls, j)
    BY <1>1, <2>1, OwnersKept
  <2>3. ItemOf(ms, j) < SectionOf(ms, j)
    BY <1>4, <2>1 DEF Growing, Owned
  <2>4. /\ SectionOf(ls, j) \in 0 .. n /\ ItemOf(ls, j) \in 0 .. n
        /\ (SectionOf(ls, j) # 0 => ms[SectionOf(ls, j)] = ls[SectionOf(ls, j)])
    BY <1>1, <2>1, OwnerAbove
  <2>5. SectionOf(ls, j) # 0
    BY <2>2, <2>3, <2>4
  <2> QED BY <2>2, <2>4, <2>5
<1>6. n + 1 \notin D /\ \A j \in D : j \in E
  BY <1>1, <1>3 DEF With
<1>7. more => n + 1 \in E
  BY <1>3 DEF With
<1>8. InSection(ls, it, c) = {j \in D : ls[SectionOf(ls, j)].class = c}
  BY <1>2 DEF InSection
<1>9. InSection(ms, it, c) = {j \in E : ls[SectionOf(ls, j)].class = c}
  BY <1>2, <1>5 DEF InSection
<1>10. InSection(ls, it, c) \subseteq 1 .. n
  BY <1>3, <1>8
<1>11. InSection(ms, it, c) = With(InSection(ls, it, c), more /\ ls[SectionOf(ls, n + 1)].class = c, n)
  BY <1>3, <1>6, <1>7, <1>8, <1>9 DEF With
<1> QED BY <1>2, <1>10, <1>11

-----------------------------------------------------------------------------
(* Literals. *)
LiteralsAt(ls, o) == {i \in AllOf(ls, "literal") : OwnerOf(ls, i) = o}

LEMMA LiteralsMore ==
  ASSUME NEW ls, NEW ms, OneMore(ls, ms), NEW n, n = Len(ls), NEW l, l = ms[n + 1], NEW o
  PROVE  LiteralsOf(ms, o) =
           IF l.class = "literal" /\ OwnerOf(ls, n + 1) = o THEN Append(LiteralsOf(ls, o), l.value) ELSE LiteralsOf(ls, o)
<1>1. n \in Nat /\ \A i \in 1 .. n : ms[i] = ls[i]
  BY DEF OneMore
<1>2. PICK D, E, more :
        /\ D = LiteralsAt(ls, o) /\ E = LiteralsAt(ms, o)
        /\ more = (l.class = "literal" /\ OwnerOf(ls, n + 1) = o)
  OBVIOUS
<1>3. D \subseteq 1 .. n /\ E = With(D, more, n)
  <2>1. PICK c : c = "literal"
    OBVIOUS
  <2>2. AllOf(ls, c) \subseteq 1 .. n /\ AllOf(ms, c) = With(AllOf(ls, c), ms[n + 1].class = c, n)
    BY AllOfMore
  <2>3. \A j \in 1 .. n + 1 : OwnerOf(ms, j) = OwnerOf(ls, j)
    BY OwnersKept
  <2>4. \A j \in 1 .. n : j \in 1 .. n + 1 /\ j # n + 1
    BY <1>1
  <2>5. n + 1 \in 1 .. n + 1
    BY <1>1
  <2>6. D = {i \in AllOf(ls, c) : OwnerOf(ls, i) = o} /\ E = {i \in AllOf(ms, c) : OwnerOf(ms, i) = o}
    BY <1>2, <2>1 DEF LiteralsAt
  <2>7. more = (ms[n + 1].class = c /\ OwnerOf(ls, n + 1) = o)
    BY <1>2, <2>1
  <2> HIDE <1>2, <2>1
  <2> QED BY <2>2, <2>3, <2>4, <2>5, <2>6, <2>7 DEF With
<1>4. PICK f, g : f = [j \in D |-> ls[j].value] /\ g = [j \in E |-> ms[j].value]
  OBVIOUS
<1>5. LiteralsOf(ls, o) = Each(ls, f) /\ LiteralsOf(ms, o) = Each(ms, g)
  BY <1>2, <1>4 DEF LiteralsOf, LiteralsAt
<1>6. DOMAIN f = D /\ DOMAIN g = E /\ \A i \in D : i \in E => g[i] = f[i]
  BY <1>1, <1>3, <1>4
<1>7. CASE more
  <2>1. E = D \cup {n + 1}
    BY <1>3, <1>7 DEF With
  <2>2. g[n + 1] = l.value
    BY <1>4, <2>1
  <2>3. Each(ms, g) = Append(Each(ls, f), g[n + 1])
    BY <1>3, <1>6, <2>1, EachMore
  <2> QED BY <1>2, <1>5, <1>7, <2>2, <2>3
<1>8. CASE ~more
  <2>1. E = D /\ n + 1 \notin D
    BY <1>1, <1>3, <1>8 DEF With
  <2>2. Each(ms, g) = Each(ls, f)
    BY <1>6, <2>1, EachKept
  <2> QED BY <1>2, <1>5, <1>8, <2>2
<1> QED BY <1>7, <1>8

(* No line has literals before the next. *)
LEMMA NoLiterals ==
  ASSUME NEW ls, NEW ms, OneMore(ls, ms), NEW n, n = Len(ls)
  PROVE  LiteralsOf(ms, n + 1) = <<>>
<1>1. n \in Nat /\ Len(ms) = n + 1 /\ IsSeq(ms)
  BY DEF OneMore
<1>2. ASSUME NEW i \in LiteralsAt(ms, n + 1) PROVE FALSE
  <2>1. i \in 1 .. n + 1 /\ OwnerOf(ms, i) = n + 1
    BY <1>1 DEF LiteralsAt, AllOf
  <2>2. OwnerOf(ms, i) = OwnerOf(ls, i) /\ OwnerOf(ls, i) < i /\ OwnerOf(ls, i) \in 0 .. n
    BY <2>1, OwnersKept, OwnerAbove
  <2> QED BY <1>1, <2>1, <2>2
<1>3. PICK f : f = [j \in LiteralsAt(ms, n + 1) |-> ms[j].value]
  OBVIOUS
<1>4. DOMAIN f = {}
  BY <1>2, <1>3
<1>5. LiteralsOf(ms, n + 1) = Each(ms, f)
  BY <1>3 DEF LiteralsOf, LiteralsAt
<1> QED BY <1>1, <1>4, <1>5, EachNone

-----------------------------------------------------------------------------
(* Members. *)
MemberHead(ls, j) ==
  NewType(ls[DomainOf(ls, j)].name, ls[j], Assigned(ls[j].typ, ls[j].array), CommentsAbove(ls, j))

ItemHead(ls, it) == NewType(ls[DomainOf(ls, it)].name, ls[it], TypeOf(ls[it]), CommentsAbove(ls, it))

(* What one line says of itself does not change with the lines below.      *)
LEMMA HeadsKept ==
  ASSUME NEW ls, NEW ms, Growing(ls, ms), NEW j \in 1 .. Len(ls), IsItem(ls[j]) \/ ls[j].class = "member"
  PROVE  MemberHead(ms, j) = MemberHead(ls, j) /\ ItemHead(ms, j) = ItemHead(ls, j)
<1>1. PICK n : n = Len(ls)
  OBVIOUS
<1>2. OneMore(ls, ms) /\ n \in Nat /\ Len(ms) = n + 1 /\ ms[j] = ls[j] /\ j \in 1 .. n + 1
  BY <1>1 DEF Growing, OneMore
<1>3. DomainOf(ms, j) = DomainOf(ls, j)
  BY <1>1, <1>2, OwnersKept
<1>4. CommentsAbove(ms, j) = CommentsAbove(ls, j)
  BY <1>1, <1>2, CommentsKept
<1>5. DomainOf(ms, j) # 0
  BY <1>1, <1>2 DEF Growing, Owned
<1>6. ms[DomainOf(ls, j)] = ls[DomainOf(ls, j)]
  BY <1>1, <1>2, <1>3, <1>5, OwnerAbove
<1> QED BY <1>2, <1>3, <1>4, <1>6 DEF MemberHead, ItemHead

LEMMA HeadsAre ==
  ASSUME NEW dtyp, NEW l, NEW typ, NEW d
  PROVE  /\ DOMAIN NewType(dtyp, l, typ, d) = {"name", "flags", "circular", "desc", "typ", "redirect", "enum",
                                              "parameters", "returns", "properties"}
         /\ NewType(dtyp, l, typ, d).enum = <<>> /\ NewType(dtyp, l, typ, d).redirect = <<>>
         /\ \A c \in Sections : NewType(dtyp, l, typ, d)[c] = <<>>
  BY DEF NewType, Sections

LEMMA MemberIs ==
  ASSUME NEW ls, NEW j
  PROVE  /\ MeaningOfMember(ls, j) = WithEnum(MemberHead(ls, j), LiteralsOf(ls, j))
         /\ MeaningOfMember(ls, j).enum = LiteralsOf(ls, j)
<1>1. PICK h, m : h = MemberHead(ls, j) /\ m = MeaningOfMember(ls, j)
  OBVIOUS
<1>2. m = WithEnum(h, LiteralsOf(ls, j))
  BY <1>1 DEF MeaningOfMember, MemberHead, WithEnum
<1>3. "enum" \in DOMAIN h
  BY <1>1, HeadsAre DEF MemberHead
<1>4. m.enum = LiteralsOf(ls, j)
  BY <1>2, <1>3 DEF WithEnum
<1> QED BY <1>1, <1>2, <1>4

LEMMA EnumAgain ==
  ASSUME NEW t, NEW e, NEW f
  PROVE  WithEnum(WithEnum(t, e), f) = WithEnum(t, f)
  BY DEF WithEnum

LEMMA MemberMore ==
  ASSUME NEW ls, NEW ms, Growing(ls, ms), NEW n, n = Len(ls), NEW l, l = ms[n + 1], NEW j \in AllOf(ls, "member")
  PROVE  MeaningOfMember(ms, j) =
           IF l.class = "literal" /\ OwnerOf(ls, n + 1) = j
             THEN WithEnum(MeaningOfMember(ls, j), Append(MeaningOfMember(ls, j).enum, l.value))
             ELSE MeaningOfMember(ls, j)
<1>1. j \in 1 .. Len(ls) /\ ls[j].class = "member"
  BY DEF AllOf
<1>2. MemberHead(ms, j) = MemberHead(ls, j)
  BY <1>1, HeadsKept
<1>3. OneMore(ls, ms)
  BY DEF Growing
<1>4. PICK h, a, b : h = MemberHead(ls, j) /\ a = LiteralsOf(ls, j) /\ b = LiteralsOf(ms, j)
  OBVIOUS
<1>5. MeaningOfMember(ls, j) = WithEnum(h, a) /\ MeaningOfMember(ls, j).enum = a
  BY <1>4, MemberIs
<1>6. MeaningOfMember(ms, j) = WithEnum(h, b)
  BY <1>2, <1>4, MemberIs
<1>7. CASE l.class = "literal" /\ OwnerOf(ls, n + 1) = j
  <2>1. b = Append(a, l.value)
    BY <1>3, <1>4, <1>7, LiteralsMore
  <2>2. WithEnum(WithEnum(h, a), b) = WithEnum(h, b)
    BY EnumAgain
  <2> QED BY <1>5, <1>6, <1>7, <2>1, <2>2, Zenon
<1>8. CASE ~(l.class = "literal" /\ OwnerOf(ls, n + 1) = j)
  <2>1. b = a
    BY <1>3, <1>4, <1>8, LiteralsMore
  <2> QED BY <1>5, <1>6, <1>8, <2>1, Zenon
<1> QED BY <1>7, <1>8

LEMMA MemberNew ==
  ASSUME NEW ls, NEW ms, Growing(ls, ms), NEW n, n = Len(ls), NEW l, l = ms[n + 1], l.class = "member"
  PROVE  MeaningOfMember(ms, n + 1) =
           NewType(ls[DomainOf(ls, n + 1)].name, l, Assigned(l.typ, l.array), CommentsAbove(ls, n + 1))
<1>1. OneMore(ls, ms) /\ n \in Nat /\ Len(ms) = n + 1 /\ n + 1 \in 1 .. n + 1
  BY DEF Growing, OneMore
<1>2. DomainOf(ms, n + 1) = DomainOf(ls, n + 1)
  BY <1>1, OwnersKept
<1>3. CommentsAbove(ms, n + 1) = CommentsAbove(ls, n + 1)
  BY <1>1, CommentsKept
<1>4. DomainOf(ms, n + 1) # 0
  BY <1>1 DEF Growing, Owned
<1>5. ms[DomainOf(ls, n + 1)] = ls[DomainOf(ls, n + 1)]
  BY <1>1, <1>2, <1>4, OwnerAbove
<1>6. PICK h : h = NewType(ls[DomainOf(ls, n + 1)].name, l, Assigned(l.typ, l.array), CommentsAbove(ls, n + 1))
  OBVIOUS
<1>7. MemberHead(ms, n + 1) = h
  BY <1>2, <1>3, <1>5, <1>6, Zenon DEF MemberHead
<1>8. MeaningOfMember(ms, n + 1) = WithEnum(h, <<>>)
  BY <1>1, <1>7, MemberIs, NoLiterals
<1>9. WithEnum(h, <<>>) = h
  <2>1. h.enum = <<>> /\ "enum" \in DOMAIN h /\ h = [x \in DOMAIN h |-> h[x]]
    BY <1>6, HeadsAre DEF NewType
  <2> QED BY <2>1 DEF WithEnum
<1> QED BY <1>6, <1>8, <1>9

MembersFunction(ls, it, c) == [j \in InSection(ls, it, c) |-> MeaningOfMember(ls, j)]

LEMMA MembersAre ==
  ASSUME NEW ls, NEW it, NEW c
  PROVE  /\ MembersOf(ls, it, c) = Each(ls, MembersFunction(ls, it, c))
         /\ DOMAIN MembersFunction(ls, it, c) = InSection(ls, it, c)
         /\ \A j \in InSection(ls, it, c) : MembersFunction(ls, it, c)[j] = MeaningOfMember(ls, j) /\ j \in AllOf(ls, "member")
  BY DEF MembersOf, MembersFunction, InSection, InItem

(* A member is added to its section. *)
LEMMA MembersAppended ==
  ASSUME NEW ls, NEW ms, Growing(ls, ms), NEW n, n = Len(ls), NEW l, l = ms[n + 1], l.class = "member",
         NEW it, it = ItemOf(ls, n + 1), NEW c, c = ls[SectionOf(ls, n + 1)].class
  PROVE  MembersOf(ms, it, c) = Append(MembersOf(ls, it, c), MeaningOfMember(ms, n + 1))
<1>1. OneMore(ls, ms) /\ n \in Nat
  BY DEF Growing, OneMore
<1>2. PICK D, E, f, g : /\ D = InSection(ls, it, c) /\ E = InSection(ms, it, c)
                        /\ f = MembersFunction(ls, it, c) /\ g = MembersFunction(ms, it, c)
  OBVIOUS
<1>3. D \subseteq 1 .. n /\ E = D \cup {n + 1}
  <2>1. /\ InSection(ls, it, c) \subseteq 1 .. n
        /\ InSection(ms, it, c) =
              With(InSection(ls, it, c),
                   ms[n + 1].class = "member" /\ ItemOf(ls, n + 1) = it /\ ls[SectionOf(ls, n + 1)].class = c, n)
    BY InSectionMore
  <2> QED BY <1>2, <2>1 DEF With
<1>4. DOMAIN f = D /\ DOMAIN g = E /\ (\A j \in D : f[j] = MeaningOfMember(ls, j) /\ j \in AllOf(ls, "member"))
      /\ \A j \in E : g[j] = MeaningOfMember(ms, j)
  BY <1>2, MembersAre
<1>5. ASSUME NEW j \in D PROVE g[j] = f[j]
  <2>1. MeaningOfMember(ms, j) = MeaningOfMember(ls, j)
    BY <1>4, MemberMore
  <2> QED BY <1>3, <1>4, <2>1
<1>6. Each(ms, g) = Append(Each(ls, f), g[n + 1])
  <2>1. DOMAIN f \subseteq 1 .. Len(ls) /\ DOMAIN g = DOMAIN f \cup {Len(ls) + 1} /\ \A j \in DOMAIN f : g[j] = f[j]
    BY <1>3, <1>4, <1>5
  <2> HIDE <1>4, <1>5
  <2> QED BY <1>1, <2>1, EachMore
<1> QED BY <1>2, <1>3, <1>4, <1>6, MembersAre

(* A literal is added to the last member of its section. *)
LEMMA MembersLiteral ==
  ASSUME NEW ls, NEW ms, Growing(ls, ms), NEW n, n = Len(ls), NEW l, l = ms[n + 1], l.class = "literal",
         NEW it, NEW c, NEW o, o = OwnerOf(ls, n + 1), o \in InSection(ls, it, c),
         \A j \in InSection(ls, it, c) : j <= o,
         NEW s, s = MembersOf(ls, it, c), NEW k, k = Len(s)
  PROVE  k # 0 /\ MembersOf(ms, it, c) = Put(s, k, WithEnum(s[k], Append(s[k].enum, l.value)))
<1>1. OneMore(ls, ms) /\ n \in Nat
  BY DEF Growing, OneMore
<1>2. PICK D, E, f, g : /\ D = InSection(ls, it, c) /\ E = InSection(ms, it, c)
                        /\ f = MembersFunction(ls, it, c) /\ g = MembersFunction(ms, it, c)
  OBVIOUS
<1>3. D \subseteq 1 .. n /\ E = D
  <2>1. /\ InSection(ls, it, c) \subseteq 1 .. n
        /\ InSection(ms, it, c) =
              With(InSection(ls, it, c),
                   ms[n + 1].class = "member" /\ ItemOf(ls, n + 1) = it /\ ls[SectionOf(ls, n + 1)].class = c, n)
    BY InSectionMore
  <2> QED BY <1>2, <2>1 DEF With
<1>4. DOMAIN f = D /\ DOMAIN g = E /\ (\A j \in D : f[j] = MeaningOfMember(ls, j) /\ j \in AllOf(ls, "member"))
      /\ \A j \in E : g[j] = MeaningOfMember(ms, j)
  BY <1>2, MembersAre
<1>5. PICK e : e = Each(ls, f)
  OBVIOUS
<1>6. s = e
  BY <1>2, <1>5, MembersAre
<1>7. ASSUME NEW j \in D, j # o PROVE g[j] = f[j]
  <2>1. MeaningOfMember(ms, j) = MeaningOfMember(ls, j)
    BY <1>4, <1>7, MemberMore
  <2> QED BY <1>3, <1>4, <2>1
<1>8. o \in D /\ \A j \in D : j <= o
  BY <1>2
<1>9. /\ Len(e) \in Nat \ {0} /\ e[Len(e)] = f[o]
      /\ Each(ms, g) = Put(e, Len(e), g[o])
  <2>1. DOMAIN f \subseteq 1 .. Len(ls) /\ DOMAIN g = DOMAIN f
    BY <1>3, <1>4
  <2>2. o \in DOMAIN f /\ \A i \in DOMAIN f : i <= o
    BY <1>4, <1>8
  <2>3. \A i \in DOMAIN f : i # o => g[i] = f[i]
    BY <1>4, <1>7
  <2>4. /\ Len(Each(ls, f)) \in Nat \ {0} /\ Each(ls, f)[Len(Each(ls, f))] = f[o]
        /\ Each(ms, g) = Put(Each(ls, f), Len(Each(ls, f)), g[o])
    <3> HIDE <1>5, <1>7
    <3> QED BY <1>1, <2>1, <2>2, <2>3, EachLast
  <2> QED BY <1>5, <2>4
<1>10. f[o] = MeaningOfMember(ls, o) /\ g[o] = WithEnum(f[o], Append(f[o].enum, l.value))
  <2>1. MeaningOfMember(ms, o) = WithEnum(MeaningOfMember(ls, o), Append(MeaningOfMember(ls, o).enum, l.value))
    BY <1>4, <1>8, MemberMore
  <2>2. f[o] = MeaningOfMember(ls, o) /\ g[o] = MeaningOfMember(ms, o)
    BY <1>3, <1>4, <1>8
  <2> QED BY <2>1, <2>2, Zenon
<1>11. MembersOf(ms, it, c) = Each(ms, g)
  BY <1>2, MembersAre
<1> QED BY <1>6, <1>9, <1>10, <1>11

(* The members of a section that the new line says nothing of. *)
LEMMA MembersKept ==
  ASSUME NEW ls, NEW ms, Growing(ls, ms), NEW n, n = Len(ls), NEW l, l = ms[n + 1], NEW it, NEW c,
         ~(l.class = "member" /\ ItemOf(ls, n + 1) = it /\ ls[SectionOf(ls, n + 1)].class = c),
         ~(l.class = "literal" /\ OwnerOf(ls, n + 1) \in InSection(ls, it, c))
  PROVE  MembersOf(ms, it, c) = MembersOf(ls, it, c)
<1>1. OneMore(ls, ms) /\ n \in Nat
  BY DEF Growing, OneMore
<1>2. PICK D, E, f, g : /\ D = InSection(ls, it, c) /\ E = InSection(ms, it, c)
                        /\ f = MembersFunction(ls, it, c) /\ g = MembersFunction(ms, it, c)
  OBVIOUS
<1>3. D \subseteq 1 .. n /\ E = D
  <2>1. /\ InSection(ls, it, c) \subseteq 1 .. n
        /\ InSection(ms, it, c) =
              With(InSection(ls, it, c),
                   ms[n + 1].class = "member" /\ ItemOf(ls, n + 1) = it /\ ls[SectionOf(ls, n + 1)].class = c, n)
    BY InSectionMore
  <2> QED BY <1>2, <2>1 DEF With
<1>4. DOMAIN f = D /\ DOMAIN g = E /\ (\A j \in D : f[j] = MeaningOfMember(ls, j) /\ j \in AllOf(ls, "member"))
      /\ \A j \in E : g[j] = MeaningOfMember(ms, j)
  BY <1>2, MembersAre
<1>5. ASSUME NEW j \in D PROVE g[j] = f[j]
  <2>1. ~(l.class = "literal" /\ OwnerOf(ls, n + 1) = j)
    BY <1>2, <1>5
  <2>2. MeaningOfMember(ms, j) = MeaningOfMember(ls, j)
    BY <1>4, <2>1, MemberMore
  <2> QED BY <1>3, <1>4, <2>2
<1>6. n + 1 \notin D
  BY <1>1, <1>3
<1>7. Each(ms, g) = Each(ls, f)
  BY <1>1, <1>3, <1>4, <1>5, <1>6, EachKept
<1> QED BY <1>2, <1>7, MembersAre

LEMMA NoMembers ==
  ASSUME NEW ls, IsSeq(ls), NEW it, NEW c, InSection(ls, it, c) = {}
  PROVE  MembersOf(ls, it, c) = <<>>
  BY MembersAre, EachNone

-----------------------------------------------------------------------------
(* The literals of an item, and its redirect.                              *)
LEMMA EnumKept ==
  ASSUME NEW ls, NEW ms, Growing(ls, ms), NEW n, n = Len(ls), NEW l, l = ms[n + 1], NEW it,
         ~(l.class = "enum" /\ ItemOf(ls, n + 1) = it),
         ~(l.class = "literal" /\ OwnerOf(ls, n + 1) \in InItem(ls, "enum", it))
  PROVE  EnumOf(ms, it) = EnumOf(ls, it)
<1>1. OneMore(ls, ms)
  BY DEF Growing
<1>2. InItem(ms, "enum", it) = InItem(ls, "enum", it)
  <2>1. InItem(ms, "enum", it) = With(InItem(ls, "enum", it), ms[n + 1].class = "enum" /\ ItemOf(ls, n + 1) = it, n)
    BY <1>1, InItemMore
  <2> QED BY <2>1 DEF With
<1>3. PICK D : D = InItem(ls, "enum", it)
  OBVIOUS
<1>4. CASE D = {}
  BY <1>2, <1>3, <1>4 DEF EnumOf
<1>5. CASE D # {}
  <2>1. PICK j : j = CHOOSE i \in D : TRUE
    OBVIOUS
  <2>2. j \in D
    BY <1>5, <2>1
  <2>3. ~(l.class = "literal" /\ OwnerOf(ls, n + 1) = j)
    BY <1>3, <2>2
  <2>4. LiteralsOf(ms, j) = LiteralsOf(ls, j)
    BY <1>1, <2>3, LiteralsMore
  <2>5. EnumOf(ls, it) = LiteralsOf(ls, j) /\ EnumOf(ms, it) = LiteralsOf(ms, j)
    BY <1>2, <1>3, <1>5, <2>1 DEF EnumOf
  <2> QED BY <2>4, <2>5
<1> QED BY <1>4, <1>5

LEMMA EnumStarts ==
  ASSUME NEW ls, NEW ms, Growing(ls, ms), NEW n, n = Len(ls), NEW l, l = ms[n + 1], l.class = "enum",
         NEW it, it = ItemOf(ls, n + 1), InItem(ls, "enum", it) = {}
  PROVE  EnumOf(ms, it) = <<>> /\ EnumOf(ls, it) = <<>>
<1>1. OneMore(ls, ms)
  BY DEF Growing
<1>2. InItem(ms, "enum", it) = {n + 1}
  <2>1. InItem(ms, "enum", it) = With(InItem(ls, "enum", it), ms[n + 1].class = "enum" /\ ItemOf(ls, n + 1) = it, n)
    BY <1>1, InItemMore
  <2> QED BY <2>1 DEF With
<1>3. EnumOf(ms, it) = LiteralsOf(ms, n + 1)
  BY <1>2 DEF EnumOf
<1>4. EnumOf(ls, it) = <<>>
  BY DEF EnumOf
<1> QED BY <1>1, <1>3, <1>4, NoLiterals

LEMMA EnumLiteral ==
  ASSUME NEW ls, NEW ms, Growing(ls, ms), NEW n, n = Len(ls), NEW l, l = ms[n + 1], l.class = "literal",
         NEW it, InItem(ls, "enum", it) = {OwnerOf(ls, n + 1)}
  PROVE  EnumOf(ms, it) = Append(EnumOf(ls, it), l.value)
<1>1. OneMore(ls, ms)
  BY DEF Growing
<1>2. PICK o : o = OwnerOf(ls, n + 1)
  OBVIOUS
<1>3. InItem(ms, "enum", it) = {o}
  <2>1. InItem(ms, "enum", it) = With(InItem(ls, "enum", it), ms[n + 1].class = "enum" /\ ItemOf(ls, n + 1) = it, n)
    BY <1>1, InItemMore
  <2> QED BY <1>2, <2>1 DEF With
<1>4. EnumOf(ms, it) = LiteralsOf(ms, o) /\ EnumOf(ls, it) = LiteralsOf(ls, o)
  BY <1>2, <1>3 DEF EnumOf
<1>5. LiteralsOf(ms, o) = Append(LiteralsOf(ls, o), l.value)
  BY <1>1, <1>2, LiteralsMore
<1> QED BY <1>4, <1>5

LEMMA RedirectKept ==
  ASSUME NEW ls, NEW ms, Growing(ls, ms), NEW n, n = Len(ls), NEW l, l = ms[n + 1], NEW it,
         ~(l.class = "redirect" /\ ItemOf(ls, n + 1) = it)
  PROVE  RedirectOf(ms, it) = RedirectOf(ls, it)
<1>1. OneMore(ls, ms) /\ n \in Nat /\ \A i \in 1 .. n : ms[i] = ls[i]
  BY DEF Growing, OneMore
<1>2. InItem(ls, "redirect", it) \subseteq 1 .. n /\ InItem(ms, "redirect", it) = InItem(ls, "redirect", it)
  <2>1. /\ InItem(ls, "redirect", it) \subseteq 1 .. n
        /\ InItem(ms, "redirect", it) =
          With(InItem(ls, "redirect", it), ms[n + 1].class = "redirect" /\ ItemOf(ls, n + 1) = it, n)
    BY <1>1, InItemMore
  <2> QED BY <2>1 DEF With
<1>3. PICK D : D = InItem(ls, "redirect", it)
  OBVIOUS
<1>4. CASE D = {}
  BY <1>2, <1>3, <1>4 DEF RedirectOf
<1>5. CASE D # {}
  <2>1. PICK j : j = CHOOSE i \in D : TRUE
    OBVIOUS
  <2>2. j \in 1 .. n /\ j \in 1 .. n + 1
    BY <1>1, <1>2, <1>3, <1>5, <2>1
  <2>3. ms[j] = ls[j] /\ CommentsAbove(ms, j) = CommentsAbove(ls, j)
    BY <1>1, <2>2, CommentsKept
  <2>4. RedirectOf(ls, it) = <<ls[j].name, NamedInstead(CommentsAbove(ls, j))>>
    BY <1>3, <1>5, <2>1 DEF RedirectOf
  <2>5. RedirectOf(ms, it) = <<ms[j].name, NamedInstead(CommentsAbove(ms, j))>>
    BY <1>2, <1>3, <1>5, <2>1 DEF RedirectOf
  <2> QED BY <2>3, <2>4, <2>5
<1> QED BY <1>4, <1>5

LEMMA RedirectSet ==
  ASSUME NEW ls, NEW ms, Growing(ls, ms), NEW n, n = Len(ls), NEW l, l = ms[n + 1], l.class = "redirect",
         NEW it, it = ItemOf(ls, n + 1), InItem(ls, "redirect", it) = {}
  PROVE  RedirectOf(ms, it) = <<l.name, NamedInstead(CommentsAbove(ls, n + 1))>>
<1>1. OneMore(ls, ms) /\ n \in Nat /\ n + 1 \in 1 .. n + 1
  BY DEF Growing, OneMore
<1>2. InItem(ms, "redirect", it) = {n + 1}
  <2>1. InItem(ms, "redirect", it) =
          With(InItem(ls, "redirect", it), ms[n + 1].class = "redirect" /\ ItemOf(ls, n + 1) = it, n)
    BY <1>1, InItemMore
  <2> QED BY <2>1 DEF With
<1>3. RedirectOf(ms, it) = <<ms[n + 1].name, NamedInstead(CommentsAbove(ms, n + 1))>>
  BY <1>2 DEF RedirectOf
<1>4. CommentsAbove(ms, n + 1) = CommentsAbove(ls, n + 1)
  BY <1>1, CommentsKept
<1> QED BY <1>3, <1>4

-----------------------------------------------------------------------------
(* Items: what the line itself says, and the parts that lines below add.    *)
Parts4(h, e, r, p, q, s) ==
  [h EXCEPT !.enum = e, !.redirect = r, !.parameters = p, !.returns = q, !.properties = s]

ItemDomain ==
  {"name", "flags", "circular", "desc", "typ", "redirect", "enum", "parameters", "returns", "properties"}

LEMMA PartsAre ==
  ASSUME NEW h, DOMAIN h = ItemDomain, NEW e, NEW r, NEW p, NEW q, NEW s, NEW t, t = Parts4(h, e, r, p, q, s)
  PROVE  /\ DOMAIN t = ItemDomain /\ t = [x \in ItemDomain |-> t[x]]
         /\ t.enum = e /\ t.redirect = r /\ t.parameters = p /\ t.returns = q /\ t.properties = s
         /\ t.name = h.name /\ t.flags = h.flags /\ t.circular = h.circular /\ t.desc = h.desc /\ t.typ = h.typ
  BY DEF Parts4, ItemDomain

LEMMA PartsEnum ==
  ASSUME NEW h, DOMAIN h = ItemDomain, NEW e, NEW r, NEW p, NEW q, NEW s, NEW f
  PROVE  Parts4(h, f, r, p, q, s) = WithEnum(Parts4(h, e, r, p, q, s), f)
  BY DEF Parts4, WithEnum, ItemDomain

LEMMA PartsRedirect ==
  ASSUME NEW h, DOMAIN h = ItemDomain, NEW e, NEW r, NEW p, NEW q, NEW s, NEW f
  PROVE  Parts4(h, e, f, p, q, s) = [Parts4(h, e, r, p, q, s) EXCEPT !.redirect = f]
  BY DEF Parts4, ItemDomain

LEMMA PartsParameters ==
  ASSUME NEW h, DOMAIN h = ItemDomain, NEW e, NEW r, NEW p, NEW q, NEW s, NEW f
  PROVE  Parts4(h, e, r, f, q, s) = [Parts4(h, e, r, p, q, s) EXCEPT !["parameters"] = f]
  BY DEF Parts4, ItemDomain

LEMMA PartsReturns ==
  ASSUME NEW h, DOMAIN h = ItemDomain, NEW e, NEW r, NEW p, NEW q, NEW s, NEW f
  PROVE  Parts4(h, e, r, p, f, s) = [Parts4(h, e, r, p, q, s) EXCEPT !["returns"] = f]
  BY DEF Parts4, ItemDomain

LEMMA PartsProperties ==
  ASSUME NEW h, DOMAIN h = ItemDomain, NEW e, NEW r, NEW p, NEW q, NEW s, NEW f
  PROVE  Parts4(h, e, r, p, q, f) = [Parts4(h, e, r, p, q, s) EXCEPT !["properties"] = f]
  BY DEF Parts4, ItemDomain

LEMMA ItemParts ==
  ASSUME NEW ls, NEW it
  PROVE  MeaningOfItem(ls, it) =
           Parts4(ItemHead(ls, it), EnumOf(ls, it), RedirectOf(ls, it), MembersOf(ls, it, "parameters"),
                  MembersOf(ls, it, "returns"), MembersOf(ls, it, "properties"))
  BY Zenon DEF MeaningOfItem, Parts4, ItemHead

LEMMA ItemIs ==
  ASSUME NEW ls, NEW it, NEW t, t = MeaningOfItem(ls, it)
  PROVE  /\ t = Parts4(ItemHead(ls, it), EnumOf(ls, it), RedirectOf(ls, it), MembersOf(ls, it, "parameters"),
                       MembersOf(ls, it, "returns"), MembersOf(ls, it, "properties"))
         /\ DOMAIN ItemHead(ls, it) = ItemDomain /\ DOMAIN t = ItemDomain /\ t = [x \in ItemDomain |-> t[x]]
         /\ t.enum = EnumOf(ls, it) /\ t.redirect = RedirectOf(ls, it)
         /\ \A c \in Sections : t[c] = MembersOf(ls, it, c)
<1>1. PICK h, e, r, p, q, s : /\ h = ItemHead(ls, it) /\ e = EnumOf(ls, it) /\ r = RedirectOf(ls, it)
                              /\ p = MembersOf(ls, it, "parameters") /\ q = MembersOf(ls, it, "returns")
                              /\ s = MembersOf(ls, it, "properties")
  OBVIOUS
<1>2. t = Parts4(h, e, r, p, q, s)
  BY <1>1, Zenon DEF MeaningOfItem, Parts4, ItemHead
<1>3. DOMAIN h = ItemDomain
  BY <1>1, HeadsAre DEF ItemHead, ItemDomain
<1>4. /\ DOMAIN t = ItemDomain /\ t = [x \in ItemDomain |-> t[x]]
      /\ t.enum = e /\ t.redirect = r /\ t.parameters = p /\ t.returns = q /\ t.properties = s
  BY <1>2, <1>3, PartsAre
<1>5. \A c \in Sections : t[c] = MembersOf(ls, it, c)
  BY <1>1, <1>4 DEF Sections
<1> QED BY <1>1, <1>2, <1>3, <1>4, <1>5

(* What the lines below add to an item, but for one part, is as it was.     *)
SameEnum(ls, ms, it) == EnumOf(ms, it) = EnumOf(ls, it)
SameRedirect(ls, ms, it) == RedirectOf(ms, it) = RedirectOf(ls, it)
SameMembers(ls, ms, it, c) == MembersOf(ms, it, c) = MembersOf(ls, it, c)

LEMMA ItemSame ==
  ASSUME NEW ls, NEW ms, NEW it, ItemHead(ms, it) = ItemHead(ls, it),
         SameEnum(ls, ms, it), SameRedirect(ls, ms, it), \A c \in Sections : SameMembers(ls, ms, it, c)
  PROVE  MeaningOfItem(ms, it) = MeaningOfItem(ls, it)
<1>1. /\ MembersOf(ms, it, "parameters") = MembersOf(ls, it, "parameters")
      /\ MembersOf(ms, it, "returns") = MembersOf(ls, it, "returns")
      /\ MembersOf(ms, it, "properties") = MembersOf(ls, it, "properties")
  BY DEF SameMembers, Sections
<1>2. EnumOf(ms, it) = EnumOf(ls, it) /\ RedirectOf(ms, it) = RedirectOf(ls, it)
  BY DEF SameEnum, SameRedirect
<1> QED BY <1>1, <1>2, ItemParts, Zenon

LEMMA ItemEnum ==
  ASSUME NEW ls, NEW ms, NEW it, ItemHead(ms, it) = ItemHead(ls, it),
         SameRedirect(ls, ms, it), \A c \in Sections : SameMembers(ls, ms, it, c)
  PROVE  MeaningOfItem(ms, it) = WithEnum(MeaningOfItem(ls, it), EnumOf(ms, it))
<1>1. PICK h, e, r, p, q, s : /\ h = ItemHead(ls, it) /\ e = EnumOf(ls, it) /\ r = RedirectOf(ls, it)
                              /\ p = MembersOf(ls, it, "parameters") /\ q = MembersOf(ls, it, "returns")
                              /\ s = MembersOf(ls, it, "properties")
  OBVIOUS
<1>2. PICK f : f = EnumOf(ms, it)
  OBVIOUS
<1>3. MeaningOfItem(ls, it) = Parts4(h, e, r, p, q, s) /\ DOMAIN h = ItemDomain
  BY <1>1, ItemIs, Zenon
<1>4. /\ MembersOf(ms, it, "parameters") = p /\ MembersOf(ms, it, "returns") = q /\ MembersOf(ms, it, "properties") = s
  BY <1>1 DEF SameMembers, Sections
<1>5. MeaningOfItem(ms, it) = Parts4(h, f, r, p, q, s)
  <2>1. RedirectOf(ms, it) = r
    BY <1>1 DEF SameRedirect
  <2> QED BY <1>1, <1>2, <1>4, <2>1, ItemParts, Zenon
<1> QED BY <1>2, <1>3, <1>5, PartsEnum

LEMMA ItemRedirect ==
  ASSUME NEW ls, NEW ms, NEW it, ItemHead(ms, it) = ItemHead(ls, it),
         SameEnum(ls, ms, it), \A c \in Sections : SameMembers(ls, ms, it, c)
  PROVE  MeaningOfItem(ms, it) = [MeaningOfItem(ls, it) EXCEPT !.redirect = RedirectOf(ms, it)]
<1>1. PICK h, e, r, p, q, s : /\ h = ItemHead(ls, it) /\ e = EnumOf(ls, it) /\ r = RedirectOf(ls, it)
                              /\ p = MembersOf(ls, it, "parameters") /\ q = MembersOf(ls, it, "returns")
                              /\ s = MembersOf(ls, it, "properties")
  OBVIOUS
<1>2. PICK f : f = RedirectOf(ms, it)
  OBVIOUS
<1>3. MeaningOfItem(ls, it) = Parts4(h, e, r, p, q, s) /\ DOMAIN h = ItemDomain
  BY <1>1, ItemIs, Zenon
<1>4. /\ MembersOf(ms, it, "parameters") = p /\ MembersOf(ms, it, "returns") = q /\ MembersOf(ms, it, "properties") = s
  BY <1>1 DEF SameMembers, Sections
<1>5. MeaningOfItem(ms, it) = Parts4(h, e, f, p, q, s)
  <2>1. EnumOf(ms, it) = e
    BY <1>1 DEF SameEnum
  <2> QED BY <1>1, <1>2, <1>4, <2>1, ItemParts, Zenon
<1> QED BY <1>2, <1>3, <1>5, PartsRedirect

LEMMA ItemMembers ==
  ASSUME NEW ls, NEW ms, NEW it, ItemHead(ms, it) = ItemHead(ls, it), NEW c \in Sections,
         SameEnum(ls, ms, it), SameRedirect(ls, ms, it), \A b \in Sections \ {c} : SameMembers(ls, ms, it, b)
  PROVE  MeaningOfItem(ms, it) = [MeaningOfItem(ls, it) EXCEPT ![c] = MembersOf(ms, it, c)]
<1>1. PICK h, e, r, p, q, s : /\ h = ItemHead(ls, it) /\ e = EnumOf(ls, it) /\ r = RedirectOf(ls, it)
                              /\ p = MembersOf(ls, it, "parameters") /\ q = MembersOf(ls, it, "returns")
                              /\ s = MembersOf(ls, it, "properties")
  OBVIOUS
<1>2. PICK f : f = MembersOf(ms, it, c)
  OBVIOUS
<1>3. MeaningOfItem(ls, it) = Parts4(h, e, r, p, q, s) /\ DOMAIN h = ItemDomain
  BY <1>1, ItemIs, Zenon
<1>4. EnumOf(ms, it) = e /\ RedirectOf(ms, it) = r
  BY <1>1 DEF SameEnum, SameRedirect
<1>5. PICK p2, q2, s2 : /\ p2 = MembersOf(ms, it, "parameters") /\ q2 = MembersOf(ms, it, "returns")
                        /\ s2 = MembersOf(ms, it, "properties")
  OBVIOUS
<1>6. MeaningOfItem(ms, it) = Parts4(h, e, r, p2, q2, s2)
  BY <1>1, <1>4, <1>5, ItemIs, Zenon
<1>7. /\ c # "parameters" => p2 = p
      /\ c # "returns" => q2 = q
      /\ c # "properties" => s2 = s
  BY <1>1, <1>5 DEF SameMembers, Sections
<1>8. CASE c = "parameters"
  <2>1. p2 = f /\ q2 = q /\ s2 = s
    BY <1>2, <1>5, <1>7, <1>8
  <2>2. Parts4(h, e, r, f, q, s) = [Parts4(h, e, r, p, q, s) EXCEPT !["parameters"] = f]
    BY <1>3, PartsParameters
  <2>3. Parts4(h, e, r, p2, q2, s2) = Parts4(h, e, r, f, q, s)
    BY <2>1, Zenon
  <2> QED BY <1>2, <1>3, <1>6, <1>8, <2>2, <2>3, Zenon
<1>9. CASE c = "returns"
  <2>1. p2 = p /\ q2 = f /\ s2 = s
    BY <1>2, <1>5, <1>7, <1>9
  <2>2. Parts4(h, e, r, p, f, s) = [Parts4(h, e, r, p, q, s) EXCEPT !["returns"] = f]
    BY <1>3, PartsReturns
  <2>3. Parts4(h, e, r, p2, q2, s2) = Parts4(h, e, r, p, f, s)
    BY <2>1, Zenon
  <2> QED BY <1>2, <1>3, <1>6, <1>9, <2>2, <2>3, Zenon
<1>10. CASE c = "properties"
  <2>1. p2 = p /\ q2 = q /\ s2 = f
    BY <1>2, <1>5, <1>7, <1>10
  <2>2. Parts4(h, e, r, p, q, f) = [Parts4(h, e, r, p, q, s) EXCEPT !["properties"] = f]
    BY <1>3, PartsProperties
  <2>3. Parts4(h, e, r, p2, q2, s2) = Parts4(h, e, r, p, q, f)
    BY <2>1, Zenon
  <2> QED BY <1>2, <1>3, <1>6, <1>10, <2>2, <2>3, Zenon
<1> QED BY <1>8, <1>9, <1>10 DEF Sections

-----------------------------------------------------------------------------
(* The items that the new line says nothing of.                            *)
PartLines == {"member", "enum", "redirect", "literal"}

(* A literal is below its owner's item. *)
LiteralsInItem(ls, l) == l.class = "literal" => ItemOf(ls, Len(ls) + 1) < OwnerOf(ls, Len(ls) + 1)

LEMMA ItemKept ==
  ASSUME NEW ls, NEW ms, Growing(ls, ms), NEW n, n = Len(ls), NEW l, l = ms[n + 1], LiteralsInItem(ls, l),
         NEW it \in 1 .. n, IsItem(ls[it]), it # ItemOf(ls, n + 1) \/ l.class \notin PartLines
  PROVE  MeaningOfItem(ms, it) = MeaningOfItem(ls, it)
<1>1. OneMore(ls, ms) /\ n \in Nat /\ IsSeq(ls) /\ n + 1 \in 1 .. n + 1
  BY DEF Growing, OneMore
<1>2. ItemHead(ms, it) = ItemHead(ls, it)
  BY HeadsKept
<1>3. PICK o : o = OwnerOf(ls, n + 1)
  OBVIOUS
<1>4. ASSUME l.class = "literal" PROVE ItemOf(ls, o) # it
  <2>1. ItemOf(ls, n + 1) < o /\ it # ItemOf(ls, n + 1)
    BY <1>3, <1>4 DEF LiteralsInItem, PartLines
  <2>2. o \in 0 .. n /\ ItemOf(ls, n + 1) \in 0 .. n
    BY <1>1, <1>3, OwnerAbove
  <2>3. o \in 1 .. n + 1
    BY <1>1, <2>1, <2>2
  <2>4. ItemOf(ls, o) = ItemOf(ls, n + 1)
    BY <1>1, <2>1, <2>3, OwnersBetween
  <2> QED BY <2>1, <2>4
<1>5. SameEnum(ls, ms, it)
  <2>1. ~(l.class = "enum" /\ ItemOf(ls, n + 1) = it)
    BY DEF PartLines
  <2>2. ~(l.class = "literal" /\ OwnerOf(ls, n + 1) \in InItem(ls, "enum", it))
    BY <1>3, <1>4 DEF InItem
  <2> QED BY <2>1, <2>2, EnumKept DEF SameEnum
<1>6. SameRedirect(ls, ms, it)
  <2>1. ~(l.class = "redirect" /\ ItemOf(ls, n + 1) = it)
    BY DEF PartLines
  <2> QED BY <2>1, RedirectKept DEF SameRedirect
<1>7. ASSUME NEW c \in Sections PROVE SameMembers(ls, ms, it, c)
  <2>1. ~(l.class = "member" /\ ItemOf(ls, n + 1) = it /\ ls[SectionOf(ls, n + 1)].class = c)
    BY DEF PartLines
  <2>2. ~(l.class = "literal" /\ OwnerOf(ls, n + 1) \in InSection(ls, it, c))
    BY <1>3, <1>4 DEF InItem, InSection
  <2> QED BY <2>1, <2>2, MembersKept DEF SameMembers
<1> QED BY <1>2, <1>5, <1>6, <1>7, ItemSame

(* The new line is itself an item. *)
LEMMA ItemNew ==
  ASSUME NEW ls, NEW ms, Growing(ls, ms), NEW n, n = Len(ls), NEW l, l = ms[n + 1], IsItem(l)
  PROVE  MeaningOfItem(ms, n + 1) = NewType(ls[DomainOf(ls, n + 1)].name, l, TypeOf(l), CommentsAbove(ls, n + 1))
<1>1. OneMore(ls, ms) /\ n \in Nat /\ IsSeq(ms) /\ Len(ms) = n + 1 /\ n + 1 \in 1 .. n + 1
  BY DEF Growing, OneMore
<1>2. ASSUME NEW c PROVE InItem(ms, c, n + 1) = {}
  <2>1. ASSUME NEW j \in InItem(ms, c, n + 1) PROVE FALSE
    <3>1. j \in 1 .. n + 1 /\ ItemOf(ms, j) = n + 1
      BY <1>1 DEF InItem, AllOf
    <3>2. ItemOf(ms, j) = ItemOf(ls, j) /\ ItemOf(ls, j) \in 0 .. n
      BY <1>1, <3>1, OwnersKept, OwnerAbove
    <3> QED BY <1>1, <3>1, <3>2
  <2> QED BY <2>1
<1>3. \A c : MembersOf(ms, n + 1, c) = <<>>
  BY <1>1, <1>2, NoMembers DEF InSection
<1>4. EnumOf(ms, n + 1) = <<>> /\ RedirectOf(ms, n + 1) = <<>>
  BY <1>2 DEF EnumOf, RedirectOf
<1>5. PICK h, t : h = ItemHead(ms, n + 1) /\ t = MeaningOfItem(ms, n + 1)
  OBVIOUS
<1>6. t = Parts4(h, <<>>, <<>>, <<>>, <<>>, <<>>)
  BY <1>3, <1>4, <1>5, ItemParts, Zenon
<1>7. DomainOf(ms, n + 1) = DomainOf(ls, n + 1) /\ CommentsAbove(ms, n + 1) = CommentsAbove(ls, n + 1)
  BY <1>1, OwnersKept, CommentsKept
<1>8. ms[DomainOf(ls, n + 1)] = ls[DomainOf(ls, n + 1)]
  <2>1. DomainOf(ms, n + 1) # 0
    BY <1>1 DEF Growing, Owned
  <2> QED BY <1>1, <1>7, <2>1, OwnerAbove
<1>9. h = NewType(ls[DomainOf(ls, n + 1)].name, l, TypeOf(l), CommentsAbove(ls, n + 1))
  BY <1>5, <1>7, <1>8, Zenon DEF ItemHead
<1>10. Parts4(h, <<>>, <<>>, <<>>, <<>>, <<>>) = h
  <2>1. DOMAIN h = ItemDomain /\ h.enum = <<>> /\ h.redirect = <<>> /\ \A c \in Sections : h[c] = <<>>
    BY <1>9, HeadsAre DEF ItemDomain
  <2>2. h = [x \in ItemDomain |-> h[x]]
    BY <1>9 DEF NewType, ItemDomain
  <2> QED BY <2>1, <2>2 DEF Parts4, Sections, ItemDomain
<1> QED BY <1>5, <1>6, <1>9, <1>10

-----------------------------------------------------------------------------
(* What the new line adds to the item that it is below.                    *)
LEMMA ItemAbove ==
  ASSUME NEW ls, NEW ms, Growing(ls, ms), NEW n, n = Len(ls), NEW it, it = ItemOf(ls, n + 1), it # 0
  PROVE  it \in 1 .. n /\ IsItem(ls[it]) /\ ItemHead(ms, it) = ItemHead(ls, it) /\ \A j \in 1 .. n : IsItem(ls[j]) => j <= it
<1>1. OneMore(ls, ms) /\ n \in Nat /\ IsSeq(ls) /\ n + 1 \in 1 .. n + 1
  BY DEF Growing, OneMore
<1>2. Nearest(ItemOf(ls, n + 1), ItemsIn(ls), n + 1)
  BY <1>1, OwnersAre
<1>3. it \in ItemsIn(ls) /\ \A j \in ItemsIn(ls) : j < n + 1 => j <= it
  BY <1>2 DEF Nearest
<1>4. it \in 1 .. n /\ IsItem(ls[it])
  BY <1>3 DEF ItemsIn
<1>5. \A j \in 1 .. n : IsItem(ls[j]) => j \in ItemsIn(ls) /\ j < n + 1
  BY <1>1 DEF ItemsIn
<1> QED BY <1>3, <1>4, <1>5, HeadsKept

LEMMA SectionAbove ==
  ASSUME NEW ls, NEW ms, Growing(ls, ms), NEW n, n = Len(ls), NEW s, s = SectionOf(ls, n + 1), s # 0
  PROVE  s \in 1 .. n /\ IsSection(ls[s]) /\ ls[s].class \in Sections
<1>1. OneMore(ls, ms) /\ n \in Nat /\ IsSeq(ls) /\ n + 1 \in 1 .. n + 1
  BY DEF Growing, OneMore
<1>2. Nearest(SectionOf(ls, n + 1), SectionsIn(ls), n + 1)
  BY <1>1, OwnersAre
<1>3. s \in SectionsIn(ls)
  BY <1>2 DEF Nearest
<1> QED BY <1>3 DEF SectionsIn, IsSection

MemberBelow(ls, ms, n, l, it, c, t) ==
  /\ Growing(ls, ms) /\ n = Len(ls) /\ l = ms[n + 1] /\ l.class = "member"
  /\ it = ItemOf(ls, n + 1) /\ it # 0 /\ c \in Sections /\ c = ls[SectionOf(ls, n + 1)].class
  /\ t = MeaningOfItem(ls, it)

LEMMA ChangedMember ==
  ASSUME NEW ls, NEW ms, NEW n, NEW l, NEW it, NEW c, NEW t, MemberBelow(ls, ms, n, l, it, c, t)
  PROVE  MeaningOfItem(ms, it) = [t EXCEPT ![c] = Append(t[c], MeaningOfMember(ms, n + 1))]
<1> SUFFICES ASSUME Growing(ls, ms), n = Len(ls), l = ms[n + 1], l.class = "member",
                    it = ItemOf(ls, n + 1), it # 0, c \in Sections, c = ls[SectionOf(ls, n + 1)].class,
                    t = MeaningOfItem(ls, it)
             PROVE  MeaningOfItem(ms, it) = [t EXCEPT ![c] = Append(t[c], MeaningOfMember(ms, n + 1))]
  BY DEF MemberBelow
<1>1. ItemHead(ms, it) = ItemHead(ls, it)
  BY ItemAbove
<1>2. SameEnum(ls, ms, it)
  BY EnumKept DEF SameEnum
<1>3. SameRedirect(ls, ms, it)
  BY RedirectKept DEF SameRedirect
<1>4. ASSUME NEW b \in Sections \ {c} PROVE SameMembers(ls, ms, it, b)
  BY <1>4, MembersKept DEF SameMembers
<1>5. MembersOf(ms, it, c) = Append(MembersOf(ls, it, c), MeaningOfMember(ms, n + 1))
  BY MembersAppended
<1>6. MembersOf(ls, it, c) = t[c]
  BY ItemIs
<1>7. MeaningOfItem(ms, it) = [MeaningOfItem(ls, it) EXCEPT ![c] = MembersOf(ms, it, c)]
  BY <1>1, <1>2, <1>3, <1>4, ItemMembers
<1> QED BY <1>5, <1>6, <1>7, Zenon

LEMMA ChangedEnum ==
  ASSUME NEW ls, NEW ms, Growing(ls, ms), NEW n, n = Len(ls), NEW l, l = ms[n + 1], l.class = "enum",
         NEW it, it = ItemOf(ls, n + 1), it # 0, InItem(ls, "enum", it) = {},
         NEW t, t = MeaningOfItem(ls, it)
  PROVE  MeaningOfItem(ms, it) = WithEnum(t, <<>>)
<1>1. ItemHead(ms, it) = ItemHead(ls, it)
  BY ItemAbove
<1>2. EnumOf(ms, it) = <<>>
  BY EnumStarts
<1>3. SameRedirect(ls, ms, it)
  BY RedirectKept DEF SameRedirect
<1>4. ASSUME NEW b \in Sections PROVE SameMembers(ls, ms, it, b)
  BY <1>4, MembersKept DEF SameMembers
<1>5. MeaningOfItem(ms, it) = WithEnum(MeaningOfItem(ls, it), EnumOf(ms, it))
  BY <1>1, <1>3, <1>4, ItemEnum
<1> QED BY <1>2, <1>5, Zenon

LEMMA ChangedRedirect ==
  ASSUME NEW ls, NEW ms, Growing(ls, ms), NEW n, n = Len(ls), NEW l, l = ms[n + 1], l.class = "redirect",
         NEW it, it = ItemOf(ls, n + 1), it # 0, InItem(ls, "redirect", it) = {},
         NEW t, t = MeaningOfItem(ls, it)
  PROVE  MeaningOfItem(ms, it) = [t EXCEPT !.redirect = <<l.name, NamedInstead(CommentsAbove(ls, n + 1))>>]
<1>1. ItemHead(ms, it) = ItemHead(ls, it)
  BY ItemAbove
<1>2. SameEnum(ls, ms, it)
  BY EnumKept DEF SameEnum
<1>3. PICK r : r = <<l.name, NamedInstead(CommentsAbove(ls, n + 1))>>
  OBVIOUS
<1>4. RedirectOf(ms, it) = r
  BY <1>3, RedirectSet
<1>5. ASSUME NEW b \in Sections PROVE SameMembers(ls, ms, it, b)
  BY <1>5, MembersKept DEF SameMembers
<1>6. MeaningOfItem(ms, it) = [MeaningOfItem(ls, it) EXCEPT !.redirect = RedirectOf(ms, it)]
  BY <1>1, <1>2, <1>5, ItemRedirect
<1> QED BY <1>3, <1>4, <1>6, Zenon

(* Every member is below the section it belongs to, within their item.      *)
LEMMA SectionEmpty ==
  ASSUME NEW ls, IsSeq(ls), Owned(ls), NEW it, NEW c \in Sections, InItem(ls, c, it) = {}
  PROVE  InSection(ls, it, c) = {}
<1>1. PICK n : n = Len(ls) /\ n \in Nat
  BY SeqFacts
<1>2. ASSUME NEW j \in InSection(ls, it, c) PROVE FALSE
  <2>1. j \in 1 .. n /\ ls[j].class = "member" /\ ItemOf(ls, j) = it /\ ls[SectionOf(ls, j)].class = c
    BY <1>1 DEF InSection, InItem, AllOf
  <2>2. ItemOf(ls, j) < SectionOf(ls, j)
    BY <1>1, <2>1 DEF Owned
  <2>3. PICK s : s = SectionOf(ls, j)
    OBVIOUS
  <2>4. PICK j1 : j1 \in 1 .. n + 1 /\ j1 = j
    BY <1>1, <2>1
  <2>5. Nearest(it, ItemsIn(ls), j) /\ Nearest(s, SectionsIn(ls), j)
    BY <1>1, <2>1, <2>3, <2>4, OwnersAre
  <2>6. it \in 0 .. j - 1 /\ s \in 0 .. j - 1 /\ it < s /\ (it # 0 => it \in ItemsIn(ls))
        /\ \A i \in ItemsIn(ls) : i < j => i <= it
    BY <2>1, <2>2, <2>3, <2>5 DEF Nearest
  <2>7. s \in 1 .. n /\ s < j
    BY <1>1, <2>1, <2>6
  <2>8. ItemOf(ls, s) = it
    <3>1. PICK K : K = ItemsIn(ls)
      OBVIOUS
    <3>2. K \subseteq 1 .. n
      BY <1>1, <3>1, KindsIn
    <3>3. it \in 0 .. s - 1
      BY <2>6, <2>7
    <3>4. \A i \in K : i < s => i <= it
      <4>1. ASSUME NEW i \in K, i < s PROVE i <= it
        <5>1. i \in 1 .. n
          BY <3>2
        <5>2. i < j
          BY <1>1, <2>1, <2>7, <4>1, <5>1
        <5> QED BY <2>6, <3>1, <5>2
      <4> QED BY <4>1
    <3>5. Nearest(it, K, s)
      BY <2>6, <3>1, <3>3, <3>4 DEF Nearest
    <3>6. LastBelow(K, s) = it
      <4>1. s \in 1 .. n + 2
        BY <1>1, <2>7
      <4> QED BY <1>1, <3>2, <3>5, <4>1, NearestOne
    <3>7. s \in 1 .. n + 1
      BY <1>1, <2>7
    <3> QED BY <1>1, <3>1, <3>6, <3>7, AboveLine
  <2>9. s \in InItem(ls, c, it)
    BY <1>1, <2>1, <2>3, <2>7, <2>8 DEF InItem, AllOf
  <2> QED BY <2>9
<1> QED BY <1>2

LEMMA OwnedBefore == ASSUME NEW ls, NEW ms, Growing(ls, ms) PROVE Owned(ls)
<1>1. PICK n : n = Len(ls)
  OBVIOUS
<1>2. OneMore(ls, ms) /\ n \in Nat /\ Len(ms) = n + 1 /\ \A i \in 1 .. n : i \in 1 .. n + 1 /\ ms[i] = ls[i]
  BY <1>1 DEF Growing, OneMore
<1>3. \A j \in 1 .. n + 1 : DomainOf(ms, j) = DomainOf(ls, j) /\ ItemOf(ms, j) = ItemOf(ls, j)
                               /\ SectionOf(ms, j) = SectionOf(ls, j)
  BY <1>1, <1>2, OwnersKept
<1> QED BY <1>1, <1>2, <1>3 DEF Growing, Owned

LEMMA ChangedSection ==
  ASSUME NEW ls, NEW ms, Growing(ls, ms), NEW n, n = Len(ls), NEW l, l = ms[n + 1],
         NEW c \in Sections, l.class = c,
         NEW it, it = ItemOf(ls, n + 1), it # 0, InItem(ls, c, it) = {},
         NEW t, t = MeaningOfItem(ls, it)
  PROVE  MeaningOfItem(ms, it) = [t EXCEPT ![c] = <<>>]
<1>1. IsSeq(ls) /\ Owned(ls)
  BY OwnedBefore DEF Growing, OneMore
<1>2. t[c] = <<>>
  <2>1. MembersOf(ls, it, c) = <<>>
    BY <1>1, SectionEmpty, NoMembers
  <2> QED BY <2>1, ItemIs
<1>3. MeaningOfItem(ms, it) = t
  <2>1. l.class \notin PartLines /\ LiteralsInItem(ls, l)
    BY DEF PartLines, LiteralsInItem, Sections
  <2>2. it \in 1 .. n /\ IsItem(ls[it])
    BY ItemAbove
  <2> QED BY <2>1, <2>2, ItemKept
<1>4. t = [x \in ItemDomain |-> t[x]] /\ c \in ItemDomain
  <2>1. t = [x \in ItemDomain |-> t[x]]
    BY ItemIs
  <2> QED BY <2>1 DEF Sections, ItemDomain
<1>5. [t EXCEPT ![c] = <<>>] = t
  BY <1>2, <1>4
<1> QED BY <1>3, <1>5

LEMMA ChangedLiteral ==
  ASSUME NEW ls, NEW ms, Growing(ls, ms), NEW n, n = Len(ls), NEW l, l = ms[n + 1], l.class = "literal",
         NEW it, it = ItemOf(ls, n + 1), it # 0, InItem(ls, "enum", it) = {OwnerOf(ls, n + 1)},
         NEW t, t = MeaningOfItem(ls, it)
  PROVE  MeaningOfItem(ms, it) = WithEnum(t, Append(t.enum, l.value))
<1>1. ItemHead(ms, it) = ItemHead(ls, it)
  BY ItemAbove
<1>2. EnumOf(ms, it) = Append(EnumOf(ls, it), l.value)
  BY EnumLiteral
<1>3. SameRedirect(ls, ms, it)
  BY RedirectKept DEF SameRedirect
<1>4. PICK o : o = OwnerOf(ls, n + 1)
  OBVIOUS
<1>5. ls[o].class = "enum"
  BY <1>4 DEF InItem, AllOf
<1>6. ASSUME NEW b \in Sections PROVE SameMembers(ls, ms, it, b)
  <2>1. o \notin InSection(ls, it, b)
    BY <1>5 DEF InSection, InItem, AllOf
  <2> QED BY <1>4, <2>1, MembersKept DEF SameMembers
<1>7. MeaningOfItem(ms, it) = WithEnum(MeaningOfItem(ls, it), EnumOf(ms, it))
  BY <1>1, <1>3, <1>6, ItemEnum
<1>8. EnumOf(ls, it) = t.enum
  BY ItemIs
<1> QED BY <1>2, <1>7, <1>8, Zenon

LiteralBelow(ls, ms, n, l, it, c, o, t, k) ==
  /\ Growing(ls, ms) /\ n = Len(ls) /\ l = ms[n + 1] /\ l.class = "literal"
  /\ it = ItemOf(ls, n + 1) /\ it # 0 /\ c \in Sections
  /\ o = OwnerOf(ls, n + 1) /\ o \in InSection(ls, it, c) /\ \A j \in InSection(ls, it, c) : j <= o
  /\ t = MeaningOfItem(ls, it) /\ k = Len(t[c])

LEMMA ChangedMemberLiteral ==
  ASSUME NEW ls, NEW ms, NEW n, NEW l, NEW it, NEW c, NEW o, NEW t, NEW k,
         LiteralBelow(ls, ms, n, l, it, c, o, t, k)
  PROVE  /\ k # 0
         /\ MeaningOfItem(ms, it) =
              [t EXCEPT ![c] = Put(t[c], k, WithEnum(t[c][k], Append(t[c][k].enum, l.value)))]
<1> SUFFICES ASSUME Growing(ls, ms), n = Len(ls), l = ms[n + 1], l.class = "literal",
                    it = ItemOf(ls, n + 1), it # 0, c \in Sections,
                    o = OwnerOf(ls, n + 1), o \in InSection(ls, it, c), \A j \in InSection(ls, it, c) : j <= o,
                    t = MeaningOfItem(ls, it), k = Len(t[c])
             PROVE  k # 0 /\ MeaningOfItem(ms, it) =
                                [t EXCEPT ![c] = Put(t[c], k, WithEnum(t[c][k], Append(t[c][k].enum, l.value)))]
  BY DEF LiteralBelow
<1>1. ItemHead(ms, it) = ItemHead(ls, it)
  BY ItemAbove
<1>2. ls[o].class = "member" /\ ls[SectionOf(ls, o)].class = c
  BY DEF InSection, InItem, AllOf
<1>3. SameEnum(ls, ms, it)
  <2>1. o \notin InItem(ls, "enum", it)
    BY <1>2 DEF InItem, AllOf
  <2> QED BY <2>1, EnumKept DEF SameEnum
<1>4. SameRedirect(ls, ms, it)
  BY RedirectKept DEF SameRedirect
<1>5. ASSUME NEW b \in Sections \ {c} PROVE SameMembers(ls, ms, it, b)
  <2>1. o \notin InSection(ls, it, b)
    BY <1>2, <1>5 DEF InSection
  <2> QED BY <2>1, MembersKept DEF SameMembers
<1>6. PICK s : s = MembersOf(ls, it, c)
  OBVIOUS
<1>7. t[c] = s
  BY <1>6, ItemIs
<1>8. k = Len(s)
  BY <1>7
<1>9. k # 0 /\ MembersOf(ms, it, c) = Put(s, k, WithEnum(s[k], Append(s[k].enum, l.value)))
  BY <1>6, <1>8, MembersLiteral
<1>10. MeaningOfItem(ms, it) = [MeaningOfItem(ls, it) EXCEPT ![c] = MembersOf(ms, it, c)]
  BY <1>1, <1>3, <1>4, <1>5, ItemMembers
<1> QED BY <1>7, <1>9, <1>10, Zenon

-----------------------------------------------------------------------------
(* The items of a domain. *)
ItemsFunction(ls, d, c) == [j \in InDomain(ls, c, d) |-> MeaningOfItem(ls, j)]

LEMMA ItemsAre ==
  ASSUME NEW ls, NEW d, NEW c \in Items
  PROVE  /\ ItemsOf(ls, d, c) = Each(ls, ItemsFunction(ls, d, c))
         /\ DOMAIN ItemsFunction(ls, d, c) = InDomain(ls, c, d)
         /\ \A j \in InDomain(ls, c, d) :
              /\ ItemsFunction(ls, d, c)[j] = MeaningOfItem(ls, j) /\ j \in 1 .. Len(ls)
              /\ IsItem(ls[j]) /\ ls[j].class = c /\ DomainOf(ls, j) = d
<1>1. ItemsOf(ls, d, c) = Each(ls, ItemsFunction(ls, d, c))
  BY DEF ItemsOf, ItemsFunction
<1>2. \A j \in InDomain(ls, c, d) : j \in 1 .. Len(ls) /\ ls[j].class = c /\ DomainOf(ls, j) = d
  BY DEF InDomain, AllOf
<1>3. \A j \in InDomain(ls, c, d) : IsItem(ls[j])
  BY <1>2 DEF IsItem
<1> QED BY <1>1, <1>2, <1>3 DEF ItemsFunction

LEMMA ItemsKept ==
  ASSUME NEW ls, NEW ms, Growing(ls, ms), NEW n, n = Len(ls), NEW l, l = ms[n + 1], LiteralsInItem(ls, l),
         NEW c \in Items, NEW d, ~(l.class = c /\ DomainOf(ls, n + 1) = d),
         l.class \notin PartLines \/ ItemOf(ls, n + 1) \notin InDomain(ls, c, d)
  PROVE  ItemsOf(ms, d, c) = ItemsOf(ls, d, c)
<1>1. OneMore(ls, ms) /\ n \in Nat
  BY DEF Growing, OneMore
<1>2. PICK D, E, f, g : /\ D = InDomain(ls, c, d) /\ E = InDomain(ms, c, d)
                        /\ f = ItemsFunction(ls, d, c) /\ g = ItemsFunction(ms, d, c)
  OBVIOUS
<1>3. D \subseteq 1 .. n /\ E = D
  <2>1. /\ InDomain(ls, c, d) \subseteq 1 .. n
        /\ InDomain(ms, c, d) = With(InDomain(ls, c, d), ms[n + 1].class = c /\ DomainOf(ls, n + 1) = d, n)
    BY <1>1, InDomainMore
  <2> QED BY <1>2, <2>1 DEF With
<1>4. DOMAIN f = D /\ DOMAIN g = E /\ (\A j \in D : f[j] = MeaningOfItem(ls, j) /\ IsItem(ls[j]))
      /\ \A j \in E : g[j] = MeaningOfItem(ms, j)
  BY <1>2, ItemsAre
<1>5. ASSUME NEW j \in D PROVE g[j] = f[j]
  <2>1. j # ItemOf(ls, n + 1) \/ l.class \notin PartLines
    BY <1>2, <1>5
  <2>2. MeaningOfItem(ms, j) = MeaningOfItem(ls, j)
    BY <1>3, <1>4, <2>1, ItemKept
  <2> QED BY <1>3, <1>4, <2>2
<1>6. n + 1 \notin D
  BY <1>1, <1>3
<1>7. Each(ms, g) = Each(ls, f)
  BY <1>1, <1>3, <1>4, <1>5, <1>6, EachKept
<1> QED BY <1>2, <1>7, ItemsAre

LEMMA ItemsAppended ==
  ASSUME NEW ls, NEW ms, Growing(ls, ms), NEW n, n = Len(ls), NEW l, l = ms[n + 1],
         NEW c \in Items, l.class = c, NEW d, d = DomainOf(ls, n + 1)
  PROVE  ItemsOf(ms, d, c) = Append(ItemsOf(ls, d, c), MeaningOfItem(ms, n + 1))
<1>1. OneMore(ls, ms) /\ n \in Nat
  BY DEF Growing, OneMore
<1>2. PICK D, E, f, g : /\ D = InDomain(ls, c, d) /\ E = InDomain(ms, c, d)
                        /\ f = ItemsFunction(ls, d, c) /\ g = ItemsFunction(ms, d, c)
  OBVIOUS
<1>3. D \subseteq 1 .. n /\ E = D \cup {n + 1}
  <2>1. /\ InDomain(ls, c, d) \subseteq 1 .. n
        /\ InDomain(ms, c, d) = With(InDomain(ls, c, d), ms[n + 1].class = c /\ DomainOf(ls, n + 1) = d, n)
    BY <1>1, InDomainMore
  <2> QED BY <1>2, <2>1 DEF With
<1>4. DOMAIN f = D /\ DOMAIN g = E /\ (\A j \in D : f[j] = MeaningOfItem(ls, j) /\ IsItem(ls[j]))
      /\ \A j \in E : g[j] = MeaningOfItem(ms, j)
  BY <1>2, ItemsAre
<1>5. l.class \notin PartLines /\ LiteralsInItem(ls, l)
  BY DEF Items, PartLines, LiteralsInItem
<1>6. ASSUME NEW j \in D PROVE g[j] = f[j]
  <2>1. MeaningOfItem(ms, j) = MeaningOfItem(ls, j)
    BY <1>3, <1>4, <1>5, ItemKept
  <2> QED BY <1>3, <1>4, <2>1
<1>7. Each(ms, g) = Append(Each(ls, f), g[n + 1])
  <2>1. DOMAIN f \subseteq 1 .. Len(ls) /\ DOMAIN g = DOMAIN f \cup {Len(ls) + 1} /\ \A j \in DOMAIN f : g[j] = f[j]
    BY <1>3, <1>4, <1>6
  <2> HIDE <1>4, <1>6
  <2> QED BY <1>1, <2>1, EachMore
<1>8. g[n + 1] = MeaningOfItem(ms, n + 1)
  BY <1>3, <1>4
<1> QED BY <1>2, <1>7, <1>8, ItemsAre

LEMMA ItemsLast ==
  ASSUME NEW ls, NEW ms, Growing(ls, ms), NEW n, n = Len(ls), NEW l, l = ms[n + 1], LiteralsInItem(ls, l),
         ~IsItem(l),
         NEW it, it = ItemOf(ls, n + 1), NEW d, d = DomainOf(ls, n + 1), d < it,
         NEW c \in Items, c = ls[it].class, NEW s, s = ItemsOf(ls, d, c), NEW k, k = Len(s)
  PROVE  /\ it \in InDomain(ls, c, d) /\ k # 0 /\ s[k] = MeaningOfItem(ls, it)
         /\ ItemsOf(ms, d, c) = Put(s, k, MeaningOfItem(ms, it))
<1>1. OneMore(ls, ms) /\ n \in Nat /\ IsSeq(ls) /\ n + 1 \in 1 .. n + 1
  BY DEF Growing, OneMore
<1>2. PICK D, E, f, g : /\ D = InDomain(ls, c, d) /\ E = InDomain(ms, c, d)
                        /\ f = ItemsFunction(ls, d, c) /\ g = ItemsFunction(ms, d, c)
  OBVIOUS
<1>3. l.class # c
  BY DEF IsItem
<1>4. D \subseteq 1 .. n /\ E = D
  <2>1. /\ InDomain(ls, c, d) \subseteq 1 .. n
        /\ InDomain(ms, c, d) = With(InDomain(ls, c, d), ms[n + 1].class = c /\ DomainOf(ls, n + 1) = d, n)
    BY <1>1, InDomainMore
  <2> QED BY <1>2, <1>3, <2>1 DEF With
<1>5. DOMAIN f = D /\ DOMAIN g = E /\ (\A j \in D : f[j] = MeaningOfItem(ls, j) /\ IsItem(ls[j]))
      /\ \A j \in E : g[j] = MeaningOfItem(ms, j)
  BY <1>2, ItemsAre
<1>6. it # 0 /\ d \in 0 .. n /\ it \in 0 .. n
  <2>1. d \in 0 .. n /\ it \in 0 .. n
    BY <1>1, OwnerAbove
  <2> QED BY <1>1, <2>1
<1>7. it \in 1 .. n /\ \A j \in 1 .. n : IsItem(ls[j]) => j <= it
  BY <1>6, ItemAbove
<1>8. it \in D /\ \A j \in D : j <= it
  <2>1. it \in 1 .. n + 1
    BY <1>1, <1>7
  <2>2. DomainOf(ls, it) = d
    BY <1>1, <2>1, OwnersBetween
  <2>3. it \in D
    BY <1>2, <1>7, <2>2 DEF InDomain, AllOf
  <2> QED BY <1>4, <1>5, <1>7, <2>3
<1>9. ASSUME NEW j \in D, j # it PROVE g[j] = f[j]
  <2>1. MeaningOfItem(ms, j) = MeaningOfItem(ls, j)
    BY <1>4, <1>5, <1>9, ItemKept
  <2> QED BY <1>4, <1>5, <2>1
<1>10. PICK e : e = Each(ls, f)
  OBVIOUS
<1>11. s = e
  BY <1>2, <1>10, ItemsAre
<1>12. /\ Len(e) \in Nat \ {0} /\ e[Len(e)] = f[it]
       /\ Each(ms, g) = Put(e, Len(e), g[it])
  <2>1. DOMAIN f \subseteq 1 .. Len(ls) /\ DOMAIN g = DOMAIN f
    BY <1>4, <1>5
  <2>2. it \in DOMAIN f /\ (\A i \in DOMAIN f : i <= it) /\ \A i \in DOMAIN f : i # it => g[i] = f[i]
    BY <1>5, <1>8, <1>9
  <2> HIDE <1>5, <1>8, <1>9
  <2> QED BY <1>1, <1>10, <2>1, <2>2, EachLast
<1>13. f[it] = MeaningOfItem(ls, it) /\ g[it] = MeaningOfItem(ms, it)
  BY <1>4, <1>5, <1>8
<1>14. ItemsOf(ms, d, c) = Each(ms, g)
  BY <1>2, ItemsAre
<1> QED BY <1>2, <1>8, <1>11, <1>12, <1>13, <1>14

-----------------------------------------------------------------------------
(* Domains: what the line itself says, and the parts that lines below add.  *)
DependsOf(ls, d) == Each(ls, [j \in InDomain(ls, "depends", d) |-> ls[j].name])

DomainHead(ls, d) == NewDomain(ls[d], CommentsAbove(ls, d))

Parts5(h, ps, ts, cs, es) ==
  [h EXCEPT !.dependencies = ps, !.types = ts, !.commands = cs, !.events = es]

DomainDomain == {"name", "flags", "desc", "dependencies", "types", "commands", "events"}

LEMMA DomainHeadIs ==
  ASSUME NEW l, NEW d
  PROVE  /\ DOMAIN NewDomain(l, d) = DomainDomain
         /\ NewDomain(l, d).dependencies = <<>> /\ \A c \in Items : NewDomain(l, d)[ListOf[c]] = <<>>
<1>1. DOMAIN NewDomain(l, d) = DomainDomain
  BY DEF NewDomain, DomainDomain
<1> QED BY <1>1 DEF NewDomain, Items, ListOf

LEMMA DomainParts ==
  ASSUME NEW ls, NEW d
  PROVE  MeaningOfDomain(ls, d) =
           Parts5(DomainHead(ls, d), DependsOf(ls, d), ItemsOf(ls, d, "type"),
                  ItemsOf(ls, d, "command"), ItemsOf(ls, d, "event"))
  BY Zenon DEF MeaningOfDomain, Parts5, DomainHead, DependsOf

LEMMA PartsOfDomain ==
  ASSUME NEW h, DOMAIN h = DomainDomain, NEW ps, NEW ts, NEW cs, NEW es, NEW t, t = Parts5(h, ps, ts, cs, es)
  PROVE  /\ DOMAIN t = DomainDomain /\ t = [x \in DomainDomain |-> t[x]]
         /\ t.dependencies = ps /\ t.types = ts /\ t.commands = cs /\ t.events = es
  BY DEF Parts5, DomainDomain

LEMMA DomainIs ==
  ASSUME NEW ls, NEW d, NEW t, t = MeaningOfDomain(ls, d)
  PROVE  /\ DOMAIN DomainHead(ls, d) = DomainDomain /\ DOMAIN t = DomainDomain /\ t = [x \in DomainDomain |-> t[x]]
         /\ t.dependencies = DependsOf(ls, d) /\ \A c \in Items : t[ListOf[c]] = ItemsOf(ls, d, c)
<1>1. PICK h, ps, ts, cs, es : /\ h = DomainHead(ls, d) /\ ps = DependsOf(ls, d) /\ ts = ItemsOf(ls, d, "type")
                               /\ cs = ItemsOf(ls, d, "command") /\ es = ItemsOf(ls, d, "event")
  OBVIOUS
<1>2. t = Parts5(h, ps, ts, cs, es)
  BY <1>1, DomainParts, Zenon
<1>3. DOMAIN h = DomainDomain
  BY <1>1, DomainHeadIs DEF DomainHead
<1>4. /\ DOMAIN t = DomainDomain /\ t = [x \in DomainDomain |-> t[x]]
      /\ t.dependencies = ps /\ t.types = ts /\ t.commands = cs /\ t.events = es
  BY <1>2, <1>3, PartsOfDomain
<1>5. \A c \in Items : t[ListOf[c]] = ItemsOf(ls, d, c)
  BY <1>1, <1>4 DEF Items, ListOf
<1> QED BY <1>1, <1>3, <1>4, <1>5

SameItems(ls, ms, d, c) == ItemsOf(ms, d, c) = ItemsOf(ls, d, c)

LEMMA DomainSame ==
  ASSUME NEW ls, NEW ms, NEW d, DomainHead(ms, d) = DomainHead(ls, d), DependsOf(ms, d) = DependsOf(ls, d),
         \A c \in Items : SameItems(ls, ms, d, c)
  PROVE  MeaningOfDomain(ms, d) = MeaningOfDomain(ls, d)
<1>1. /\ ItemsOf(ms, d, "type") = ItemsOf(ls, d, "type") /\ ItemsOf(ms, d, "command") = ItemsOf(ls, d, "command")
      /\ ItemsOf(ms, d, "event") = ItemsOf(ls, d, "event")
  BY DEF SameItems, Items
<1> QED BY <1>1, DomainParts, Zenon

LEMMA DomainDepends ==
  ASSUME NEW ls, NEW ms, NEW d, DomainHead(ms, d) = DomainHead(ls, d), \A c \in Items : SameItems(ls, ms, d, c)
  PROVE  MeaningOfDomain(ms, d) = [MeaningOfDomain(ls, d) EXCEPT !.dependencies = DependsOf(ms, d)]
<1>1. PICK h, ps, ts, cs, es : /\ h = DomainHead(ls, d) /\ ps = DependsOf(ls, d) /\ ts = ItemsOf(ls, d, "type")
                               /\ cs = ItemsOf(ls, d, "command") /\ es = ItemsOf(ls, d, "event")
  OBVIOUS
<1>2. PICK f : f = DependsOf(ms, d)
  OBVIOUS
<1>3. MeaningOfDomain(ls, d) = Parts5(h, ps, ts, cs, es)
  BY <1>1, DomainParts, Zenon
<1>4. DOMAIN h = DomainDomain
  BY <1>1, DomainHeadIs DEF DomainHead
<1>5. ItemsOf(ms, d, "type") = ts /\ ItemsOf(ms, d, "command") = cs /\ ItemsOf(ms, d, "event") = es
  BY <1>1 DEF SameItems, Items
<1>6. MeaningOfDomain(ms, d) = Parts5(h, f, ts, cs, es)
  BY <1>1, <1>2, <1>5, DomainParts, Zenon
<1>7. Parts5(h, f, ts, cs, es) = [Parts5(h, ps, ts, cs, es) EXCEPT !.dependencies = f]
  BY <1>4 DEF Parts5, DomainDomain
<1> QED BY <1>2, <1>3, <1>6, <1>7, Zenon

LEMMA DomainItems ==
  ASSUME NEW ls, NEW ms, NEW d, DomainHead(ms, d) = DomainHead(ls, d), DependsOf(ms, d) = DependsOf(ls, d),
         NEW c \in Items, \A b \in Items \ {c} : SameItems(ls, ms, d, b)
  PROVE  MeaningOfDomain(ms, d) = [MeaningOfDomain(ls, d) EXCEPT ![ListOf[c]] = ItemsOf(ms, d, c)]
<1>1. PICK h, ps, ts, cs, es : /\ h = DomainHead(ls, d) /\ ps = DependsOf(ls, d) /\ ts = ItemsOf(ls, d, "type")
                               /\ cs = ItemsOf(ls, d, "command") /\ es = ItemsOf(ls, d, "event")
  OBVIOUS
<1>2. PICK f, g : f = ItemsOf(ms, d, c) /\ g = ListOf[c]
  OBVIOUS
<1>3. MeaningOfDomain(ls, d) = Parts5(h, ps, ts, cs, es)
  BY <1>1, DomainParts, Zenon
<1>4. DOMAIN h = DomainDomain
  BY <1>1, DomainHeadIs DEF DomainHead
<1>5. PICK ts2, cs2, es2 : ts2 = ItemsOf(ms, d, "type") /\ cs2 = ItemsOf(ms, d, "command") /\ es2 = ItemsOf(ms, d, "event")
  OBVIOUS
<1>6. MeaningOfDomain(ms, d) = Parts5(h, ps, ts2, cs2, es2)
  BY <1>1, <1>5, DomainParts, Zenon
<1>7. /\ c # "type" => ts2 = ts
      /\ c # "command" => cs2 = cs
      /\ c # "event" => es2 = es
  BY <1>1, <1>5 DEF SameItems, Items
<1>8. CASE c = "type"
  <2>1. ts2 = f /\ cs2 = cs /\ es2 = es /\ g = "types"
    BY <1>2, <1>5, <1>7, <1>8 DEF ListOf
  <2>2. Parts5(h, ps, f, cs, es) = [Parts5(h, ps, ts, cs, es) EXCEPT !["types"] = f]
    BY <1>4 DEF Parts5, DomainDomain
  <2> QED BY <1>2, <1>3, <1>6, <2>1, <2>2, Zenon
<1>9. CASE c = "command"
  <2>1. ts2 = ts /\ cs2 = f /\ es2 = es /\ g = "commands"
    BY <1>2, <1>5, <1>7, <1>9 DEF ListOf
  <2>2. Parts5(h, ps, ts, f, es) = [Parts5(h, ps, ts, cs, es) EXCEPT !["commands"] = f]
    BY <1>4 DEF Parts5, DomainDomain
  <2> QED BY <1>2, <1>3, <1>6, <2>1, <2>2, Zenon
<1>10. CASE c = "event"
  <2>1. ts2 = ts /\ cs2 = cs /\ es2 = f /\ g = "events"
    BY <1>2, <1>5, <1>7, <1>10 DEF ListOf
  <2>2. Parts5(h, ps, ts, cs, f) = [Parts5(h, ps, ts, cs, es) EXCEPT !["events"] = f]
    BY <1>4 DEF Parts5, DomainDomain
  <2> QED BY <1>2, <1>3, <1>6, <2>1, <2>2, Zenon
<1> QED BY <1>8, <1>9, <1>10 DEF Items

-----------------------------------------------------------------------------
(* The dependencies and the items of a domain, with one line more.         *)
DependsFunction(ls, d) == [j \in InDomain(ls, "depends", d) |-> ls[j].name]

LEMMA DependsMore ==
  ASSUME NEW ls, NEW ms, OneMore(ls, ms), NEW n, n = Len(ls), NEW l, l = ms[n + 1], NEW d
  PROVE  DependsOf(ms, d) =
           IF l.class = "depends" /\ DomainOf(ls, n + 1) = d THEN Append(DependsOf(ls, d), l.name) ELSE DependsOf(ls, d)
<1>1. n \in Nat /\ \A i \in 1 .. n : ms[i] = ls[i]
  BY DEF OneMore
<1>2. PICK D, E, f, g : /\ D = InDomain(ls, "depends", d) /\ E = InDomain(ms, "depends", d)
                        /\ f = DependsFunction(ls, d) /\ g = DependsFunction(ms, d)
  OBVIOUS
<1>3. D \subseteq 1 .. n /\ E = With(D, l.class = "depends" /\ DomainOf(ls, n + 1) = d, n)
  BY <1>2, InDomainMore
<1>4. DOMAIN f = D /\ DOMAIN g = E /\ (\A j \in D : f[j] = ls[j].name) /\ \A j \in E : g[j] = ms[j].name
  BY <1>2 DEF DependsFunction
<1>5. DependsOf(ls, d) = Each(ls, f) /\ DependsOf(ms, d) = Each(ms, g)
  BY <1>2 DEF DependsOf, DependsFunction
<1>6. CASE l.class = "depends" /\ DomainOf(ls, n + 1) = d
  <2>1. E = D \cup {n + 1}
    BY <1>3, <1>6 DEF With
  <2>2. DOMAIN f \subseteq 1 .. Len(ls) /\ DOMAIN g = DOMAIN f \cup {Len(ls) + 1} /\ \A j \in DOMAIN f : g[j] = f[j]
    BY <1>1, <1>3, <1>4, <2>1
  <2>3. g[n + 1] = l.name
    BY <1>4, <2>1
  <2>4. Each(ms, g) = Append(Each(ls, f), g[Len(ls) + 1])
    <3> HIDE <1>1, <1>3, <1>4, <2>1, <2>3
    <3> QED BY <2>2, EachMore
  <2> QED BY <1>5, <1>6, <2>3, <2>4
<1>7. CASE ~(l.class = "depends" /\ DomainOf(ls, n + 1) = d)
  <2>1. E = D
    BY <1>3, <1>7 DEF With
  <2>2. DOMAIN g = DOMAIN f /\ Len(ls) + 1 \notin DOMAIN f /\ \A i \in DOMAIN f : i \in 1 .. Len(ls) => g[i] = f[i]
    BY <1>1, <1>3, <1>4, <2>1
  <2>3. Each(ms, g) = Each(ls, f)
    <3> HIDE <1>1, <1>3, <1>4, <2>1
    <3> QED BY <2>2, EachKept
  <2> QED BY <1>5, <1>7, <2>3
<1> QED BY <1>6, <1>7

LEMMA DomainHeadKept ==
  ASSUME NEW ls, NEW ms, OneMore(ls, ms), NEW d \in 1 .. Len(ls)
  PROVE  DomainHead(ms, d) = DomainHead(ls, d)
<1>1. ms[d] = ls[d] /\ d \in 1 .. Len(ls) + 1
  BY DEF OneMore
<1>2. CommentsAbove(ms, d) = CommentsAbove(ls, d)
  BY <1>1, CommentsKept
<1> QED BY <1>1, <1>2 DEF DomainHead

(* A line that says something of an item is in the item's domain.           *)
ItemLine(l) == l.class \in PartLines \cup Sections
InItsDomain(ls, l) == ItemLine(l) => DomainOf(ls, Len(ls) + 1) < ItemOf(ls, Len(ls) + 1)

(* The domain that a line is in is the last.                                *)
LEMMA DomainAbove ==
  ASSUME NEW ls, IsSeq(ls), NEW n, n = Len(ls), NEW d, d = DomainOf(ls, n + 1)
  PROVE  /\ d # 0 => d \in AllOf(ls, "domain") /\ d \in 1 .. n
         /\ \A j \in AllOf(ls, "domain") : j <= d
<1>1. n \in Nat /\ n + 1 \in 1 .. n + 1
  BY SeqFacts
<1>2. Nearest(d, DomainsIn(ls), n + 1)
  BY <1>1, OwnersAre
<1>3. AllOf(ls, "domain") = DomainsIn(ls)
  BY DEF AllOf, DomainsIn, IsDomain
<1>4. DomainsIn(ls) \subseteq 1 .. n
  BY KindsIn
<1>5. \A j \in DomainsIn(ls) : j < n + 1
  BY <1>1, <1>4
<1> QED BY <1>2, <1>3, <1>4, <1>5 DEF Nearest

(* The items of a domain that the new line is not in. *)
LEMMA OtherItems ==
  ASSUME NEW ls, NEW ms, Growing(ls, ms), NEW n, n = Len(ls), NEW l, l = ms[n + 1],
         LiteralsInItem(ls, l), InItsDomain(ls, l), NEW c \in Items, NEW d,
         d # DomainOf(ls, n + 1) \/ l.class \notin PartLines \cup Items
  PROVE  SameItems(ls, ms, d, c)
<1>1. OneMore(ls, ms) /\ IsSeq(ls) /\ n \in Nat
  BY DEF Growing, OneMore
<1>2. ~(l.class = c /\ DomainOf(ls, n + 1) = d)
  OBVIOUS
<1>3. l.class \notin PartLines \/ ItemOf(ls, n + 1) \notin InDomain(ls, c, d)
  <2> SUFFICES ASSUME l.class \in PartLines, ItemOf(ls, n + 1) \in InDomain(ls, c, d) PROVE FALSE
    OBVIOUS
  <2>1. PICK it : it = ItemOf(ls, n + 1)
    OBVIOUS
  <2>2. it \in 1 .. n /\ DomainOf(ls, it) = d
    BY <2>1 DEF InDomain, AllOf
  <2>3. DomainOf(ls, n + 1) < it
    BY <2>1 DEF InItsDomain, ItemLine
  <2>4. it \in 1 .. n + 1
    BY <1>1, <2>2
  <2>5. DomainOf(ls, it) = DomainOf(ls, n + 1)
    BY <1>1, <2>3, <2>4, OwnersBetween
  <2> QED BY <2>2, <2>5
<1>4. ItemsOf(ms, d, c) = ItemsOf(ls, d, c)
  BY <1>2, <1>3, ItemsKept
<1> QED BY <1>4 DEF SameItems

LEMMA DomainKept ==
  ASSUME NEW ls, NEW ms, Growing(ls, ms), NEW n, n = Len(ls), NEW l, l = ms[n + 1],
         LiteralsInItem(ls, l), InItsDomain(ls, l), NEW d \in 1 .. n,
         d # DomainOf(ls, n + 1) \/ l.class \notin PartLines \cup Items \cup {"depends"}
  PROVE  MeaningOfDomain(ms, d) = MeaningOfDomain(ls, d)
<1>1. OneMore(ls, ms)
  BY DEF Growing
<1>2. DomainHead(ms, d) = DomainHead(ls, d)
  BY <1>1, DomainHeadKept
<1>3. \A c \in Items : SameItems(ls, ms, d, c)
  BY OtherItems
<1>4. DependsOf(ms, d) = DependsOf(ls, d)
  BY <1>1, DependsMore
<1> QED BY <1>2, <1>3, <1>4, DomainSame

(* The new line is a domain.                                               *)
LEMMA DomainNew ==
  ASSUME NEW ls, NEW ms, Growing(ls, ms), NEW n, n = Len(ls), NEW l, l = ms[n + 1], IsDomain(l)
  PROVE  MeaningOfDomain(ms, n + 1) = NewDomain(l, CommentsAbove(ls, n + 1))
<1>1. OneMore(ls, ms) /\ IsSeq(ms) /\ n \in Nat /\ n + 1 \in 1 .. n + 1 /\ Len(ms) = n + 1
  BY DEF Growing, OneMore
<1>2. PICK m : m = n + 1
  OBVIOUS
<1>3. \A c : InDomain(ms, c, m) = {}
  <2> SUFFICES ASSUME NEW c, NEW j \in InDomain(ms, c, m) PROVE FALSE
    OBVIOUS
  <2>1. j \in 1 .. n + 1 /\ DomainOf(ms, j) = m
    BY <1>1 DEF InDomain, AllOf
  <2>2. j \in 1 .. Len(ms) + 1
    BY <1>1, <2>1
  <2>3. Nearest(DomainOf(ms, j), DomainsIn(ms), j)
    BY <1>1, <2>2, OwnersAre
  <2>4. DomainOf(ms, j) \in 0 .. j - 1
    BY <2>3 DEF Nearest
  <2> QED BY <1>1, <1>2, <2>1, <2>4
<1>4. DependsOf(ms, m) = <<>>
  <2>1. DOMAIN DependsFunction(ms, m) = {}
    BY <1>3 DEF DependsFunction
  <2>2. Each(ms, DependsFunction(ms, m)) = <<>>
    BY <1>1, <2>1, EachNone
  <2> QED BY <2>2 DEF DependsOf, DependsFunction
<1>5. \A c \in Items : ItemsOf(ms, m, c) = <<>>
  <2> SUFFICES ASSUME NEW c \in Items PROVE ItemsOf(ms, m, c) = <<>>
    OBVIOUS
  <2>1. ItemsOf(ms, m, c) = Each(ms, ItemsFunction(ms, m, c)) /\ DOMAIN ItemsFunction(ms, m, c) = InDomain(ms, c, m)
    BY ItemsAre
  <2> QED BY <1>1, <1>3, <2>1, EachNone
<1>6. DomainHead(ms, m) = NewDomain(l, CommentsAbove(ls, n + 1))
  <2>1. CommentsAbove(ms, m) = CommentsAbove(ls, m)
    BY <1>1, <1>2, CommentsKept
  <2> QED BY <1>2, <2>1 DEF DomainHead
<1>7. PICK h : h = DomainHead(ms, m)
  OBVIOUS
<1>8. MeaningOfDomain(ms, m) = Parts5(h, <<>>, <<>>, <<>>, <<>>)
  <2>1. ItemsOf(ms, m, "type") = <<>> /\ ItemsOf(ms, m, "command") = <<>> /\ ItemsOf(ms, m, "event") = <<>>
    BY <1>5 DEF Items
  <2> QED BY <1>4, <1>7, <2>1, DomainParts, Zenon
<1>9. h = [h EXCEPT !.dependencies = <<>>, !.types = <<>>, !.commands = <<>>, !.events = <<>>]
  <2>1. PICK a, b, d : h = [name |-> a, flags |-> b, desc |-> d, dependencies |-> <<>>,
                            types |-> <<>>, commands |-> <<>>, events |-> <<>>]
    BY <1>6, <1>7 DEF NewDomain
  <2> HIDE <1>6, <1>7
  <2>2. /\ DOMAIN h = DomainDomain /\ h = [x \in DomainDomain |-> h[x]]
        /\ h.dependencies = <<>> /\ h.types = <<>> /\ h.commands = <<>> /\ h.events = <<>>
    BY <2>1 DEF DomainDomain
  <2> HIDE <2>1
  <2>3. PICK t : t = [h EXCEPT !.dependencies = <<>>, !.types = <<>>, !.commands = <<>>, !.events = <<>>]
    OBVIOUS
  <2>4. t = [x \in DomainDomain |-> t[x]]
    BY <2>2, <2>3, Zenon
  <2>5. \A x \in DomainDomain : t[x] = h[x]
    BY <2>2, <2>3 DEF DomainDomain
  <2>6. h = t
    BY <2>2, <2>4, <2>5, Zenon
  <2> QED BY <2>3, <2>6
<1> QED BY <1>2, <1>6, <1>7, <1>8, <1>9 DEF Parts5

(* The domains of the file.                                                *)
DomainsFunction(ls) == [j \in AllOf(ls, "domain") |-> MeaningOfDomain(ls, j)]
DomainsOf(ls) == Each(ls, DomainsFunction(ls))

LEMMA DomainsAre ==
  ASSUME NEW ls, NEW f, f = DomainsFunction(ls), NEW D, D = AllOf(ls, "domain")
  PROVE  DomainsOf(ls) = Each(ls, f) /\ DOMAIN f = D /\ \A j \in D : f[j] = MeaningOfDomain(ls, j)
  BY DEF DomainsOf, DomainsFunction

LEMMA DomainsKept ==
  ASSUME NEW ls, NEW ms, Growing(ls, ms), NEW n, n = Len(ls), NEW l, l = ms[n + 1],
         l.class \notin PartLines \cup Items \cup Sections \cup {"depends", "domain"}
  PROVE  DomainsOf(ms) = DomainsOf(ls)
<1>1. OneMore(ls, ms) /\ n \in Nat
  BY DEF Growing, OneMore
<1>2. LiteralsInItem(ls, l) /\ InItsDomain(ls, l)
  BY DEF LiteralsInItem, InItsDomain, ItemLine, PartLines
<1>9. l.class \notin PartLines \cup Items \cup {"depends"}
  OBVIOUS
<1>3. PICK D, E, f, g : /\ D = AllOf(ls, "domain") /\ E = AllOf(ms, "domain")
                        /\ f = DomainsFunction(ls) /\ g = DomainsFunction(ms)
  OBVIOUS
<1>4. D \subseteq 1 .. n /\ E = D
  <2>1. E = With(D, l.class = "domain", n) /\ D \subseteq 1 .. n
    BY <1>1, <1>3, AllOfMore
  <2> QED BY <2>1 DEF With
<1>5. DOMAIN f = D /\ DOMAIN g = D /\ \A j \in D : f[j] = MeaningOfDomain(ls, j) /\ g[j] = MeaningOfDomain(ms, j)
  BY <1>3, <1>4, DomainsAre
<1>6. \A j \in D : MeaningOfDomain(ms, j) = MeaningOfDomain(ls, j)
  BY <1>2, <1>4, <1>9, DomainKept
<1>7. DOMAIN g = DOMAIN f /\ Len(ls) + 1 \notin DOMAIN f /\ \A i \in DOMAIN f : i \in 1 .. Len(ls) => g[i] = f[i]
  BY <1>1, <1>4, <1>5, <1>6
<1>8. Each(ms, g) = Each(ls, f)
  <2> HIDE <1>4, <1>5, <1>6
  <2> QED BY <1>1, <1>7, EachKept
<1> QED BY <1>3, <1>8, DomainsAre

LEMMA DomainsAppended ==
  ASSUME NEW ls, NEW ms, Growing(ls, ms), NEW n, n = Len(ls), NEW l, l = ms[n + 1], IsDomain(l)
  PROVE  DomainsOf(ms) = Append(DomainsOf(ls), NewDomain(l, CommentsAbove(ls, n + 1)))
<1>1. OneMore(ls, ms) /\ n \in Nat
  BY DEF Growing, OneMore
<1>2. LiteralsInItem(ls, l) /\ InItsDomain(ls, l) /\ l.class = "domain" /\ l.class \notin PartLines \cup Items \cup {"depends"}
  BY DEF LiteralsInItem, InItsDomain, ItemLine, PartLines, Items, Sections, IsDomain
<1>3. PICK D, E, f, g : /\ D = AllOf(ls, "domain") /\ E = AllOf(ms, "domain")
                        /\ f = DomainsFunction(ls) /\ g = DomainsFunction(ms)
  OBVIOUS
<1>4. D \subseteq 1 .. n /\ E = D \cup {n + 1}
  <2>1. E = With(D, l.class = "domain", n) /\ D \subseteq 1 .. n
    BY <1>1, <1>3, AllOfMore
  <2> QED BY <1>2, <2>1 DEF With
<1>5. /\ DOMAIN f = D /\ DOMAIN g = E
      /\ (\A j \in D : f[j] = MeaningOfDomain(ls, j)) /\ \A j \in E : g[j] = MeaningOfDomain(ms, j)
  BY <1>3, DomainsAre
<1>6. \A j \in D : MeaningOfDomain(ms, j) = MeaningOfDomain(ls, j)
  BY <1>2, <1>4, DomainKept
<1>7. DOMAIN f \subseteq 1 .. Len(ls) /\ DOMAIN g = DOMAIN f \cup {Len(ls) + 1} /\ \A j \in DOMAIN f : g[j] = f[j]
  BY <1>4, <1>5, <1>6
<1>8. g[n + 1] = NewDomain(l, CommentsAbove(ls, n + 1))
  BY <1>4, <1>5, DomainNew
<1>9. Each(ms, g) = Append(Each(ls, f), g[Len(ls) + 1])
  <2> HIDE <1>4, <1>5, <1>6, <1>8
  <2> QED BY <1>1, <1>7, EachMore
<1>10. DomainsOf(ms) = Each(ms, g) /\ DomainsOf(ls) = Each(ls, f)
  BY <1>3, DomainsAre
<1> QED BY <1>8, <1>9, <1>10

(* Only the last domain changes. *)
LEMMA DomainsLast ==
  ASSUME NEW ls, NEW ms, Growing(ls, ms), NEW n, n = Len(ls), NEW l, l = ms[n + 1], ~IsDomain(l),
         LiteralsInItem(ls, l), InItsDomain(ls, l),
         NEW d, d = DomainOf(ls, n + 1), d # 0, NEW s, s = DomainsOf(ls), NEW k, k = Len(s)
  PROVE  k # 0 /\ s[k] = MeaningOfDomain(ls, d) /\ DomainsOf(ms) = Put(s, k, MeaningOfDomain(ms, d))
<1>1. OneMore(ls, ms) /\ n \in Nat /\ IsSeq(ls)
  BY DEF Growing, OneMore
<1>2. l.class # "domain"
  BY DEF IsDomain
<1>3. PICK D, E, f, g : /\ D = AllOf(ls, "domain") /\ E = AllOf(ms, "domain")
                        /\ f = DomainsFunction(ls) /\ g = DomainsFunction(ms)
  OBVIOUS
<1>4. D \subseteq 1 .. n /\ E = D
  <2>1. E = With(D, l.class = "domain", n) /\ D \subseteq 1 .. n
    BY <1>1, <1>3, AllOfMore
  <2> QED BY <1>2, <2>1 DEF With
<1>5. DOMAIN f = D /\ DOMAIN g = D /\ \A j \in D : f[j] = MeaningOfDomain(ls, j) /\ g[j] = MeaningOfDomain(ms, j)
  BY <1>3, <1>4, DomainsAre
<1>6. d \in D /\ \A j \in D : j <= d
  BY <1>1, <1>3, DomainAbove
<1>7. ASSUME NEW j \in D, j # d PROVE g[j] = f[j]
  <2>1. MeaningOfDomain(ms, j) = MeaningOfDomain(ls, j)
    BY <1>4, <1>7, DomainKept
  <2> QED BY <1>5, <2>1
<1>8. PICK e : e = Each(ls, f)
  OBVIOUS
<1>9. s = e /\ DomainsOf(ms) = Each(ms, g)
  BY <1>3, <1>8, DomainsAre
<1>10. /\ Len(e) \in Nat \ {0} /\ e[Len(e)] = f[d]
       /\ Each(ms, g) = Put(e, Len(e), g[d])
  <2>1. DOMAIN f \subseteq 1 .. Len(ls) /\ DOMAIN g = DOMAIN f
    BY <1>4, <1>5
  <2>2. d \in DOMAIN f /\ (\A i \in DOMAIN f : i <= d) /\ \A i \in DOMAIN f : i # d => g[i] = f[i]
    BY <1>5, <1>6, <1>7
  <2> HIDE <1>5, <1>6, <1>7
  <2> QED BY <1>1, <1>8, <2>1, <2>2, EachLast
<1>11. f[d] = MeaningOfDomain(ls, d) /\ g[d] = MeaningOfDomain(ms, d)
  BY <1>5, <1>6
<1> QED BY <1>9, <1>10, <1>11

-----------------------------------------------------------------------------
(* What a line does to the document: the last item of the last domain is    *)
(* replaced, an item or a dependency is added to the last domain.           *)
LEMMA LastDomainName ==
  ASSUME NEW ls, IsSeq(ls), NEW d, d = DomainOf(ls, Len(ls) + 1), d # 0, NEW ds, ds = DomainsOf(ls)
  PROVE  Len(ds) # 0 /\ ds[Len(ds)].name = ls[d].name
<1>1. PICK l, ms : l = [class |-> "blank"] /\ ms = Append(ls, l)
  OBVIOUS
<1>2. OneMore(ls, ms)
  BY <1>1, OneMoreLine
<1>3. d \in AllOf(ls, "domain") /\ d \in 1 .. Len(ls) /\ \A j \in AllOf(ls, "domain") : j <= d
  BY DomainAbove
<1>4. PICK f, D : f = DomainsFunction(ls) /\ D = AllOf(ls, "domain")
  OBVIOUS
<1>5. ds = Each(ls, f) /\ DOMAIN f = D /\ f[d] = MeaningOfDomain(ls, d)
  BY <1>3, <1>4, DomainsAre
<1>6. D \subseteq 1 .. Len(ls)
  BY <1>4 DEF AllOf
<1>7. /\ Len(Each(ls, f)) \in Nat \ {0} /\ Each(ls, f)[Len(Each(ls, f))] = f[d]
      /\ Each(ms, f) = Put(Each(ls, f), Len(Each(ls, f)), f[d])
  <2>1. DOMAIN f \subseteq 1 .. Len(ls) /\ DOMAIN f = DOMAIN f
    BY <1>5, <1>6
  <2>2. d \in DOMAIN f /\ (\A i \in DOMAIN f : i <= d) /\ \A i \in DOMAIN f : i # d => f[i] = f[i]
    BY <1>3, <1>4, <1>5
  <2> HIDE <1>1, <1>3, <1>4, <1>5, <1>6
  <2> QED BY <1>2, <2>1, <2>2, EachLast
<1>8. MeaningOfDomain(ls, d).name = ls[d].name
  <2>1. PICK h, ps, ts, cs, es : /\ h = DomainHead(ls, d) /\ ps = DependsOf(ls, d) /\ ts = ItemsOf(ls, d, "type")
                               /\ cs = ItemsOf(ls, d, "command") /\ es = ItemsOf(ls, d, "event")
    OBVIOUS
  <2>2. MeaningOfDomain(ls, d) = Parts5(h, ps, ts, cs, es)
    BY <2>1, DomainParts, Zenon
  <2>3. h.name = ls[d].name
    BY <2>1 DEF DomainHead, NewDomain
  <2>4. Parts5(h, ps, ts, cs, es).name = h.name
    BY DEF Parts5
  <2> QED BY <2>2, <2>3, <2>4
<1> QED BY <1>5, <1>7, <1>8

LEMMA ItemReplaced ==
  ASSUME NEW ls, NEW ms, Growing(ls, ms), NEW n, n = Len(ls), NEW l, l = ms[n + 1], ItemLine(l),
         LiteralsInItem(ls, l), InItsDomain(ls, l), NEW it, it = ItemOf(ls, n + 1),
         NEW b, b = ListOf[ls[it].class], NEW ds, ds = DomainsOf(ls), NEW a, a = Len(ds), NEW k, k = Len(ds[a][b])
  PROVE  /\ it # 0 /\ a # 0 /\ k # 0 /\ ds[a][b][k] = MeaningOfItem(ls, it)
         /\ DomainsOf(ms) = PutItem(ds, a, b, k, MeaningOfItem(ms, it))
<1>1. OneMore(ls, ms) /\ IsSeq(ls) /\ n \in Nat /\ Owned(ls)
  BY OwnedBefore DEF Growing, OneMore
<1>2. PICK d : d = DomainOf(ls, n + 1)
  OBVIOUS
<1>3. d < it /\ it # 0
  <2>1. d < it
    BY <1>2 DEF InItsDomain
  <2>2. d \in 0 .. n /\ it \in 0 .. n
    BY <1>1, <1>2, OwnerAbove
  <2> QED BY <2>1, <2>2
<1>4. it \in 1 .. n /\ IsItem(ls[it])
  BY <1>3, ItemAbove
<1>5. d # 0
  <2>1. it \in 1 .. n + 1
    BY <1>1, <1>4
  <2>2. DomainOf(ls, it) = d
    BY <1>1, <1>2, <1>3, <2>1, OwnersBetween
  <2> QED BY <1>1, <1>4, <2>2 DEF Owned
<1>6. ~IsItem(l) /\ ~IsDomain(l) /\ l.class # "depends"
  BY DEF ItemLine, PartLines, Sections, IsItem, IsDomain, Items
<1>7. PICK c \in Items : c = ls[it].class
  BY <1>4 DEF IsItem
<1>8. PICK t, s : t = MeaningOfDomain(ls, d) /\ s = ItemsOf(ls, d, c)
  OBVIOUS
<1>9. /\ Len(s) # 0 /\ s[Len(s)] = MeaningOfItem(ls, it)
      /\ ItemsOf(ms, d, c) = Put(s, Len(s), MeaningOfItem(ms, it))
  BY <1>2, <1>3, <1>6, <1>7, <1>8, ItemsLast
<1>10. a # 0 /\ ds[a] = t /\ DomainsOf(ms) = Put(ds, a, MeaningOfDomain(ms, d))
  BY <1>2, <1>5, <1>6, <1>8, DomainsLast
<1>11. t[b] = s
  BY <1>7, <1>8, DomainIs
<1>12. MeaningOfDomain(ms, d) = [t EXCEPT ![b] = ItemsOf(ms, d, c)]
  <2>1. DomainHead(ms, d) = DomainHead(ls, d)
    <3>1. d \in 1 .. n
      BY <1>1, <1>2, <1>5, DomainAbove
    <3> QED BY <1>1, <3>1, DomainHeadKept
  <2>2. DependsOf(ms, d) = DependsOf(ls, d)
    BY <1>1, <1>6, DependsMore
  <2>3. ASSUME NEW e \in Items \ {c} PROVE SameItems(ls, ms, d, e)
    <3>1. ~(l.class = e /\ DomainOf(ls, n + 1) = d)
      BY <1>6 DEF IsItem
    <3>2. ItemOf(ls, n + 1) \notin InDomain(ls, e, d)
      BY <1>7 DEF InDomain, AllOf
    <3>3. e \in Items /\ (l.class \notin PartLines \/ ItemOf(ls, n + 1) \notin InDomain(ls, e, d))
      BY <3>2
    <3>4. ItemsOf(ms, d, e) = ItemsOf(ls, d, e)
      <4> HIDE <3>2
      <4> QED BY <3>1, <3>3, ItemsKept
    <3> QED BY <3>4 DEF SameItems
  <2>4. \A e \in Items \ {c} : SameItems(ls, ms, d, e)
    BY <2>3
  <2> QED BY <1>7, <1>8, <2>1, <2>2, <2>4, DomainItems
<1>13. PICK x, y : x = MeaningOfItem(ms, it) /\ y = ItemsOf(ms, d, c)
  OBVIOUS
<1>14. y = Put(s, k, x) /\ k = Len(s)
  BY <1>9, <1>10, <1>11, <1>13
<1>15. DomainsOf(ms) = Put(ds, a, [ds[a] EXCEPT ![b] = Put(ds[a][b], k, x)])
  BY <1>10, <1>11, <1>12, <1>13, <1>14
<1>16. Put(ds, a, [ds[a] EXCEPT ![b] = Put(ds[a][b], k, x)]) = PutItem(ds, a, b, k, x)
  BY DEF Put, PutItem
<1> QED BY <1>3, <1>9, <1>10, <1>11, <1>13, <1>14, <1>15, <1>16

LEMMA ItemAddedTo ==
  ASSUME NEW ls, NEW ms, Growing(ls, ms), NEW n, n = Len(ls), NEW l, l = ms[n + 1], IsItem(l),
         NEW ds, ds = DomainsOf(ls), NEW a, a = Len(ds)
  PROVE  /\ a # 0
         /\ DomainsOf(ms) =
              AddItem(ds, a, ListOf[l.class], NewType(ds[a].name, l, TypeOf(l), CommentsAbove(ls, n + 1)))
<1>1. OneMore(ls, ms) /\ IsSeq(ls) /\ n \in Nat /\ n + 1 \in 1 .. n + 1
  BY DEF Growing, OneMore
<1>2. PICK d, c : d = DomainOf(ls, n + 1) /\ c = l.class
  OBVIOUS
<1>3. d # 0
  <2>1. DomainOf(ms, n + 1) # 0
    BY <1>1 DEF Growing, Owned, OneMore
  <2> QED BY <1>1, <1>2, <2>1, OwnersKept
<1>4. c \in Items /\ ~IsDomain(l) /\ ~ItemLine(l) /\ l.class # "depends" /\ l.class # "literal"
  BY <1>2 DEF IsItem, Items, IsDomain, ItemLine, PartLines, Sections
<1>5. LiteralsInItem(ls, l) /\ InItsDomain(ls, l)
  BY <1>4 DEF LiteralsInItem, InItsDomain
<1>6. PICK t, s, b, x : /\ t = MeaningOfDomain(ls, d) /\ s = ItemsOf(ls, d, c) /\ b = ListOf[c]
                        /\ x = MeaningOfItem(ms, n + 1)
  OBVIOUS
<1>7. ItemsOf(ms, d, c) = Append(s, x)
  BY <1>2, <1>4, <1>6, ItemsAppended
<1>8. a # 0 /\ ds[a] = t /\ DomainsOf(ms) = Put(ds, a, MeaningOfDomain(ms, d))
  BY <1>2, <1>3, <1>4, <1>5, <1>6, DomainsLast
<1>9. t[b] = s
  BY <1>4, <1>6, DomainIs
<1>10. MeaningOfDomain(ms, d) = [t EXCEPT ![b] = ItemsOf(ms, d, c)]
  <2>1. DomainHead(ms, d) = DomainHead(ls, d)
    <3>1. d \in 1 .. n
      BY <1>1, <1>2, <1>3, DomainAbove
    <3> QED BY <1>1, <3>1, DomainHeadKept
  <2>2. DependsOf(ms, d) = DependsOf(ls, d)
    BY <1>1, <1>4, DependsMore
  <2>3. ASSUME NEW e \in Items \ {c} PROVE SameItems(ls, ms, d, e)
    <3>1. ~(l.class = e /\ DomainOf(ls, n + 1) = d) /\ l.class \notin PartLines
      BY <1>2, <1>4 DEF ItemLine
    <3>2. ItemsOf(ms, d, e) = ItemsOf(ls, d, e)
      BY <1>5, <3>1, ItemsKept
    <3> QED BY <3>2 DEF SameItems
  <2>4. \A e \in Items \ {c} : SameItems(ls, ms, d, e)
    BY <2>3
  <2> QED BY <1>4, <1>6, <2>1, <2>2, <2>4, DomainItems
<1>11. x = NewType(ds[a].name, l, TypeOf(l), CommentsAbove(ls, n + 1))
  <2>1. ds[a].name = ls[d].name
    BY <1>1, <1>2, <1>3, LastDomainName
  <2> QED BY <1>2, <1>6, <2>1, ItemNew
<1>12. DomainsOf(ms) = Put(ds, a, [ds[a] EXCEPT ![b] = Append(ds[a][b], x)])
  BY <1>7, <1>8, <1>9, <1>10
<1>13. Put(ds, a, [ds[a] EXCEPT ![b] = Append(ds[a][b], x)]) = AddItem(ds, a, b, x)
  BY DEF Put, AddItem
<1> QED BY <1>2, <1>6, <1>8, <1>11, <1>12, <1>13

LEMMA DependencyAddedTo ==
  ASSUME NEW ls, NEW ms, Growing(ls, ms), NEW n, n = Len(ls), NEW l, l = ms[n + 1], l.class = "depends",
         DomainOf(ls, n + 1) # 0, NEW ds, ds = DomainsOf(ls), NEW a, a = Len(ds)
  PROVE  DomainsOf(ms) = AddDependency(ds, a, l.name)
<1>1. OneMore(ls, ms) /\ IsSeq(ls) /\ n \in Nat /\ n + 1 \in 1 .. n + 1
  BY DEF Growing, OneMore
<1>2. PICK d : d = DomainOf(ls, n + 1) /\ d # 0
  OBVIOUS
<1>3. ~IsItem(l) /\ ~IsDomain(l) /\ ~ItemLine(l) /\ l.class # "literal" /\ l.class \notin PartLines \cup Items
  BY DEF IsItem, Items, IsDomain, ItemLine, PartLines, Sections
<1>4. LiteralsInItem(ls, l) /\ InItsDomain(ls, l)
  BY <1>3 DEF LiteralsInItem, InItsDomain
<1>5. PICK t : t = MeaningOfDomain(ls, d)
  OBVIOUS
<1>6. a # 0 /\ ds[a] = t /\ DomainsOf(ms) = Put(ds, a, MeaningOfDomain(ms, d))
  BY <1>2, <1>3, <1>4, <1>5, DomainsLast
<1>7. t.dependencies = DependsOf(ls, d)
  BY <1>5, DomainIs
<1>8. MeaningOfDomain(ms, d) = [t EXCEPT !.dependencies = DependsOf(ms, d)]
  <2>1. DomainHead(ms, d) = DomainHead(ls, d)
    <3>1. d \in 1 .. n
      BY <1>1, <1>2, DomainAbove
    <3> QED BY <1>1, <3>1, DomainHeadKept
  <2>2. \A e \in Items : SameItems(ls, ms, d, e)
    BY <1>3, <1>4, OtherItems
  <2> QED BY <1>5, <2>1, <2>2, DomainDepends
<1>9. DependsOf(ms, d) = Append(t.dependencies, l.name)
  BY <1>1, <1>2, <1>7, DependsMore
<1>10. PICK us, x : us = t.dependencies /\ x = l.name
  OBVIOUS
<1>11. DomainsOf(ms) = Put(ds, a, [ds[a] EXCEPT !.dependencies = Append(ds[a].dependencies, x)])
  BY <1>6, <1>8, <1>9, <1>10
<1>12. Put(ds, a, [ds[a] EXCEPT !.dependencies = Append(ds[a].dependencies, x)]) = AddDependency(ds, a, x)
  BY DEF Put, AddDependency
<1> QED BY <1>10, <1>11, <1>12

-----------------------------------------------------------------------------
(* The head of the file: its copyright and its version.                    *)
FirstOther(H) == CHOOSE j \in H : \A k \in H : j <= k

CopyrightOf(ls) == IF OthersIn(ls) = {} THEN <<>> ELSE CommentsAbove(ls, FirstOther(OthersIn(ls)))

VersionOf(ls) ==
  IF AllOf(ls, "version") = {} THEN <<>> ELSE <<NumberOf(ls, "major"), NumberOf(ls, "minor")>>

LEMMA MeaningIs ==
  ASSUME NEW ls
  PROVE  Meaning(ls) = [copyright |-> CopyrightOf(ls), version |-> VersionOf(ls), domains |-> DomainsOf(ls)]
<1>1. PICK H : H = {j \in 1 .. Len(ls) : ls[j].class # "comment"}
  OBVIOUS
<1>2. OthersIn(ls) = H
  BY <1>1 DEF OthersIn, IsComment
<1>3. CopyrightOf(ls) = IF H = {} THEN <<>> ELSE CommentsAbove(ls, CHOOSE j \in H : \A k \in H : j <= k)
  <2>1. CopyrightOf(ls) = IF H = {} THEN <<>> ELSE CommentsAbove(ls, FirstOther(H))
    BY <1>2, Zenon DEF CopyrightOf
  <2>2. FirstOther(H) = CHOOSE j \in H : \A k \in H : j <= k
    BY DEF FirstOther
  <2> QED BY <2>1, <2>2, Zenon
<1>4. DomainsOf(ls) = Each(ls, [j \in AllOf(ls, "domain") |-> MeaningOfDomain(ls, j)])
  BY DEF DomainsOf, DomainsFunction
<1> QED BY <1>1, <1>3, <1>4, Zenon DEF Meaning, VersionOf

LEMMA FirstOtherIs ==
  ASSUME NEW H, NEW j \in H, H \subseteq Nat, \A k \in H : j <= k
  PROVE  FirstOther(H) = j
<1>1. PICK i : i = FirstOther(H)
  OBVIOUS
<1>2. i \in H /\ \A k \in H : i <= k
  BY <1>1 DEF FirstOther
<1> QED BY <1>1, <1>2

LEMMA CopyrightMore ==
  ASSUME NEW ls, NEW ms, OneMore(ls, ms), NEW n, n = Len(ls), NEW l, l = ms[n + 1]
  PROVE  CopyrightOf(ms) = IF IsComment(l) \/ OthersIn(ls) # {} THEN CopyrightOf(ls) ELSE CommentsAbove(ls, n + 1)
<1>1. n \in Nat /\ Len(ms) = n + 1 /\ n + 1 \in 1 .. n + 1
  BY DEF OneMore
<1>2. PICK H, M : H = OthersIn(ls) /\ M = OthersIn(ms)
  OBVIOUS
<1>3. H \subseteq 1 .. n /\ M \subseteq 1 .. n + 1
  BY <1>1, <1>2, KindsIn
<1>4. (\A i \in 1 .. n : i \in M <=> i \in H) /\ (n + 1 \in M <=> ~IsComment(l))
  BY <1>2, KindsMore
<1>5. CASE H # {}
  <2>1. PICK j \in H : \A k \in H : j <= k
    <3>1. H \subseteq Nat
      BY <1>3
    <3> QED BY <1>5, <3>1, LeastNumber
  <2>2. j \in 1 .. n /\ j \in 1 .. n + 1
    BY <1>1, <1>3
  <2>3. j \in M /\ \A k \in M : j <= k
    <3>1. \A k \in M : k \in 1 .. n \/ k = n + 1
      BY <1>1, <1>3
    <3> QED BY <1>1, <1>4, <2>1, <2>2, <3>1
  <2>4. FirstOther(H) = j /\ FirstOther(M) = j
    <3>1. H \subseteq Nat /\ M \subseteq Nat
      BY <1>1, <1>3
    <3> QED BY <2>1, <2>3, <3>1, FirstOtherIs
  <2>5. CommentsAbove(ms, j) = CommentsAbove(ls, j)
    BY <2>2, CommentsKept
  <2>6. CopyrightOf(ms) = CommentsAbove(ms, j) /\ CopyrightOf(ls) = CommentsAbove(ls, j)
    BY <1>2, <1>5, <2>3, <2>4 DEF CopyrightOf
  <2> QED BY <1>2, <1>5, <2>5, <2>6
<1>6. CASE H = {} /\ IsComment(l)
  <2>1. M = {}
    <3>1. \A k \in M : k \in 1 .. n \/ k = n + 1
      BY <1>1, <1>3
    <3> QED BY <1>4, <1>6, <3>1
  <2> QED BY <1>2, <1>6, <2>1 DEF CopyrightOf
<1>7. CASE H = {} /\ ~IsComment(l)
  <2>1. \A k \in M : k \in 1 .. n \/ k = n + 1
    BY <1>1, <1>3
  <2>2. n + 1 \in M /\ \A k \in M : n + 1 <= k
    BY <1>1, <1>4, <1>7, <2>1
  <2>3. FirstOther(M) = n + 1
    <3>1. M \subseteq Nat
      BY <1>1, <1>3
    <3> QED BY <2>2, <3>1, FirstOtherIs
  <2>4. CommentsAbove(ms, n + 1) = CommentsAbove(ls, n + 1)
    BY <1>1, CommentsKept
  <2> QED BY <1>2, <1>7, <2>2, <2>3, <2>4 DEF CopyrightOf
<1> QED BY <1>5, <1>6, <1>7

(* The last number of a class. *)
LEMMA NumberIs ==
  ASSUME NEW ls, NEW n \in Nat, n = Len(ls), NEW c
  PROVE  NumberOf(ls, c) = IF LastBelow(AllOf(ls, c), n + 1) = 0 THEN 0 ELSE ls[LastBelow(AllOf(ls, c), n + 1)].number
<1> DEFINE A == {i \in 1 .. n + 1 - 1 : ls[i].class = c}
<1> DEFINE last == Latest(ls, n + 1, LAMBDA l : l.class = c)
<1>1. last = LastLine(A)
  BY DEF Latest, LastOf, LastLine
<1>2. A = {i \in AllOf(ls, c) : i < n + 1}
  BY DEF AllOf
<1>3. NumberOf(ls, c) = IF last = 0 THEN 0 ELSE ls[last].number
  BY DEF NumberOf
<1> HIDE DEF A, last
<1>4. last = LastBelow(AllOf(ls, c), n + 1)
  BY <1>1, <1>2 DEF LastBelow
<1> QED BY <1>3, <1>4, Zenon

LEMMA NumberMore ==
  ASSUME NEW ls, NEW ms, OneMore(ls, ms), NEW n, n = Len(ls), NEW l, l = ms[n + 1], NEW c
  PROVE  NumberOf(ms, c) = IF l.class = c THEN l.number ELSE NumberOf(ls, c)
<1>1. n \in Nat /\ Len(ms) = n + 1 /\ \A i \in 1 .. n : ms[i] = ls[i]
  BY DEF OneMore
<1>2. PICK K, M : K = AllOf(ls, c) /\ M = AllOf(ms, c)
  OBVIOUS
<1>3. K \subseteq 1 .. n /\ M = With(K, l.class = c, n)
  BY <1>2, AllOfMore
<1>4. M \subseteq 1 .. n + 1 /\ (\A i \in 1 .. n : i \in M <=> i \in K) /\ (n + 1 \in M <=> l.class = c)
  <2>1. CASE l.class = c
    <3>1. M = K \cup {n + 1}
      BY <1>3, <2>1 DEF With
    <3>2. M \subseteq 1 .. n + 1
      <4>1. K \subseteq 1 .. n
        BY <1>3
      <4>2. 1 .. n \subseteq 1 .. n + 1 /\ n + 1 \in 1 .. n + 1
        BY <1>1
      <4> HIDE <1>3
      <4> QED BY <3>1, <4>1, <4>2
    <3>3. \A i \in 1 .. n : i \in M <=> i \in K
      BY <1>1, <3>1
    <3>4. n + 1 \in M <=> l.class = c
      BY <1>1, <1>3, <2>1, <3>1
    <3> QED BY <3>2, <3>3, <3>4
  <2>2. CASE l.class # c
    <3>1. M = K
      BY <1>3, <2>2 DEF With
    <3>2. M \subseteq 1 .. n + 1
      <4>1. K \subseteq 1 .. n
        BY <1>3
      <4>2. 1 .. n \subseteq 1 .. n + 1 /\ n + 1 \in 1 .. n + 1
        BY <1>1
      <4> HIDE <1>3
      <4> QED BY <3>1, <4>1, <4>2
    <3>3. \A i \in 1 .. n : i \in M <=> i \in K
      BY <1>1, <3>1
    <3>4. n + 1 \in M <=> l.class = c
      BY <1>1, <1>3, <2>2, <3>1
    <3> QED BY <3>2, <3>3, <3>4
  <2> QED BY <2>1, <2>2
<1>5. PICK m, d : m = n + 2 /\ d = LastBelow(K, n + 1)
  OBVIOUS
<1>6. n + 1 + 1 = m
  BY <1>1, <1>5
<1>7. LastBelow(M, m) = IF n + 1 \in M THEN n + 1 ELSE d
  BY <1>1, <1>3, <1>4, <1>5, BelowNext
<1>8. NumberOf(ms, c) = IF LastBelow(M, m) = 0 THEN 0 ELSE ms[LastBelow(M, m)].number
  <2>1. n + 1 \in Nat
    BY <1>1
  <2> QED BY <1>1, <1>2, <1>6, <2>1, NumberIs
<1>9. NumberOf(ls, c) = IF d = 0 THEN 0 ELSE ls[d].number
  BY <1>1, <1>2, <1>5, NumberIs
<1>10. d # 0 => ms[d] = ls[d]
  <2>1. n + 1 \in 1 .. n + 2
    BY <1>1
  <2>2. Nearest(d, K, n + 1)
    BY <1>1, <1>3, <1>5, <2>1, NearestIs
  <2> QED BY <1>1, <1>3, <2>2 DEF Nearest
<1>11. CASE l.class = c
  <2>1. LastBelow(M, m) = n + 1 /\ n + 1 # 0
    BY <1>1, <1>4, <1>7, <1>11
  <2> QED BY <1>8, <1>11, <2>1
<1>12. CASE l.class # c
  <2>1. LastBelow(M, m) = d
    BY <1>4, <1>7, <1>12
  <2> QED BY <1>8, <1>9, <1>10, <1>12, <2>1
<1> QED BY <1>11, <1>12

(* A file without lines of a class has no number. *)
LEMMA NoNumber ==
  ASSUME NEW ls, IsSeq(ls), NEW c, AllOf(ls, c) = {}
  PROVE  NumberOf(ls, c) = 0
<1>1. PICK n : n = Len(ls) /\ n \in Nat
  BY SeqFacts
<1>2. LastBelow(AllOf(ls, c), n + 1) = 0
  BY DEF LastBelow, LastLine
<1> QED BY <1>1, <1>2, NumberIs

LEMMA VersionMore ==
  ASSUME NEW ls, NEW ms, OneMore(ls, ms), NEW n, n = Len(ls), NEW l, l = ms[n + 1],
         NEW v, v = VersionOf(ls),
         l.class = "version" => \A j \in 1 .. n : ls[j].class \notin VersionLines,
         l.class \in {"major", "minor"} => v # <<>>
  PROVE  VersionOf(ms) = IF l.class = "version" THEN <<0, 0>>
                         ELSE IF l.class = "major" THEN <<l.number, v[2]>>
                         ELSE IF l.class = "minor" THEN <<v[1], l.number>> ELSE v
<1>1. n \in Nat /\ IsSeq(ls)
  BY DEF OneMore
<1>2. PICK a, b : a = NumberOf(ls, "major") /\ b = NumberOf(ls, "minor")
  OBVIOUS
<1>3. /\ NumberOf(ms, "major") = IF l.class = "major" THEN l.number ELSE a
      /\ NumberOf(ms, "minor") = IF l.class = "minor" THEN l.number ELSE b
  BY <1>2, NumberMore
<1>4. AllOf(ls, "version") \subseteq 1 .. n /\ AllOf(ms, "version") = With(AllOf(ls, "version"), l.class = "version", n)
  BY AllOfMore
<1>5. v = IF AllOf(ls, "version") = {} THEN <<>> ELSE <<a, b>>
  BY <1>2 DEF VersionOf
<1>6. CASE l.class = "version"
  <2>1. AllOf(ms, "version") # {}
    BY <1>4, <1>6 DEF With
  <2>2. AllOf(ls, "major") = {} /\ AllOf(ls, "minor") = {}
    BY <1>6 DEF AllOf, VersionLines
  <2>3. a = 0 /\ b = 0
    BY <1>1, <1>2, <2>2, NoNumber
  <2>4. NumberOf(ms, "major") = 0 /\ NumberOf(ms, "minor") = 0
    BY <1>3, <1>6, <2>3
  <2> QED BY <1>6, <2>1, <2>4 DEF VersionOf
<1>7. CASE l.class # "version"
  <2>1. AllOf(ms, "version") = AllOf(ls, "version")
    BY <1>4, <1>7 DEF With
  <2>2. CASE AllOf(ls, "version") = {}
    BY <1>5, <1>7, <2>1, <2>2 DEF VersionOf
  <2>3. CASE AllOf(ls, "version") # {}
    <3>1. VersionOf(ms) = <<NumberOf(ms, "major"), NumberOf(ms, "minor")>>
      BY <2>1, <2>3 DEF VersionOf
    <3>2. v[1] = a /\ v[2] = b /\ v = <<a, b>>
      BY <1>5, <2>3
    <3> QED BY <1>3, <1>7, <3>1, <3>2
  <2> QED BY <2>2, <2>3
<1> QED BY <1>6, <1>7

-----------------------------------------------------------------------------
(***************************************************************************)
(* What the parser holds, in terms of the lines read: the lines that the   *)
(* next line would belong to.                                              *)
(***************************************************************************)
DomainHere == DomainOf(read, Len(read) + 1)
ItemHere == ItemOf(read, Len(read) + 1)
SectionHere == SectionOf(read, Len(read) + 1)
OwnerHere == OwnerOf(read, Len(read) + 1)
LastList == ListOf[read[ItemHere].class]
LastItem == <<Len(doc.domains), LastList, Len(doc.domains[Len(doc.domains)][LastList])>>
PointersHere ==
  /\ domain = IF DomainHere = 0 THEN <<>> ELSE <<Len(doc.domains)>>
  /\ DomainHere < ItemHere => item = LastItem
MembersHere == ItemHere < SectionHere /\ subitems = <<item[1], item[2], item[3], read[SectionHere].class>>
EnumHere ==
  read[OwnerHere].class = "enum" /\ enumliterals = item /\ InItem(read, "enum", ItemHere) = {OwnerHere}
MemberHere ==
  /\ read[OwnerHere].class = "member" /\ ItemHere < SectionHere /\ SectionHere < OwnerHere
  /\ \A j \in InItem(read, "member", ItemHere) : j <= OwnerHere
  /\ enumliterals = <<item[1], item[2], item[3], read[SectionHere].class,
                      Len(MembersOf(read, ItemHere, read[SectionHere].class))>>
LiteralsHere == ItemHere < OwnerHere /\ (EnumHere \/ MemberHere)
(* A line that is allowed finds the pointers at the lines that own it.      *)
OpenHere ==
  \A c \in open :
    /\ c \in PartLines \cup Sections => DomainHere < ItemHere
    /\ c \in Sections \cup {"enum", "redirect"} => InItem(read, c, ItemHere) = {}
    /\ c = "version" => open = {"version"} /\ \A j \in 1 .. Len(read) : read[j].class \notin VersionLines
    /\ c = "member" => MembersHere
    /\ c = "literal" => LiteralsHere

AsMeant ==
  /\ doc = Meaning(read) /\ Desc = CommentsAbove(read, Len(read) + 1)
  /\ copyright <=> OthersIn(read) # {}

ReadWell == IsSeq(read) /\ Owned(read)

WrittenHere == ReadWell /\ AsMeant /\ PointersHere /\ OpenHere

(* What is known of a line of a grammatical file. *)
NextLine(l) ==
  /\ WrittenHere /\ ParserShape /\ PointersSet /\ outcome = "reading"
  /\ Grammatical(l) /\ ReadLine(l) /\ outcome' = "reading" /\ LineRead(l)
  /\ read' = Append(read, l) /\ open' = Follows(l)

LEMMA OwnedAfter ==
  ASSUME NEW ls, NEW ms, OneMore(ls, ms), Owned(ls), NEW n, n = Len(ls), NEW l, l = ms[n + 1],
         IsItem(l) => DomainOf(ls, n + 1) # 0,
         l.class = "member" => DomainOf(ls, n + 1) # 0 /\ ItemOf(ls, n + 1) < SectionOf(ls, n + 1)
  PROVE  Growing(ls, ms)
<1>1. n \in Nat /\ Len(ms) = n + 1 /\ \A i \in 1 .. n : ms[i] = ls[i]
  BY DEF OneMore
<1>2. ASSUME NEW j \in 1 .. Len(ms)
      PROVE  /\ IsItem(ms[j]) => DomainOf(ms, j) # 0
             /\ ms[j].class = "member" => DomainOf(ms, j) # 0 /\ ItemOf(ms, j) < SectionOf(ms, j)
  <2>1. j \in 1 .. n + 1 /\ (j \in 1 .. n \/ j = n + 1)
    BY <1>1
  <2>2. DomainOf(ms, j) = DomainOf(ls, j) /\ ItemOf(ms, j) = ItemOf(ls, j) /\ SectionOf(ms, j) = SectionOf(ls, j)
    BY <2>1, OwnersKept
  <2>3. CASE j \in 1 .. n
    <3>1. /\ IsItem(ls[j]) => DomainOf(ls, j) # 0
          /\ ls[j].class = "member" => DomainOf(ls, j) # 0 /\ ItemOf(ls, j) < SectionOf(ls, j)
      BY <2>3 DEF Owned
    <3>2. ms[j] = ls[j]
      BY <1>1, <2>3
    <3> QED BY <2>2, <3>1, <3>2
  <2>4. CASE j = n + 1
    <3>1. ms[j] = l
      BY <2>4
    <3> QED BY <2>2, <2>4, <3>1
  <2> QED BY <2>1, <2>3, <2>4
<1>3. Owned(ms)
  BY <1>2 DEF Owned
<1> QED BY <1>3 DEF Growing

LEMMA LineAllowed ==
  ASSUME NEW l, NextLine(l), NEW ls, ls = read, NEW ms, ms = read'
  PROVE  /\ Growing(ls, ms) /\ OneMore(ls, ms) /\ ms[Len(ls) + 1] = l /\ Owned(ls)
         /\ LiteralsInItem(ls, l) /\ InItsDomain(ls, l)
<1>1. l.class \in {"comment", "blank", "domain"} \/ l.class \in open
  BY DEF NextLine, Grammatical, Anywhere
<1>2. OneMore(ls, ms) /\ ms[Len(ls) + 1] = l /\ Owned(ls)
  BY OneMoreLine DEF NextLine, WrittenHere, ReadWell
<1>3. OpenHere /\ PointersHere /\ PointersSet
  BY DEF NextLine, WrittenHere
<1>4. /\ l.class \in Items \cup {"member"} => DomainOf(ls, Len(ls) + 1) # 0
      /\ l.class \in PartLines \cup Sections => DomainOf(ls, Len(ls) + 1) < ItemOf(ls, Len(ls) + 1)
      /\ l.class = "member" => ItemOf(ls, Len(ls) + 1) < SectionOf(ls, Len(ls) + 1)
      /\ l.class = "literal" => ItemOf(ls, Len(ls) + 1) < OwnerOf(ls, Len(ls) + 1)
  <2>1. CASE l.class \in {"comment", "blank", "domain"}
    BY <2>1 DEF PartLines, Sections, Items
  <2>2. CASE l.class \in open
    <3>1. l.class \in Items \cup {"member"} => domain # <<>>
      BY <1>3, <2>2 DEF PointersSet, Items
    <3>2. l.class \in Items \cup {"member"} => DomainHere # 0
      BY <1>3, <3>1 DEF PointersHere
    <3>3. /\ l.class \in PartLines \cup Sections => DomainHere < ItemHere
          /\ l.class = "member" => MembersHere
          /\ l.class = "literal" => LiteralsHere
      BY <1>3, <2>2 DEF OpenHere
    <3> QED BY <3>2, <3>3 DEF MembersHere, LiteralsHere, DomainHere, ItemHere, SectionHere, OwnerHere
  <2> QED BY <1>1, <2>1, <2>2
<1>5. Growing(ls, ms)
  <2>1. /\ IsItem(l) => DomainOf(ls, Len(ls) + 1) # 0
        /\ l.class = "member" => DomainOf(ls, Len(ls) + 1) # 0 /\ ItemOf(ls, Len(ls) + 1) < SectionOf(ls, Len(ls) + 1)
    BY <1>4 DEF IsItem
  <2> QED BY <1>2, <2>1, OwnedAfter
<1> QED BY <1>2, <1>4, <1>5 DEF LiteralsInItem, InItsDomain, ItemLine, PartLines

(* The description and the copyright, after a comment and after any other   *)
(* line.                                                                   *)
LEMMA AfterComment ==
  ASSUME NEW l, NextLine(l), ReadComment(l)
  PROVE  AsMeant'
<1>1. PICK ls, ms, n : ls = read /\ ms = read' /\ n = Len(ls)
  OBVIOUS
<1>2. Growing(ls, ms) /\ OneMore(ls, ms) /\ ms[n + 1] = l
  BY <1>1, LineAllowed
<1>3. n \in Nat /\ Len(ms) = n + 1
  BY <1>1, <1>2 DEF OneMore
<1>4. IsComment(l) /\ l.class = "comment"
  BY Zenon DEF ReadComment, IsComment
<1>5. doc = Meaning(ls) /\ Desc = CommentsAbove(ls, n + 1) /\ (copyright <=> OthersIn(ls) # {})
  BY <1>1 DEF NextLine, WrittenHere, AsMeant
<1>6. Meaning(ms) = Meaning(ls)
  <2>1. CopyrightOf(ms) = CopyrightOf(ls)
    BY <1>1, <1>2, <1>4, CopyrightMore
  <2>2. VersionOf(ms) = VersionOf(ls)
    BY <1>1, <1>2, <1>4, VersionMore
  <2>3. DomainsOf(ms) = DomainsOf(ls)
    <3>1. l.class \notin PartLines \cup Items \cup Sections \cup {"depends", "domain"}
      BY <1>4 DEF PartLines, Items, Sections
    <3> QED BY <1>1, <1>2, <3>1, DomainsKept
  <2> QED BY <2>1, <2>2, <2>3, MeaningIs, Zenon
<1>7. Desc' = CommentsAbove(ms, n + 2)
  <2>1. PICK d : d = CommentsAbove(ls, n + 1)
    OBVIOUS
  <2>2. CommentsAbove(ms, n + 2) = IF d = <<>> /\ l.text = "" THEN <<>> ELSE Append(d, l.text)
    <3>1. CommentsAbove(ms, n + 2) = IF d = <<>> /\ ~HasText(l.text) THEN <<>> ELSE Append(d, l.text)
      <4>1. CommentsAbove(ms, n + 2) =
              IF IsComment(l) THEN IF d = <<>> /\ ~HasText(l.text) THEN <<>> ELSE Append(d, l.text) ELSE <<>>
        BY <1>1, <1>2, <2>1, CommentsNext
      <4> QED BY <1>4, <4>1, Zenon
    <3> QED BY <3>1, Zenon DEF HasText
  <2>3. Desc' = desc'
    BY Zenon DEF ReadComment, Desc
  <2>4. desc' = IF d = <<>> /\ l.text = "" THEN <<>> ELSE Append(d, l.text)
    BY <1>5, <2>1, Zenon DEF ReadComment
  <2> QED BY <2>2, <2>3, <2>4, Zenon
<1>8. copyright' <=> OthersIn(ms) # {}
  <2>1. OthersIn(ls) \subseteq 1 .. n /\ OthersIn(ms) \subseteq 1 .. n + 1
    BY <1>1, <1>3, KindsIn
  <2>2. (\A i \in 1 .. n : i \in OthersIn(ms) <=> i \in OthersIn(ls)) /\ n + 1 \notin OthersIn(ms)
    BY <1>1, <1>2, <1>4, KindsMore
  <2>3. \A i \in 1 .. n + 1 : i \in 1 .. n \/ i = n + 1
    BY <1>3
  <2>4. OthersIn(ms) # {} <=> OthersIn(ls) # {}
    BY <2>1, <2>2, <2>3
  <2>5. copyright' = copyright
    BY Zenon DEF ReadComment
  <2> QED BY <1>5, <2>4, <2>5
<1>9. PICK m : m = n + 2
  OBVIOUS
<1>10. n + 1 + 1 = m
  BY <1>3, <1>9
<1>11. doc' = Meaning(ms)
  BY <1>5, <1>6, Zenon DEF ReadComment
<1>12. Desc' = CommentsAbove(read', Len(read') + 1)
  BY <1>1, <1>3, <1>7, <1>9, <1>10
<1> QED BY <1>1, <1>8, <1>11, <1>12 DEF AsMeant

LEMMA AfterOther ==
  ASSUME NEW l, NextLine(l), NotAComment, ~IsComment(l), NEW ls, ls = read, NEW ms, ms = read',
         doc' = [copyright |-> Doc.copyright, version |-> VersionOf(ms), domains |-> DomainsOf(ms)]
  PROVE  AsMeant'
<1>1. PICK n : n = Len(ls)
  OBVIOUS
<1>2. Growing(ls, ms) /\ OneMore(ls, ms) /\ ms[n + 1] = l
  BY <1>1, LineAllowed
<1>3. n \in Nat /\ Len(ms) = n + 1
  BY <1>1, <1>2 DEF OneMore
<1>4. doc = Meaning(ls) /\ Desc = CommentsAbove(ls, n + 1) /\ (copyright <=> OthersIn(ls) # {})
  BY <1>1 DEF NextLine, WrittenHere, AsMeant
<1>5. Doc.copyright = CopyrightOf(ms)
  <2>1. CopyrightOf(ms) = IF OthersIn(ls) # {} THEN CopyrightOf(ls) ELSE CommentsAbove(ls, n + 1)
    BY <1>1, <1>2, CopyrightMore
  <2>2. doc.copyright = CopyrightOf(ls)
    BY <1>4, MeaningIs
  <2>3. Doc.copyright = IF copyright THEN doc.copyright ELSE Desc
    <3>1. IsDoc(doc)
      BY DEF NextLine, ParserShape, DocShape
    <3> QED BY <3>1 DEF IsDoc, Doc
  <2>4. CASE copyright
    BY <1>4, <2>1, <2>2, <2>3, <2>4
  <2>5. CASE ~copyright
    BY <1>4, <2>1, <2>3, <2>5
  <2> QED BY <2>4, <2>5
<1>6. doc' = Meaning(ms)
  BY <1>5, MeaningIs, Zenon
<1>7. PICK m : m = n + 2
  OBVIOUS
<1>8. n + 1 + 1 = m
  BY <1>3, <1>7
<1>9. CommentsAbove(ms, n + 2) = <<>>
  BY <1>1, <1>2, CommentsNext
<1>10. Desc' = <<>> /\ copyright'
  BY DEF NotAComment, Desc
<1>11. n + 1 \in OthersIn(ms)
  BY <1>1, <1>2, KindsMore
<1>12. Desc' = CommentsAbove(read', Len(read') + 1)
  BY <1>1, <1>3, <1>7, <1>8, <1>9, <1>10
<1> QED BY <1>6, <1>10, <1>11, <1>12 DEF AsMeant

-----------------------------------------------------------------------------
(* The document after each kind of line.                                   *)
LEMMA AfterDomains ==
  ASSUME NEW l, NextLine(l), NotAComment, ~IsComment(l), l.class \notin VersionLines,
         NEW ls, ls = read, NEW ms, ms = read',
         doc' = DocWith(DomainsOf(ms))
  PROVE  AsMeant' /\ doc'.domains = DomainsOf(ms)
<1>1. PICK n : n = Len(ls)
  OBVIOUS
<1>2. Growing(ls, ms) /\ OneMore(ls, ms) /\ ms[n + 1] = l
  BY <1>1, LineAllowed
<1>3. doc.version = VersionOf(ls)
  BY MeaningIs DEF NextLine, WrittenHere, AsMeant
<1>4. IsDoc(Doc) /\ Doc.version = doc.version
  BY DEF NextLine, ParserShape, DocShape, IsDoc, Doc
<1>5. VersionOf(ms) = VersionOf(ls)
  BY <1>1, <1>2, VersionMore DEF VersionLines
<1>6. PICK es : es = DomainsOf(ms)
  OBVIOUS
<1>7. DocWith(es) = [copyright |-> Doc.copyright, version |-> Doc.version, domains |-> es]
  BY <1>4 DEF IsDoc, DocWith
<1>8. doc' = [copyright |-> Doc.copyright, version |-> VersionOf(ms), domains |-> DomainsOf(ms)]
  BY <1>3, <1>4, <1>5, <1>6, <1>7
<1>9. AsMeant'
  BY <1>8, AfterOther
<1> QED BY <1>8, <1>9

(* The lists of the last domain are as long as they were.                  *)
ListsKept(ds, es) ==
  Len(es) = Len(ds) /\ \A list \in ItemLists : Len(es[Len(ds)][list]) = Len(ds[Len(ds)][list])

LEMMA DomainsThere ==
  ASSUME NEW l, NextLine(l), NEW ds, ds = doc.domains
  PROVE  /\ DomainsShape(ds) /\ Len(ds) \in Nat /\ Doc.domains = ds /\ ds = DomainsOf(read) /\ Doc = DocWith(ds)
         /\ (domain # <<>> => domain[1] = Len(ds) /\ Len(ds) \in 1 .. Len(ds))
<1>1. DomainsShape(ds) /\ Doc.domains = ds /\ Doc = DocWith(ds)
  BY DocIs DEF NextLine, ParserShape, DocShape
<1>2. ds = DomainsOf(read)
  BY MeaningIs DEF NextLine, WrittenHere, AsMeant
<1>3. Len(ds) \in Nat
  BY <1>1, Lengths
<1>4. ASSUME domain # <<>> PROVE domain[1] = Len(ds) /\ Len(ds) \in 1 .. Len(ds)
  <2>1. domain = <<Len(ds)>> /\ Len(ds) >= 1
    BY <1>4 DEF NextLine, ParserShape, PointersIn
  <2> QED BY <1>3, <2>1
<1> QED BY <1>1, <1>2, <1>3, <1>4

LEMMA AfterBlank ==
  ASSUME NEW l, NextLine(l), ReadBlank(l)
  PROVE  AsMeant' /\ ListsKept(doc.domains, doc'.domains)
<1>1. PICK ls, ms, ds : ls = read /\ ms = read' /\ ds = doc.domains
  OBVIOUS
<1>2. Growing(ls, ms) /\ ms[Len(ls) + 1] = l
  BY <1>1, LineAllowed
<1>3. l.class = "blank" /\ NotAComment /\ doc' = Doc
  BY DEF ReadBlank
<1>4. /\ l.class \notin PartLines \cup Items \cup Sections \cup {"depends", "domain"}
      /\ ~IsComment(l) /\ l.class \notin VersionLines
  BY <1>3 DEF PartLines, Items, Sections, IsComment, VersionLines
<1>5. DomainsOf(ms) = DomainsOf(ls)
  BY <1>2, <1>4, DomainsKept
<1>6. ds = DomainsOf(ls) /\ Doc = DocWith(ds) /\ Doc.domains = ds
  BY <1>1, DomainsThere
<1>7. AsMeant'
  BY <1>1, <1>3, <1>4, <1>5, <1>6, AfterDomains
<1> QED BY <1>1, <1>3, <1>6, <1>7 DEF ListsKept

LEMMA AfterDomain ==
  ASSUME NEW l, NextLine(l), ReadDomain(l)
  PROVE  AsMeant' /\ Len(doc'.domains) = Len(doc.domains) + 1
<1>1. PICK ls, ms, ds, d : ls = read /\ ms = read' /\ ds = doc.domains /\ d = NewDomain(l, Desc)
  OBVIOUS
<1>2. Growing(ls, ms) /\ ms[Len(ls) + 1] = l
  BY <1>1, LineAllowed
<1>3. l.class = "domain" /\ NotAComment
  BY DEF ReadDomain
<1>4. ~IsComment(l) /\ l.class \notin VersionLines /\ IsDomain(l)
  BY <1>3 DEF IsComment, VersionLines, IsDomain
<1>5. ds = DomainsOf(ls) /\ Doc.domains = ds
  BY <1>1, DomainsThere
<1>6. Desc = CommentsAbove(ls, Len(ls) + 1)
  BY <1>1 DEF NextLine, WrittenHere, AsMeant
<1>7. DomainsOf(ms) = Append(ds, d)
  BY <1>1, <1>2, <1>4, <1>5, <1>6, DomainsAppended
<1>8. doc' = DocWith(Append(ds, d))
  <2>1. doc' = [Doc EXCEPT !.domains = Append(Doc.domains, d)]
    BY <1>1 DEF ReadDomain
  <2> QED BY <1>5, <2>1 DEF DocWith
<1>9. AsMeant'
  BY <1>1, <1>3, <1>4, <1>7, <1>8, AfterDomains
<1>10. Len(doc'.domains) = Len(doc.domains) + 1
  BY <1>4 DEF NextLine, LineRead, NamesAfter
<1> QED BY <1>9, <1>10

LEMMA AfterDepends ==
  ASSUME NEW l, NextLine(l), ReadDepends(l)
  PROVE  AsMeant' /\ ListsKept(doc.domains, doc'.domains)
<1>1. PICK ls, ms, ds, a : ls = read /\ ms = read' /\ ds = doc.domains /\ a = Len(ds)
  OBVIOUS
<1>2. Growing(ls, ms) /\ ms[Len(ls) + 1] = l
  BY <1>1, LineAllowed
<1>3. l.class = "depends" /\ NotAComment /\ domain # <<>>
  BY DEF ReadDepends
<1>4. ~IsComment(l) /\ l.class \notin VersionLines
  BY <1>3 DEF IsComment, VersionLines
<1>5. ds = DomainsOf(ls) /\ Doc.domains = ds /\ domain[1] = a /\ a \in 1 .. Len(ds) /\ DomainsShape(ds)
  BY <1>1, <1>3, DomainsThere
<1>6. DomainOf(ls, Len(ls) + 1) # 0
  BY <1>1, <1>3 DEF NextLine, WrittenHere, PointersHere, DomainHere
<1>7. DomainsOf(ms) = AddDependency(ds, a, l.name)
  <2>1. PICK n : n = Len(ls)
    OBVIOUS
  <2>2. /\ Growing(ls, ms) /\ l = ms[n + 1] /\ l.class = "depends" /\ DomainOf(ls, n + 1) # 0
        /\ ds = DomainsOf(ls) /\ a = Len(ds)
    BY <1>1, <1>2, <1>3, <1>5, <1>6, <2>1
  <2> HIDE <1>1, <1>2, <1>3, <1>4, <1>5, <1>6
  <2> QED BY <2>1, <2>2, DependencyAddedTo
<1>8. doc' = DocWith(AddDependency(ds, a, l.name))
  <2>1. doc' = [Doc EXCEPT !.domains = AddDependency(Doc.domains, a, l.name)]
    BY <1>5 DEF ReadDepends, AddDependency
  <2> QED BY <1>5, <2>1 DEF DocWith
<1>9. AsMeant' /\ doc'.domains = DomainsOf(ms)
  BY <1>1, <1>3, <1>4, <1>7, <1>8, AfterDomains
<1>10. PICK es : es = AddDependency(ds, a, l.name)
  OBVIOUS
<1>11. Len(es) = Len(ds) /\ \A i \in 1 .. Len(ds) : \A list \in ItemLists : Len(es[i][list]) = Len(ds[i][list])
  BY <1>5, <1>10, DependencyAdded
<1>12. ListsKept(ds, es)
  BY <1>1, <1>5, <1>11 DEF ListsKept
<1> QED BY <1>1, <1>7, <1>9, <1>10, <1>12

LEMMA AfterItem ==
  ASSUME NEW l, NextLine(l), ReadItem(l)
  PROVE  /\ AsMeant' /\ Len(doc'.domains) = Len(doc.domains)
         /\ item' = <<Len(doc'.domains), ListOf[l.class],
                      Len(doc'.domains[Len(doc'.domains)][ListOf[l.class]])>>
<1>1. PICK ls, ms, ds, a, b, x, es :
        /\ ls = read /\ ms = read' /\ ds = doc.domains /\ a = Len(ds) /\ b = ListOf[l.class]
        /\ x = NewType(ds[a].name, l, TypeOf(l), Desc) /\ es = AddItem(ds, a, b, x)
  OBVIOUS
<1>2. Growing(ls, ms) /\ ms[Len(ls) + 1] = l
  BY <1>1, LineAllowed
<1>3. l.class \in Items /\ NotAComment /\ domain # <<>>
  BY DEF ReadItem
<1>4. ~IsComment(l) /\ l.class \notin VersionLines /\ IsItem(l) /\ ~IsDomain(l) /\ b \in ItemLists
  BY <1>1, <1>3 DEF IsComment, VersionLines, IsItem, IsDomain, Items, ListOf, ItemLists
<1>5. ds = DomainsOf(ls) /\ Doc.domains = ds /\ domain[1] = a /\ a \in 1 .. Len(ds) /\ DomainsShape(ds)
  BY <1>1, <1>3, DomainsThere
<1>6. Desc = CommentsAbove(ls, Len(ls) + 1)
  BY <1>1 DEF NextLine, WrittenHere, AsMeant
<1>7. DomainsOf(ms) = es
  BY <1>1, <1>2, <1>4, <1>5, <1>6, ItemAddedTo
<1>8. doc' = DocWith(es) /\ item' = <<a, b, Len(ds[a][b]) + 1>>
  <2>1. x = NewType(Doc.domains[domain[1]].name, l, IF l.class = "type" THEN Assigned(l.typ, l.array) ELSE Untyped, Desc)
    BY <1>1, <1>5 DEF TypeOf
  <2>2. doc' = [Doc EXCEPT !.domains = AddItem(Doc.domains, a, b, x)]
    BY <1>1, <1>5, <2>1 DEF ReadItem, AddItem
  <2>3. item' = <<a, b, Len(ds[a][b]) + 1>>
    BY <1>1, <1>5 DEF ReadItem
  <2> QED BY <1>1, <1>5, <2>2, <2>3 DEF DocWith
<1>9. AsMeant' /\ doc'.domains = es
  BY <1>1, <1>3, <1>4, <1>7, <1>8, AfterDomains
<1>10. ItemShape(x)
  BY <1>1, NewItem, DescSeq DEF NextLine, ParserShape
<1>11. OneItemMore(ds, es, a, b)
  BY <1>1, <1>4, <1>5, <1>10, ItemAdded
<1>12. Len(es) = Len(ds) /\ Len(es[a][b]) = Len(ds[a][b]) + 1
  BY <1>4, <1>5, <1>11 DEF OneItemMore
<1> QED BY <1>1, <1>8, <1>9, <1>12

(* A line that says something of the last item. *)
ItemAtEnd(ls, ms, ds, a, it, b, k) ==
  /\ ls = read /\ ms = read' /\ ds = doc.domains /\ a = Len(ds)
  /\ it = ItemOf(ls, Len(ls) + 1) /\ b = ListOf[ls[it].class] /\ k = Len(ds[a][b])

LEMMA ItemAt ==
  ASSUME NEW l, NextLine(l), ItemLine(l),
         NEW ls, NEW ms, NEW ds, NEW a, NEW it, NEW b, NEW k, ItemAtEnd(ls, ms, ds, a, it, b, k)
  PROVE  /\ it # 0 /\ a \in 1 .. Len(ds) /\ b \in ItemLists /\ item[1] = a /\ item[2] = b /\ item[3] = k
         /\ ds[a][b][k] = MeaningOfItem(ls, it) /\ DomainsOf(ms) = PutItem(ds, a, b, k, MeaningOfItem(ms, it))
<1> USE DEF ItemAtEnd
<1>1. Growing(ls, ms) /\ ms[Len(ls) + 1] = l /\ LiteralsInItem(ls, l) /\ InItsDomain(ls, l)
  BY LineAllowed
<1>2. ds = DomainsOf(ls) /\ Len(ds) \in Nat
  BY DomainsThere
<1>3. /\ it # 0 /\ a # 0 /\ k # 0 /\ ds[a][b][k] = MeaningOfItem(ls, it)
      /\ DomainsOf(ms) = PutItem(ds, a, b, k, MeaningOfItem(ms, it))
  <2>1. PICK n : n = Len(ls)
    OBVIOUS
  <2>2. Growing(ls, ms) /\ l = ms[n + 1] /\ it = ItemOf(ls, n + 1) /\ ds = DomainsOf(ls) /\ a = Len(ds)
    BY <1>1, <1>2, <2>1
  <2> HIDE <1>2
  <2> QED BY <1>1, <2>1, <2>2, ItemReplaced
<1>4. item = <<a, b, k>>
  <2>1. DomainHere < ItemHere
    BY <1>1 DEF InItsDomain, DomainHere, ItemHere
  <2>2. item = LastItem
    BY <2>1, Zenon DEF NextLine, WrittenHere, PointersHere
  <2> QED BY <2>2 DEF LastItem, LastList, ItemHere
<1>5. a \in 1 .. Len(ds)
  <2>1. PICK n : n = Len(ds)
    OBVIOUS
  <2>2. n \in Nat /\ a = n /\ a # 0
    BY <1>2, <1>3, <2>1
  <2> HIDE DEF ItemAtEnd
  <2>3. a \in 1 .. n
    BY <2>2
  <2> QED BY <2>1, <2>3
<1>6. b \in ItemLists
  <2>1. IsItem(ls[it])
    BY <1>1, <1>3, ItemAbove, Zenon
  <2> QED BY <2>1 DEF IsItem, Items, ListOf, ItemLists
<1>7. item[1] = a /\ item[2] = b /\ item[3] = k
  BY <1>4
<1> QED BY <1>3, <1>5, <1>6, <1>7, Zenon

LEMMA PutLengths ==
  ASSUME NEW ds, DomainsShape(ds), NEW a \in 1 .. Len(ds), a = Len(ds), NEW b \in ItemLists, NEW k, NEW x
  PROVE  ListsKept(ds, PutItem(ds, a, b, k, x))
<1>1. IsSeq(ds) /\ \A i \in 1 .. Len(ds) : DomainShape(ds[i])
  BY DEF DomainsShape
<1>2. PICK d, ts, us, e, es :
        /\ d = ds[a] /\ ts = d[b] /\ us = Put(ts, k, x)
        /\ e = [d EXCEPT ![b] = us] /\ es = PutItem(ds, a, b, k, x)
  OBVIOUS
<1>3. es = Put(ds, a, e)
  BY <1>2 DEF Put, PutItem
<1>4. Len(es) = Len(ds) /\ es[a] = e
  BY <1>1, <1>3, OnePlace
<1>5. DomainShape(d) /\ IsSeq(ts)
  BY <1>1, <1>2 DEF DomainShape, ItemsShape
<1>6. Len(us) = Len(ts)
  BY <1>2, <1>5, OnePlace
<1>7. \A list \in ItemLists : e[list] = IF list = b THEN us ELSE d[list]
  BY <1>2, <1>5 DEF DomainShape
<1>8. \A list \in ItemLists : Len(e[list]) = Len(d[list])
  <2> SUFFICES ASSUME NEW list \in ItemLists PROVE Len(e[list]) = Len(d[list])
    OBVIOUS
  <2>1. CASE list = b
    BY <1>2, <1>6, <1>7, <2>1
  <2>2. CASE list # b
    BY <1>7, <2>2
  <2> QED BY <2>1, <2>2
<1> QED BY <1>2, <1>4, <1>8 DEF ListsKept

LEMMA AfterItemLine ==
  ASSUME NEW l, NextLine(l), NotAComment, ItemLine(l), NEW ls, ls = read, NEW ms, ms = read', NEW x,
         x = MeaningOfItem(ms, ItemOf(ls, Len(ls) + 1)),
         doc' = DocWith(PutItem(doc.domains, item[1], item[2], item[3], x))
  PROVE  AsMeant' /\ ListsKept(doc.domains, doc'.domains)
<1>1. PICK ds, a, it, b, k : /\ ds = doc.domains /\ a = Len(ds) /\ it = ItemOf(ls, Len(ls) + 1)
                             /\ b = ListOf[ls[it].class] /\ k = Len(ds[a][b])
  BY Zenon
<1>2. /\ a \in 1 .. Len(ds) /\ b \in ItemLists /\ item[1] = a /\ item[2] = b /\ item[3] = k
      /\ DomainsOf(ms) = PutItem(ds, a, b, k, x)
  <2>1. ItemAtEnd(ls, ms, ds, a, it, b, k)
    BY <1>1 DEF ItemAtEnd
  <2>2. /\ it # 0 /\ a \in 1 .. Len(ds) /\ b \in ItemLists /\ item[1] = a /\ item[2] = b /\ item[3] = k
        /\ ds[a][b][k] = MeaningOfItem(ls, it) /\ DomainsOf(ms) = PutItem(ds, a, b, k, MeaningOfItem(ms, it))
    BY <2>1, ItemAt
  <2> QED BY <1>1, <2>2, Zenon
<1>3. ~IsComment(l) /\ l.class \notin VersionLines
  BY DEF ItemLine, PartLines, Sections, IsComment, VersionLines
<1>4. doc' = DocWith(DomainsOf(ms))
  BY <1>1, <1>2, Zenon
<1>5. AsMeant' /\ doc'.domains = DomainsOf(ms)
  BY <1>3, <1>4, AfterDomains
<1>6. DomainsShape(ds)
  BY <1>1, DomainsThere
<1>7. ListsKept(ds, PutItem(ds, a, b, k, x))
  BY <1>1, <1>2, <1>6, PutLengths, Zenon
<1> QED BY <1>1, <1>2, <1>5, <1>7, Zenon

LEMMA OpenLine ==
  ASSUME NEW l, NextLine(l), l.class \notin Anywhere, NEW ls, ls = read, NEW it, it = ItemOf(ls, Len(ls) + 1)
  PROVE  /\ l.class \in Sections \cup {"enum", "redirect"} => InItem(ls, l.class, it) = {}
         /\ l.class = "member" => MembersHere
         /\ l.class = "literal" => LiteralsHere
<1>1. l.class \in open
  BY DEF NextLine, Grammatical
<1> QED BY <1>1 DEF NextLine, WrittenHere, OpenHere, ItemHere

(* The item that the pointers lead to is the one that the line is below.    *)
LEMMA ItemPlace ==
  ASSUME NEW l, NextLine(l), ItemLine(l), NEW ls, ls = read, NEW it, it = ItemOf(ls, Len(ls) + 1)
  PROVE  it # 0 /\ doc.domains[item[1]][item[2]][item[3]] = MeaningOfItem(ls, it)
<1>1. PICK ms, ds, a, b, k : ms = read' /\ ds = doc.domains /\ a = Len(ds) /\ b = ListOf[ls[it].class] /\ k = Len(ds[a][b])
  OBVIOUS
<1>2. it # 0 /\ item[1] = a /\ item[2] = b /\ item[3] = k /\ ds[a][b][k] = MeaningOfItem(ls, it)
  <2>1. ItemAtEnd(ls, ms, ds, a, it, b, k)
    BY <1>1 DEF ItemAtEnd
  <2>2. /\ it # 0 /\ a \in 1 .. Len(ds) /\ b \in ItemLists /\ item[1] = a /\ item[2] = b /\ item[3] = k
        /\ ds[a][b][k] = MeaningOfItem(ls, it) /\ DomainsOf(ms) = PutItem(ds, a, b, k, MeaningOfItem(ms, it))
    BY <2>1, ItemAt
  <2> QED BY <2>2
<1> QED BY <1>1, <1>2

LEMMA ItemPointed ==
  ASSUME NEW l, NextLine(l), ItemLine(l), NEW ls, ls = read, NEW it, it = ItemOf(ls, Len(ls) + 1),
         NEW t, t = doc.domains[item[1]][item[2]][item[3]]
  PROVE  it # 0 /\ t = MeaningOfItem(ls, it)
  BY ItemPlace, Zenon

LEMMA AfterEnum ==
  ASSUME NEW l, NextLine(l), ReadEnum(l)
  PROVE  AsMeant' /\ ListsKept(doc.domains, doc'.domains)
<1>1. PICK ls, ms, it, t, x : /\ ls = read /\ ms = read' /\ it = ItemOf(ls, Len(ls) + 1)
                              /\ t = doc.domains[item[1]][item[2]][item[3]] /\ x = [t EXCEPT !.enum = <<>>]
  OBVIOUS
<1>2. l.class = "enum" /\ NotAComment /\ ItemLine(l) /\ l.class \notin Anywhere
  BY DEF ReadEnum, ItemLine, PartLines, Anywhere
<1>3. Growing(ls, ms) /\ ms[Len(ls) + 1] = l
  BY <1>1, LineAllowed, Zenon
<1>4. it # 0 /\ t = MeaningOfItem(ls, it)
  BY <1>1, <1>2, ItemPointed, Zenon
<1>5. InItem(ls, "enum", it) = {}
  BY <1>1, <1>2, OpenLine
<1>6. MeaningOfItem(ms, it) = WithEnum(t, <<>>)
  <2>1. PICK n : n = Len(ls)
    OBVIOUS
  <2>2. Growing(ls, ms) /\ l = ms[n + 1] /\ l.class = "enum" /\ it = ItemOf(ls, n + 1)
    BY <1>1, <1>2, <1>3, <2>1
  <2> HIDE <1>1, <1>2, <1>3
  <2> QED BY <1>4, <1>5, <2>1, <2>2, ChangedEnum
<1>7. x = MeaningOfItem(ms, it)
  BY <1>1, <1>6, Zenon DEF WithEnum
<1>8. doc' = DocWith(PutItem(doc.domains, item[1], item[2], item[3], x))
  <2>1. Doc.domains = doc.domains
    BY DomainsThere
  <2>2. doc' = [Doc EXCEPT !.domains = PutItem(Doc.domains, item[1], item[2], item[3], x)]
    BY <1>1, <2>1, Zenon DEF ReadEnum, PutItem
  <2> QED BY <2>1, <2>2 DEF DocWith
<1> QED BY <1>1, <1>2, <1>7, <1>8, AfterItemLine, Zenon

LEMMA AfterSection ==
  ASSUME NEW l, NextLine(l), ReadSection(l)
  PROVE  AsMeant' /\ ListsKept(doc.domains, doc'.domains)
<1>1. PICK ls, ms, it, t, c, x :
        /\ ls = read /\ ms = read' /\ it = ItemOf(ls, Len(ls) + 1) /\ c = l.class
        /\ t = doc.domains[item[1]][item[2]][item[3]] /\ x = [t EXCEPT ![c] = <<>>]
  OBVIOUS
<1>2. c \in Sections /\ NotAComment /\ ItemLine(l) /\ l.class \notin Anywhere
  BY <1>1, Zenon DEF ReadSection, ItemLine, Sections, Anywhere
<1>3. Growing(ls, ms) /\ ms[Len(ls) + 1] = l
  BY <1>1, LineAllowed
<1>4. it # 0 /\ t = MeaningOfItem(ls, it)
  BY <1>1, <1>2, ItemPointed, Zenon
<1>5. InItem(ls, c, it) = {}
  BY <1>1, <1>2, OpenLine
<1>6. MeaningOfItem(ms, it) = [t EXCEPT ![c] = <<>>]
  <2>1. PICK n : n = Len(ls)
    OBVIOUS
  <2>2. Growing(ls, ms) /\ l = ms[n + 1] /\ l.class = c /\ it = ItemOf(ls, n + 1)
    BY <1>1, <1>3, <2>1
  <2> HIDE <1>1, <1>3
  <2> QED BY <1>2, <1>4, <1>5, <2>1, <2>2, ChangedSection
<1>7. x = MeaningOfItem(ms, it)
  BY <1>1, <1>6, Zenon
<1>8. doc' = DocWith(PutItem(doc.domains, item[1], item[2], item[3], x))
  <2>1. Doc.domains = doc.domains
    BY DomainsThere
  <2>2. doc' = [Doc EXCEPT !.domains = PutItem(Doc.domains, item[1], item[2], item[3], x)]
    BY <1>1, <2>1, Zenon DEF ReadSection, PutItem
  <2> QED BY <2>1, <2>2 DEF DocWith
<1> QED BY <1>1, <1>2, <1>7, <1>8, AfterItemLine, Zenon

LEMMA AfterRedirect ==
  ASSUME NEW l, NextLine(l), ReadRedirect(l)
  PROVE  AsMeant' /\ ListsKept(doc.domains, doc'.domains)
<1>1. PICK ls, ms, it, t, r, x :
        /\ ls = read /\ ms = read' /\ it = ItemOf(ls, Len(ls) + 1) /\ r = <<l.name, NamedInstead(Desc)>>
        /\ t = doc.domains[item[1]][item[2]][item[3]] /\ x = [t EXCEPT !.redirect = r]
  OBVIOUS
<1>2. l.class = "redirect" /\ NotAComment /\ ItemLine(l) /\ l.class \notin Anywhere
  BY DEF ReadRedirect, ItemLine, PartLines, Anywhere
<1>3. Growing(ls, ms) /\ ms[Len(ls) + 1] = l
  BY <1>1, LineAllowed, Zenon
<1>4. it # 0 /\ t = MeaningOfItem(ls, it)
  BY <1>1, <1>2, ItemPointed, Zenon
<1>5. InItem(ls, "redirect", it) = {}
  BY <1>1, <1>2, OpenLine
<1>6. MeaningOfItem(ms, it) = [t EXCEPT !.redirect = <<l.name, NamedInstead(CommentsAbove(ls, Len(ls) + 1))>>]
  BY <1>1, <1>2, <1>3, <1>4, <1>5, ChangedRedirect
<1>7. x = MeaningOfItem(ms, it)
  <2>1. Desc = CommentsAbove(ls, Len(ls) + 1)
    BY <1>1, Zenon DEF NextLine, WrittenHere, AsMeant
  <2> QED BY <1>1, <1>6, <2>1, Zenon
<1>8. doc' = DocWith(PutItem(doc.domains, item[1], item[2], item[3], x))
  <2>1. Doc.domains = doc.domains
    BY DomainsThere
  <2>2. doc' = [Doc EXCEPT !.domains = PutItem(Doc.domains, item[1], item[2], item[3], x)]
    BY <1>1, <2>1, Zenon DEF ReadRedirect, PutItem
  <2> QED BY <2>1, <2>2 DEF DocWith
<1> QED BY <1>1, <1>2, <1>7, <1>8, AfterItemLine, Zenon

LEMMA AfterMember ==
  ASSUME NEW l, NextLine(l), ReadMember(l)
  PROVE  AsMeant' /\ ListsKept(doc.domains, doc'.domains)
<1>1. PICK ls, ms, it, t, c, m, x :
        /\ ls = read /\ ms = read' /\ it = ItemOf(ls, Len(ls) + 1) /\ c = ls[SectionOf(ls, Len(ls) + 1)].class
        /\ t = doc.domains[item[1]][item[2]][item[3]]
        /\ m = NewType(doc.domains[domain[1]].name, l, Assigned(l.typ, l.array), Desc)
        /\ x = [t EXCEPT ![c] = Append(t[c], m)]
  BY Zenon
<1>2. l.class = "member" /\ NotAComment /\ ItemLine(l) /\ l.class \notin Anywhere /\ domain # <<>>
  BY Zenon DEF ReadMember, ItemLine, PartLines, Anywhere
<1>3. Growing(ls, ms) /\ ms[Len(ls) + 1] = l /\ IsSeq(ls)
  BY <1>1, LineAllowed, Zenon DEF OneMore
<1>4. it # 0 /\ t = MeaningOfItem(ls, it)
  BY <1>1, <1>2, ItemPointed, Zenon
<1>5. MembersHere
  BY <1>2, OpenLine
<1>6. c \in Sections
  <2>1. PICK s : s = SectionOf(ls, Len(ls) + 1)
    OBVIOUS
  <2>2. it < s
    BY <1>1, <1>5, <2>1, Zenon DEF MembersHere, ItemHere, SectionHere
  <2>3. it \in 0 .. Len(ls)
    BY <1>1, <1>4, <1>3, ItemAbove
  <2>4. s # 0
    BY <2>2, <2>3
  <2> QED BY <1>1, <1>3, <2>1, <2>4, SectionAbove, Zenon
<1>7. subitems = <<item[1], item[2], item[3], c>>
  BY <1>1, <1>5, Zenon DEF MembersHere, SectionHere
<1>8. subitems[1] = item[1] /\ subitems[2] = item[2] /\ subitems[3] = item[3] /\ subitems[4] = c
  BY <1>7
<1>9. m = MeaningOfMember(ms, Len(ls) + 1)
  <2>1. PICK d, ds : d = DomainOf(ls, Len(ls) + 1) /\ ds = doc.domains
    OBVIOUS
  <2>2. d # 0
    BY <1>1, <1>2, <2>1, Zenon DEF NextLine, WrittenHere, PointersHere, DomainHere
  <2>3. ds = DomainsOf(ls) /\ domain[1] = Len(ds)
    BY <1>1, <1>2, <2>1, DomainsThere, Zenon
  <2>4. ds[Len(ds)].name = ls[d].name
    BY <1>3, <2>1, <2>2, <2>3, LastDomainName
  <2>5. Desc = CommentsAbove(ls, Len(ls) + 1)
    BY <1>1, Zenon DEF NextLine, WrittenHere, AsMeant
  <2>6. MeaningOfMember(ms, Len(ls) + 1) = NewType(ls[d].name, l, Assigned(l.typ, l.array), CommentsAbove(ls, Len(ls) + 1))
    BY <1>2, <1>3, <2>1, MemberNew
  <2>7. doc.domains[domain[1]].name = ls[d].name
    BY <2>1, <2>3, <2>4
  <2>8. m = NewType(doc.domains[domain[1]].name, l, Assigned(l.typ, l.array), Desc)
    BY <1>1, Zenon
  <2> QED BY <2>5, <2>6, <2>7, <2>8, Zenon
<1>10. MeaningOfItem(ms, it) = [t EXCEPT ![c] = Append(t[c], MeaningOfMember(ms, Len(ls) + 1))]
  <2>1. PICK n : n = Len(ls)
    OBVIOUS
  <2>2. /\ Growing(ls, ms) /\ l = ms[n + 1] /\ l.class = "member" /\ it = ItemOf(ls, n + 1) /\ it # 0
        /\ c \in Sections /\ c = ls[SectionOf(ls, n + 1)].class /\ t = MeaningOfItem(ls, it)
    BY <1>1, <1>2, <1>3, <1>4, <1>6, <2>1
  <2> HIDE <1>1, <1>2, <1>3, <1>4, <1>6
  <2>3. MeaningOfItem(ms, it) = [t EXCEPT ![c] = Append(t[c], MeaningOfMember(ms, n + 1))]
    <3>1. MemberBelow(ls, ms, n, l, it, c, t)
      BY <2>1, <2>2 DEF MemberBelow
    <3> HIDE <2>1, <2>2
    <3> QED BY <3>1, ChangedMember
  <2> QED BY <2>1, <2>3
<1>11. x = MeaningOfItem(ms, it)
  BY <1>1, <1>9, <1>10, Zenon
<1>12. doc' = DocWith(PutItem(doc.domains, item[1], item[2], item[3], x))
  <2>1. Doc.domains = doc.domains
    BY DomainsThere
  <2>2. m = NewType(Doc.domains[domain[1]].name, l, Assigned(l.typ, l.array), Desc)
    BY <1>1, <2>1, Zenon
  <2>3. doc' = [Doc EXCEPT !.domains[subitems[1]][subitems[2]][subitems[3]][subitems[4]] = Append(@, m)]
    BY <2>2, Zenon DEF ReadMember
  <2>4. doc' = [Doc EXCEPT !.domains[item[1]][item[2]][item[3]][c] = Append(@, m)]
    BY <1>8, <2>3, Zenon
  <2>5. doc' = [Doc EXCEPT !.domains = PutItem(Doc.domains, item[1], item[2], item[3], x)]
    BY <1>1, <2>1, <2>4, Zenon DEF PutItem
  <2> QED BY <2>1, <2>5 DEF DocWith
<1> QED BY <1>1, <1>2, <1>11, <1>12, AfterItemLine, Zenon

LEMMA MemberThere ==
  ASSUME NEW ls, ls = read, IsSeq(ls), MemberHere, NEW it, it = ItemHere, NEW o, o = OwnerHere,
         NEW c, c = ls[SectionHere].class
  PROVE  c \in Sections /\ o \in InSection(ls, it, c) /\ \A j \in InSection(ls, it, c) : j <= o
<1>1. PICK n, s : n = Len(ls) /\ s = SectionOf(ls, n + 1)
  OBVIOUS
<1>2. n \in Nat /\ n + 1 \in 1 .. n + 1
  BY <1>1, SeqFacts
<1>3. it = ItemOf(ls, n + 1) /\ o = OwnerOf(ls, n + 1) /\ c = ls[s].class
  BY <1>1 DEF ItemHere, OwnerHere, SectionHere
<1>4. ls[o].class = "member" /\ it < s /\ s < o /\ \A j \in InItem(ls, "member", it) : j <= o
  BY <1>1 DEF MemberHere, ItemHere, OwnerHere, SectionHere
<1>5. /\ Nearest(it, ItemsIn(ls), n + 1) /\ Nearest(s, SectionsIn(ls), n + 1) /\ Nearest(o, OwnersIn(ls), n + 1)
  BY <1>1, <1>2, <1>3, OwnersAre
<1>6. it \in 0 .. n /\ s \in 1 .. n /\ o \in 1 .. n /\ s \in SectionsIn(ls) /\ o \in 1 .. n + 1 /\ it < o
  <2>1. PICK j : j = n + 1
    OBVIOUS
  <2>2. it \in 0 .. j - 1 /\ s \in 0 .. j - 1 /\ o \in 0 .. j - 1
    <3>1. Nearest(it, ItemsIn(ls), j) /\ Nearest(s, SectionsIn(ls), j) /\ Nearest(o, OwnersIn(ls), j)
      BY <1>5, <2>1
    <3> QED BY <3>1 DEF Nearest
  <2>3. it \in 0 .. n /\ s \in 1 .. n /\ o \in 1 .. n /\ o \in 1 .. n + 1 /\ it < o
    BY <1>2, <1>4, <2>1, <2>2
  <2>4. s # 0
    BY <2>3
  <2> QED BY <1>5, <2>3, <2>4 DEF Nearest
<1>7. c \in Sections
  BY <1>3, <1>6 DEF SectionsIn, IsSection
<1>8. ItemOf(ls, o) = it /\ SectionOf(ls, o) = s
  BY <1>1, <1>3, <1>4, <1>6, OwnersBetween
<1>9. o \in InSection(ls, it, c)
  BY <1>1, <1>3, <1>4, <1>6, <1>8 DEF InSection, InItem, AllOf
<1>10. \A j \in InSection(ls, it, c) : j \in InItem(ls, "member", it)
  BY DEF InSection
<1> QED BY <1>4, <1>7, <1>9, <1>10

LEMMA AfterLiteral ==
  ASSUME NEW l, NextLine(l), ReadLiteral(l)
  PROVE  AsMeant' /\ ListsKept(doc.domains, doc'.domains)
<1>1. PICK ls, ms, n, it, o, e, t, x :
        /\ ls = read /\ ms = read' /\ n = Len(ls) /\ it = ItemOf(ls, n + 1) /\ o = OwnerOf(ls, n + 1)
        /\ e = enumliterals /\ t = doc.domains[item[1]][item[2]][item[3]] /\ x = WithLiteral(t, e, l.value)
  BY Zenon
<1>2. l.class = "literal" /\ NotAComment /\ ItemLine(l) /\ l.class \notin Anywhere /\ e # <<>>
  BY <1>1, Zenon DEF ReadLiteral, ItemLine, PartLines, Anywhere
<1>3. Growing(ls, ms) /\ ms[n + 1] = l /\ IsSeq(ls)
  BY <1>1, LineAllowed, Zenon DEF OneMore
<1>4. it # 0 /\ t = MeaningOfItem(ls, it)
  BY <1>1, <1>2, ItemPointed
<1>5. LiteralsHere
  BY <1>2, OpenLine
<1>6. ASSUME EnumHere
      PROVE  x = MeaningOfItem(ms, it) /\ e[1] = item[1] /\ e[2] = item[2] /\ e[3] = item[3] /\ e # Detached
  <2>1. e = item /\ InItem(ls, "enum", it) = {o}
    BY <1>1, <1>6 DEF EnumHere, ItemHere, OwnerHere
  <2>2. Len(e) = 3
    BY <1>2, <2>1 DEF NextLine, ParserShape, PointersIn
  <2>3. x = WithEnum(t, Append(t.enum, l.value))
    BY <1>1, <2>2, Zenon DEF WithLiteral, WithEnum
  <2>4. MeaningOfItem(ms, it) = WithEnum(t, Append(t.enum, l.value))
    <3>1. /\ n = Len(ls) /\ l = ms[n + 1] /\ l.class = "literal" /\ it = ItemOf(ls, n + 1) /\ it # 0
          /\ InItem(ls, "enum", it) = {OwnerOf(ls, n + 1)} /\ t = MeaningOfItem(ls, it) /\ Growing(ls, ms)
      BY <1>1, <1>2, <1>3, <1>4, <2>1
    <3> HIDE <1>1, <1>2, <1>3, <1>4, <2>1
    <3> QED BY <3>1, ChangedLiteral
  <2>5. e # Detached
    BY <2>2 DEF Detached
  <2> QED BY <2>1, <2>3, <2>4, <2>5
<1>7. ASSUME MemberHere
      PROVE  x = MeaningOfItem(ms, it) /\ e[1] = item[1] /\ e[2] = item[2] /\ e[3] = item[3] /\ e # Detached
  <2>1. PICK c, k : c = ls[SectionHere].class /\ k = Len(MembersOf(ls, it, c))
    OBVIOUS
  <2>2. e = <<item[1], item[2], item[3], c, k>>
    BY <1>1, <1>7, <2>1 DEF MemberHere, ItemHere
  <2>3. Len(e) # 3 /\ e[1] = item[1] /\ e[2] = item[2] /\ e[3] = item[3] /\ e[4] = c /\ e[5] = k
    BY <2>2
  <2>4. c \in Sections /\ o \in InSection(ls, it, c) /\ \A j \in InSection(ls, it, c) : j <= o
    BY <1>1, <1>3, <1>7, <2>1, MemberThere DEF ItemHere, OwnerHere
  <2>5. k = Len(t[c])
    BY <1>4, <2>1, <2>4, ItemIs
  <2>6. x = [t EXCEPT ![c][k].enum = Append(@, l.value)]
    BY <1>1, <2>3, Zenon DEF WithLiteral
  <2>7. x = [t EXCEPT ![c] = Put(t[c], k, WithEnum(t[c][k], Append(t[c][k].enum, l.value)))]
    BY <2>6 DEF Put, WithEnum
  <2>8. LiteralBelow(ls, ms, n, l, it, c, o, t, k)
    BY <1>1, <1>2, <1>3, <1>4, <2>4, <2>5 DEF LiteralBelow
  <2>9. MeaningOfItem(ms, it) = [t EXCEPT ![c] = Put(t[c], k, WithEnum(t[c][k], Append(t[c][k].enum, l.value)))]
    BY <2>8, ChangedMemberLiteral
  <2>10. e # Detached
    BY <2>2 DEF Detached
  <2> QED BY <2>3, <2>7, <2>9, <2>10
<1>8. x = MeaningOfItem(ms, it) /\ e[1] = item[1] /\ e[2] = item[2] /\ e[3] = item[3] /\ e # Detached
  BY <1>5, <1>6, <1>7, Zenon DEF LiteralsHere
<1>9. doc' = DocWith(PutItem(doc.domains, item[1], item[2], item[3], x))
  <2>1. Doc.domains = doc.domains
    BY DomainsThere
  <2>2. doc' = [Doc EXCEPT !.domains =
          PutItem(Doc.domains, e[1], e[2], e[3], WithLiteral(Doc.domains[e[1]][e[2]][e[3]], e, l.value))]
    <3>1. CASE Len(e) = 3
      BY <1>1, <1>8, <3>1, Zenon DEF ReadLiteral, PutItem, WithLiteral
    <3>2. CASE Len(e) # 3
      BY <1>1, <1>8, <3>2, Zenon DEF ReadLiteral, PutItem, WithLiteral
    <3> QED BY <3>1, <3>2
  <2>3. x = WithLiteral(Doc.domains[e[1]][e[2]][e[3]], e, l.value)
    BY <1>1, <1>8, <2>1
  <2> QED BY <1>8, <2>1, <2>2, <2>3 DEF DocWith
<1> QED BY <1>1, <1>2, <1>8, <1>9, AfterItemLine

LEMMA AfterVersion ==
  ASSUME NEW l, NextLine(l), ReadVersion(l) \/ ReadMajorMinor(l)
  PROVE  AsMeant' /\ ListsKept(doc.domains, doc'.domains)
<1>1. PICK ls, ms, n, v, w : ls = read /\ ms = read' /\ n = Len(ls) /\ v = VersionOf(ls) /\ w = VersionOf(ms)
  OBVIOUS
<1>2. NotAComment /\ l.class \in VersionLines
  BY DEF ReadVersion, ReadMajorMinor, VersionLines
<1>3. ~IsComment(l) /\ l.class \notin PartLines \cup Items \cup Sections \cup {"depends", "domain"}
  BY <1>2 DEF IsComment, PartLines, Items, Sections, VersionLines
<1>4. Growing(ls, ms) /\ OneMore(ls, ms) /\ ms[n + 1] = l
  BY <1>1, LineAllowed
<1>5. v = doc.version
  BY <1>1, MeaningIs DEF NextLine, WrittenHere, AsMeant
<1>6. l.class = "version" => \A j \in 1 .. n : ls[j].class \notin VersionLines
  BY <1>1, <1>3 DEF NextLine, Grammatical, Anywhere, WrittenHere, OpenHere
<1>7. l.class \in {"major", "minor"} => v # <<>>
  BY <1>5 DEF ReadVersion, ReadMajorMinor
<1>8. w = IF l.class = "version" THEN <<0, 0>>
          ELSE IF l.class = "major" THEN <<l.number, v[2]>>
          ELSE IF l.class = "minor" THEN <<v[1], l.number>> ELSE v
  BY <1>1, <1>4, <1>6, <1>7, VersionMore
<1>9. Doc.version = v /\ IsDoc(Doc)
  BY <1>5 DEF NextLine, ParserShape, DocShape, IsDoc, Doc
<1>10. doc' = [Doc EXCEPT !.version = w]
  <2>1. CASE ReadVersion(l)
    BY <1>8, <2>1 DEF ReadVersion
  <2>2. CASE ReadMajorMinor(l)
    BY <1>8, <1>9, <2>2 DEF ReadMajorMinor
  <2> QED BY <2>1, <2>2
<1>11. doc.domains = DomainsOf(ls) /\ Doc.domains = doc.domains
  BY <1>1, DomainsThere
<1>12. DomainsOf(ms) = DomainsOf(ls)
  BY <1>1, <1>3, <1>4, DomainsKept
<1>13. doc' = [copyright |-> Doc.copyright, version |-> w, domains |-> DomainsOf(ms)]
  BY <1>9, <1>10, <1>11, <1>12 DEF IsDoc
<1>14. AsMeant'
  BY <1>1, <1>2, <1>3, <1>13, AfterOther
<1> QED BY <1>11, <1>12, <1>13, <1>14 DEF ListsKept

(* The document after a line, whatever its class. *)
LEMMA AfterLine ==
  ASSUME NEW l, NextLine(l)
  PROVE  AsMeant' /\ (IsDomain(l) \/ IsItem(l) \/ ListsKept(doc.domains, doc'.domains))
<1>1. ~ReadUnknown(l) /\ ~ReadNil(l)
  BY DEF NextLine, ReadUnknown, ReadNil
<1>2. CASE ReadComment(l)
  BY <1>2, AfterComment, Zenon DEF ReadComment, ListsKept
<1>3. CASE ReadDomain(l)
  BY <1>3, AfterDomain DEF ReadDomain, IsDomain
<1>4. CASE ReadItem(l)
  BY <1>4, AfterItem, Zenon DEF ReadItem, IsItem
<1> QED BY <1>1, <1>2, <1>3, <1>4, AfterBlank, AfterDepends, AfterMember, AfterSection, AfterEnum, AfterVersion,
           AfterRedirect, AfterLiteral DEF NextLine, ReadLine

-----------------------------------------------------------------------------
(* Where the next line belongs, after a line.                              *)
LEMMA HereAfter ==
  ASSUME NEW l, NextLine(l), NEW n, n = Len(read)
  PROVE  /\ n \in Nat /\ Len(read') = n + 1 /\ read'[n + 1] = l /\ \A i \in 1 .. n : read'[i] = read[i]
         /\ DomainHere \in 0 .. n /\ ItemHere \in 0 .. n /\ SectionHere \in 0 .. n /\ OwnerHere \in 0 .. n
         /\ DomainHere' = IF IsDomain(l) THEN n + 1 ELSE DomainHere
         /\ ItemHere' = IF IsItem(l) THEN n + 1 ELSE ItemHere
         /\ SectionHere' = IF IsSection(l) THEN n + 1 ELSE SectionHere
         /\ OwnerHere' = IF OwnsLiterals(l) THEN n + 1 ELSE OwnerHere
<1>1. PICK ls, ms : ls = read /\ ms = read'
  OBVIOUS
<1>2. OneMore(ls, ms) /\ ms[n + 1] = l
  BY <1>1, LineAllowed
<1>3. n \in Nat /\ Len(ms) = n + 1 /\ \A i \in 1 .. n : ms[i] = ls[i]
  BY <1>1, <1>2 DEF OneMore
<1>4. PICK m : m = n + 2
  OBVIOUS
<1>5. n + 1 + 1 = m /\ n + 1 \in 1 .. n + 1
  BY <1>3, <1>4
<1>6. /\ DomainHere' = DomainOf(ms, m) /\ ItemHere' = ItemOf(ms, m)
      /\ SectionHere' = SectionOf(ms, m) /\ OwnerHere' = OwnerOf(ms, m)
  BY <1>1, <1>3, <1>5 DEF DomainHere, ItemHere, SectionHere, OwnerHere
<1>7. /\ DomainHere = DomainOf(ls, n + 1) /\ ItemHere = ItemOf(ls, n + 1)
      /\ SectionHere = SectionOf(ls, n + 1) /\ OwnerHere = OwnerOf(ls, n + 1)
  BY <1>1 DEF DomainHere, ItemHere, SectionHere, OwnerHere
<1>8. /\ DomainOf(ms, m) = IF IsDomain(l) THEN n + 1 ELSE DomainOf(ls, n + 1)
      /\ ItemOf(ms, m) = IF IsItem(l) THEN n + 1 ELSE ItemOf(ls, n + 1)
      /\ SectionOf(ms, m) = IF IsSection(l) THEN n + 1 ELSE SectionOf(ls, n + 1)
      /\ OwnerOf(ms, m) = IF OwnsLiterals(l) THEN n + 1 ELSE OwnerOf(ls, n + 1)
  BY <1>1, <1>2, <1>4, OwnersNext
<1>9. /\ DomainOf(ls, n + 1) \in 0 .. n /\ ItemOf(ls, n + 1) \in 0 .. n
      /\ SectionOf(ls, n + 1) \in 0 .. n /\ OwnerOf(ls, n + 1) \in 0 .. n
  BY <1>1, <1>2, <1>5, OwnerAbove
<1> QED BY <1>1, <1>2, <1>3, <1>6, <1>7, <1>8, <1>9

(* A line is read as its class says. *)
LEMMA ReadAs ==
  ASSUME NEW l, NextLine(l)
  PROVE  /\ IsDomain(l) => ReadDomain(l) /\ ~IsItem(l) /\ ~IsSection(l)
         /\ IsItem(l) => ReadItem(l) /\ ~IsDomain(l) /\ ~IsSection(l)
         /\ IsSection(l) => ReadSection(l) /\ ~IsDomain(l) /\ ~IsItem(l)
         /\ l.class = "enum" => ReadEnum(l)
         /\ l.class = "member" => ReadMember(l)
<1> QED BY Zenon DEF NextLine, ReadLine, IsDomain, IsItem, IsSection, Items, Sections,
               ReadComment, ReadBlank, ReadDomain, ReadDepends, ReadItem, ReadMember, ReadSection, ReadEnum,
               ReadVersion, ReadMajorMinor, ReadRedirect, ReadLiteral, ReadUnknown, ReadNil

LEMMA Unmoved ==
  ASSUME NEW l, NextLine(l), ~IsDomain(l), ~IsItem(l)
  PROVE  /\ domain' = domain /\ item' = item
         /\ ~IsSection(l) => subitems' = subitems
         /\ l.class \notin {"enum", "member"} /\ ~IsSection(l) => enumliterals' = enumliterals
<1> QED BY Zenon DEF NextLine, ReadLine, IsDomain, IsItem, IsSection,
               ReadComment, ReadBlank, ReadDomain, ReadDepends, ReadItem, ReadMember, ReadSection, ReadEnum,
               ReadVersion, ReadMajorMinor, ReadRedirect, ReadLiteral, ReadUnknown, ReadNil

(* The pointers to the domain and to the item. *)
LEMMA PointersAfter ==
  ASSUME NEW l, NextLine(l)
  PROVE  PointersHere'
<1>1. PICK n : n = Len(read)
  OBVIOUS
<1>2. PointersHere
  BY DEF NextLine, WrittenHere
<1>3. CASE IsDomain(l)
  <2>1. l.class = "domain"
    BY <1>3 DEF IsDomain
  <2>2. ReadDomain(l)
    BY <1>3, ReadAs
  <2>3. ~IsItem(l)
    BY <2>1 DEF IsItem, Items
  <2>4. DomainHere' = n + 1 /\ ItemHere' = ItemHere /\ ItemHere \in 0 .. n /\ n \in Nat
    BY <1>1, <1>3, <2>3, HereAfter
  <2>5. domain' = <<Len(doc'.domains)>>
    BY <2>2, AfterDomain DEF ReadDomain
  <2>6. ~(DomainHere' < ItemHere') /\ DomainHere' # 0
    BY <2>4
  <2> QED BY <2>5, <2>6 DEF PointersHere
<1>4. CASE IsItem(l)
  <2>1. l.class \in Items
    BY <1>4 DEF IsItem
  <2>2. ReadItem(l)
    BY <1>4, ReadAs
  <2>3. ~IsDomain(l)
    BY <2>1 DEF IsDomain, Items
  <2>4. DomainHere' = DomainHere /\ ItemHere' = n + 1 /\ read'[n + 1] = l
    BY <1>1, <1>4, <2>3, HereAfter
  <2>5. domain' = domain
    BY <2>2 DEF ReadItem
  <2>6. /\ Len(doc'.domains) = Len(doc.domains)
        /\ item' = <<Len(doc'.domains), ListOf[l.class], Len(doc'.domains[Len(doc'.domains)][ListOf[l.class]])>>
    BY <2>2, AfterItem
  <2>7. item' = LastItem'
    BY <2>4, <2>6 DEF LastItem, LastList
  <2> QED BY <1>2, <2>4, <2>5, <2>6, <2>7 DEF PointersHere
<1>5. CASE ~IsDomain(l) /\ ~IsItem(l)
  <2>1. PICK ds, es : ds = doc.domains /\ es = doc'.domains
    OBVIOUS
  <2>2. ListsKept(ds, es)
    BY <1>5, <2>1, AfterLine
  <2>3. DomainHere' = DomainHere /\ ItemHere' = ItemHere /\ ItemHere \in 0 .. n /\ DomainHere \in 0 .. n
    BY <1>1, <1>5, HereAfter
  <2>4. domain' = domain /\ item' = item
    BY <1>5, Unmoved
  <2>5. Len(es) = Len(ds)
    BY <2>2 DEF ListsKept
  <2>6. ASSUME DomainHere' < ItemHere' PROVE item' = LastItem'
    <3>1. item = LastItem /\ ItemHere # 0 /\ ItemHere \in 1 .. n
      BY <1>2, <2>3, <2>6 DEF PointersHere
    <3>2. read'[ItemHere] = read[ItemHere]
      BY <1>1, <3>1, HereAfter
    <3>3. LastList' = LastList
      BY <2>3, <3>2 DEF LastList
    <3>4. LastList \in ItemLists
      <4>1. Growing(read, read')
        BY LineAllowed
      <4>2. IsItem(read[ItemHere])
        BY <1>1, <3>1, <4>1, ItemAbove DEF ItemHere
      <4> QED BY <4>2 DEF LastList, IsItem, Items, ListOf, ItemLists
    <3>5. PICK b : b = LastList
      OBVIOUS
    <3>6. Len(es[Len(ds)][b]) = Len(ds[Len(ds)][b])
      BY <2>2, <3>4, <3>5 DEF ListsKept
    <3>7. LastItem = <<Len(ds), b, Len(ds[Len(ds)][b])>> /\ LastItem' = <<Len(es), b, Len(es[Len(es)][b])>>
      BY <2>1, <3>3, <3>5 DEF LastItem
    <3> QED BY <2>4, <2>5, <3>1, <3>6, <3>7
  <2> QED BY <1>2, <2>1, <2>3, <2>4, <2>5, <2>6 DEF PointersHere
<1> QED BY <1>3, <1>4, <1>5

-----------------------------------------------------------------------------
(* What is open after a line: the pointers that it will need.              *)
(* A line that begins no domain, item or section.                          *)
WithinSection(l) == ~IsDomain(l) /\ ~IsItem(l) /\ ~IsSection(l)

LEMMA MembersKeptHere ==
  ASSUME NEW l, NextLine(l), WithinSection(l), MembersHere
  PROVE  MembersHere'
<1>1. PICK n : n = Len(read)
  OBVIOUS
<1>2. ItemHere' = ItemHere /\ SectionHere' = SectionHere /\ ItemHere \in 0 .. n /\ SectionHere \in 0 .. n
  BY <1>1, HereAfter DEF WithinSection
<1>3. ItemHere < SectionHere /\ subitems = <<item[1], item[2], item[3], read[SectionHere].class>>
  BY DEF MembersHere
<1>4. SectionHere \in 1 .. n
  BY <1>2, <1>3
<1>5. read'[SectionHere] = read[SectionHere]
  BY <1>1, <1>4, HereAfter
<1>6. subitems' = subitems /\ item' = item
  BY Unmoved DEF WithinSection
<1>7. subitems' = <<item'[1], item'[2], item'[3], read'[SectionHere'].class>>
  BY <1>2, <1>3, <1>5, <1>6
<1> QED BY <1>2, <1>3, <1>7 DEF MembersHere

(* The lines of other classes that are in an item are the same. *)
LEMMA InItemKept ==
  ASSUME NEW l, NextLine(l), NEW ls, ls = read, NEW ms, ms = read', NEW c, c # l.class, NEW it
  PROVE  InItem(ms, c, it) = InItem(ls, c, it)
<1>1. PICK n : n = Len(ls)
  OBVIOUS
<1>2. OneMore(ls, ms) /\ ms[n + 1] = l
  BY <1>1, LineAllowed
<1>3. InItem(ms, c, it) = With(InItem(ls, c, it), ms[n + 1].class = c /\ ItemOf(ls, n + 1) = it, n)
  BY <1>1, <1>2, InItemMore
<1>4. ~(ms[n + 1].class = c /\ ItemOf(ls, n + 1) = it)
  BY <1>2
<1> QED BY <1>3, <1>4 DEF With

LEMMA EnumKeptHere ==
  ASSUME NEW l, NextLine(l), WithinSection(l), l.class \notin {"enum", "member"}, ItemHere < OwnerHere, EnumHere
  PROVE  EnumHere'
<1>1. PICK n, it, o : n = Len(read) /\ it = ItemHere /\ o = OwnerHere
  OBVIOUS
<1>2. ~OwnsLiterals(l)
  BY DEF OwnsLiterals
<1>3. ItemHere' = it /\ OwnerHere' = o /\ it \in 0 .. n /\ o \in 0 .. n
  BY <1>1, <1>2, HereAfter DEF WithinSection
<1>4. o \in 1 .. n
  BY <1>1, <1>3
<1>5. read'[o] = read[o]
  BY <1>1, <1>4, HereAfter
<1>6. enumliterals' = enumliterals /\ item' = item
  BY Unmoved DEF WithinSection
<1>7. InItem(read', "enum", it) = InItem(read, "enum", it)
  BY InItemKept
<1> QED BY <1>1, <1>3, <1>5, <1>6, <1>7 DEF EnumHere

LEMMA MemberKeptHere ==
  ASSUME NEW l, NextLine(l), WithinSection(l), l.class \notin {"enum", "member"}, ItemHere < OwnerHere, MemberHere
  PROVE  MemberHere'
<1>1. PICK ls, ms, n, it, s, o, c :
        ls = read /\ ms = read' /\ n = Len(read) /\ it = ItemHere /\ s = SectionHere /\ o = OwnerHere /\ c = ls[s].class
  OBVIOUS
<1>2. ~OwnsLiterals(l)
  BY DEF OwnsLiterals
<1>3. /\ ItemHere' = it /\ SectionHere' = s /\ OwnerHere' = o /\ it \in 0 .. n /\ s \in 0 .. n /\ o \in 0 .. n
  BY <1>1, <1>2, HereAfter DEF WithinSection
<1>4. /\ ls[o].class = "member" /\ it < s /\ s < o /\ \A j \in InItem(ls, "member", it) : j <= o
      /\ enumliterals = <<item[1], item[2], item[3], c, Len(MembersOf(ls, it, c))>>
  BY <1>1 DEF MemberHere
<1>5. s \in 1 .. n /\ o \in 1 .. n
  BY <1>3, <1>4
<1>6. ms[s] = ls[s] /\ ms[o] = ls[o]
  BY <1>1, <1>5, HereAfter
<1>7. enumliterals' = enumliterals /\ item' = item
  BY Unmoved DEF WithinSection
<1>8. InItem(ms, "member", it) = InItem(ls, "member", it)
  BY <1>1, InItemKept
<1>9. Growing(ls, ms) /\ ms[n + 1] = l /\ IsSeq(ls)
  BY <1>1, LineAllowed DEF OneMore
<1>10. Len(MembersOf(ms, it, c)) = Len(MembersOf(ls, it, c))
  <2>1. CASE l.class = "literal"
    <3>1. o \in InSection(ls, it, c) /\ \A j \in InSection(ls, it, c) : j <= o
      BY <1>1, <1>9, MemberThere
    <3>2. o = OwnerOf(ls, n + 1)
      BY <1>1 DEF OwnerHere
    <3>3. PICK ss, k : ss = MembersOf(ls, it, c) /\ k = Len(ss)
      OBVIOUS
    <3>4. PICK x : x = WithEnum(ss[k], Append(ss[k].enum, l.value))
      OBVIOUS
    <3>5. MembersOf(ms, it, c) = Put(ss, k, x)
      BY <1>1, <1>9, <2>1, <3>1, <3>2, <3>3, <3>4, MembersLiteral
    <3>6. IsSeq(ss)
      BY <1>9, <3>3, MembersAre, EachIs DEF Values
    <3>7. Len(Put(ss, k, x)) = Len(ss)
      BY <3>6, OnePlace
    <3> QED BY <3>3, <3>5, <3>7
  <2>2. CASE l.class # "literal"
    <3>1. MembersOf(ms, it, c) = MembersOf(ls, it, c)
      BY <1>1, <1>9, <2>2, MembersKept
    <3> QED BY <3>1
  <2> QED BY <2>1, <2>2
<1>11. enumliterals' = <<item'[1], item'[2], item'[3], c, Len(MembersOf(ms, it, c))>>
  BY <1>4, <1>7, <1>10
<1> QED BY <1>1, <1>3, <1>4, <1>6, <1>8, <1>11 DEF MemberHere

LEMMA LiteralsKeptHere ==
  ASSUME NEW l, NextLine(l), WithinSection(l), l.class \notin {"enum", "member"}, LiteralsHere
  PROVE  LiteralsHere'
<1>1. ItemHere < OwnerHere
  BY DEF LiteralsHere
<1>2. ~OwnsLiterals(l)
  BY DEF OwnsLiterals
<1>3. ItemHere' < OwnerHere'
  BY <1>1, <1>2, HereAfter DEF WithinSection
<1> QED BY <1>1, <1>3, EnumKeptHere, MemberKeptHere DEF LiteralsHere

(* The new line owns literals. *)
LEMMA EnumOpens ==
  ASSUME NEW l, NextLine(l), l.class = "enum"
  PROVE  LiteralsHere'
<1>1. PICK n, it : n = Len(read) /\ it = ItemHere
  OBVIOUS
<1>2. OwnsLiterals(l) /\ ~IsDomain(l) /\ ~IsItem(l) /\ l.class \notin Anywhere
  BY DEF OwnsLiterals, IsDomain, IsItem, Items, Anywhere
<1>3. /\ ItemHere' = it /\ OwnerHere' = n + 1 /\ it \in 0 .. n /\ n \in Nat
      /\ read'[n + 1] = l
  BY <1>1, <1>2, HereAfter
<1>4. InItem(read, "enum", it) = {}
  BY <1>1, <1>2, OpenLine DEF ItemHere
<1>5. InItem(read', "enum", it) = {n + 1}
  <2>1. PICK ls, ms : ls = read /\ ms = read'
    OBVIOUS
  <2>2. OneMore(ls, ms) /\ ms[n + 1] = l
    BY <1>1, <2>1, LineAllowed
  <2>3. InItem(ms, "enum", it) = With(InItem(ls, "enum", it), ms[n + 1].class = "enum" /\ ItemOf(ls, n + 1) = it, n)
    BY <1>1, <2>1, <2>2, InItemMore
  <2>4. ms[n + 1].class = "enum" /\ ItemOf(ls, n + 1) = it
    BY <1>1, <2>1, <2>2, Zenon DEF ItemHere
  <2> QED BY <1>4, <2>1, <2>3, <2>4 DEF With
<1>6. enumliterals' = item /\ item' = item
  BY <1>2, Unmoved, ReadAs DEF ReadEnum
<1>7. EnumHere'
  BY <1>3, <1>5, <1>6 DEF EnumHere
<1>8. ItemHere' < OwnerHere'
  BY <1>3
<1> QED BY <1>7, <1>8 DEF LiteralsHere

LEMMA SectionOpens ==
  ASSUME NEW l, NextLine(l), IsSection(l)
  PROVE  MembersHere'
<1>1. PICK n : n = Len(read)
  OBVIOUS
<1>2. ~IsDomain(l) /\ ~IsItem(l)
  BY DEF IsSection, IsDomain, IsItem, Items, Sections
<1>3. ItemHere' = ItemHere /\ SectionHere' = n + 1 /\ ItemHere \in 0 .. n /\ n \in Nat /\ read'[n + 1] = l
  BY <1>1, <1>2, HereAfter
<1>4. item' = item /\ subitems' = <<item[1], item[2], item[3], l.class>>
  BY <1>2, Unmoved, ReadAs DEF ReadSection
<1>5. ItemHere' < SectionHere'
  BY <1>3
<1>6. subitems' = <<item'[1], item'[2], item'[3], read'[SectionHere'].class>>
  BY <1>3, <1>4
<1> QED BY <1>5, <1>6 DEF MembersHere

LEMMA MemberOpens ==
  ASSUME NEW l, NextLine(l), l.class = "member", l.typ = "enum"
  PROVE  LiteralsHere'
<1>1. PICK ls, ms, n, it, s, c, t :
        /\ ls = read /\ ms = read' /\ n = Len(read) /\ it = ItemHere /\ s = SectionHere /\ c = ls[s].class
        /\ t = doc.domains[item[1]][item[2]][item[3]]
  OBVIOUS
<1>2. OwnsLiterals(l) /\ WithinSection(l) /\ ~IsDomain(l) /\ ~IsItem(l) /\ l.class \notin Anywhere /\ ItemLine(l)
  BY DEF OwnsLiterals, WithinSection, IsDomain, IsItem, IsSection, Items, Sections, Anywhere, ItemLine, PartLines
<1>3. /\ ItemHere' = it /\ SectionHere' = s /\ OwnerHere' = n + 1 /\ it \in 0 .. n /\ s \in 0 .. n /\ n \in Nat
      /\ ms[n + 1] = l
  BY <1>1, <1>2, HereAfter DEF WithinSection
<1>4. MembersHere
  BY <1>2, OpenLine
<1>5. it < s /\ subitems = <<item[1], item[2], item[3], c>>
  BY <1>1, <1>4 DEF MembersHere
<1>6. subitems[1] = item[1] /\ subitems[2] = item[2] /\ subitems[3] = item[3] /\ subitems[4] = c
  BY <1>5
<1>7. s \in 1 .. n
  BY <1>3, <1>5
<1>8. ms[s] = ls[s]
  BY <1>1, <1>7, HereAfter
<1>9. Growing(ls, ms) /\ OneMore(ls, ms) /\ IsSeq(ls)
  BY <1>1, LineAllowed DEF OneMore
<1>10. c \in Sections
  <2>1. s = SectionOf(ls, n + 1) /\ s # 0
    BY <1>1, <1>7 DEF SectionHere
  <2> QED BY <1>1, <1>3, <1>9, <2>1, SectionAbove
<1>11. it = ItemOf(ls, n + 1)
  BY <1>1 DEF ItemHere
<1>12. t = MeaningOfItem(ls, it)
  BY <1>1, <1>2, <1>11, ItemPointed
<1>13. t[c] = MembersOf(ls, it, c)
  BY <1>10, <1>12, ItemIs
<1>14. MembersOf(ms, it, c) = Append(MembersOf(ls, it, c), MeaningOfMember(ms, n + 1))
  <2>1. n = Len(ls) /\ l = ms[n + 1] /\ c = ls[SectionOf(ls, n + 1)].class
    BY <1>1, <1>3 DEF SectionHere
  <2> QED BY <1>9, <1>11, <2>1, MembersAppended
<1>15. Len(MembersOf(ms, it, c)) = Len(MembersOf(ls, it, c)) + 1
  <2>1. IsSeq(MembersOf(ls, it, c))
    BY <1>9, MembersAre, EachIs DEF Values
  <2> QED BY <1>14, <2>1, Appended
<1>16. ReadMember(l)
  BY ReadAs
<1>17. enumliterals' = <<item[1], item[2], item[3], c, Len(t[c]) + 1>>
  BY <1>1, <1>6, <1>16, Zenon DEF ReadMember
<1>18. item' = item
  BY <1>2, Unmoved
<1>19. enumliterals' = <<item'[1], item'[2], item'[3], c, Len(MembersOf(ms, it, c))>>
  BY <1>13, <1>15, <1>17, <1>18
<1>20. InItem(ms, "member", it) \subseteq 1 .. n + 1
  <2>1. Len(ms) = n + 1
    BY <1>1, <1>9 DEF OneMore
  <2> QED BY <2>1 DEF InItem, AllOf
<1>21. \A j \in InItem(ms, "member", it) : j <= n + 1
  BY <1>3, <1>20
<1>22. it < n + 1 /\ s < n + 1
  BY <1>3
<1>23. MemberHere'
  BY <1>1, <1>3, <1>5, <1>8, <1>19, <1>21, <1>22 DEF MemberHere
<1> QED BY <1>3, <1>22, <1>23 DEF LiteralsHere

-----------------------------------------------------------------------------
(* What a class of line finds, if it may come next. *)
BelowDomain(c) == c \in PartLines \cup Sections => DomainHere < ItemHere
NotYet(c) == c \in Sections \cup {"enum", "redirect"} => InItem(read, c, ItemHere) = {}
VersionFirst(c) == c = "version" => open = {"version"} /\ \A j \in 1 .. Len(read) : read[j].class \notin VersionLines

Found(c) ==
  BelowDomain(c) /\ NotYet(c) /\ VersionFirst(c) /\ (c = "member" => MembersHere) /\ (c = "literal" => LiteralsHere)

LEMMA LineOpen ==
  ASSUME NEW l, NextLine(l)
  PROVE  /\ \A c \in open : Found(c)
         /\ l.class \in open \/ l.class \in {"comment", "blank", "domain"}
BY DEF OpenHere, Found, BelowDomain, NotYet, VersionFirst, NextLine, WrittenHere, Grammatical, Anywhere

LEMMA VersionFirstAfter ==
  ASSUME NEW l, NextLine(l), NEW c \in open, c \in open', ~IsDomain(l)
  PROVE  VersionFirst(c)'
<1>1. CASE c # "version"
  BY <1>1 DEF VersionFirst
<1>2. CASE c = "version"
  <2>1. open = {"version"} /\ \A j \in 1 .. Len(read) : read[j].class \notin VersionLines
    BY <1>2, LineOpen DEF Found, VersionFirst
  <2>2. l.class \in {"version", "comment", "blank"}
    BY <2>1, LineOpen DEF IsDomain
  <2>3. l.class # "version"
    BY <1>2 DEF NextLine, Follows
  <2>4. open' = open /\ l.class \notin VersionLines
    BY <2>2, <2>3 DEF NextLine, Follows, VersionLines, Items, Sections
  <2>5. PICK n : n = Len(read)
    OBVIOUS
  <2>6. n \in Nat /\ Len(read') = n + 1 /\ read'[n + 1] = l /\ \A i \in 1 .. n : read'[i] = read[i]
    BY <2>5, HereAfter
  <2>7. \A j \in 1 .. n + 1 : j \in 1 .. n \/ j = n + 1
    BY <2>6
  <2>8. \A j \in 1 .. n + 1 : read'[j].class \notin VersionLines
    BY <2>1, <2>4, <2>5, <2>6, <2>7
  <2> QED BY <2>1, <2>4, <2>6, <2>8 DEF VersionFirst
<1> QED BY <1>1, <1>2

LEMMA BelowAfter ==
  ASSUME NEW l, NextLine(l), ~IsDomain(l), ~IsItem(l), NEW c, BelowDomain(c) \/ ItemLine(l)
  PROVE  BelowDomain(c)'
<1>1. DomainHere' = DomainHere /\ ItemHere' = ItemHere
  BY HereAfter
<1>2. ItemLine(l) => DomainHere < ItemHere
  BY LineAllowed DEF InItsDomain, DomainHere, ItemHere
<1> QED BY <1>1, <1>2 DEF BelowDomain

LEMMA NotYetAfter ==
  ASSUME NEW l, NextLine(l), ~IsItem(l), NEW c, NotYet(c), c # l.class
  PROVE  NotYet(c)'
<1>1. ItemHere' = ItemHere
  BY HereAfter
<1>2. InItem(read', c, ItemHere) = InItem(read, c, ItemHere)
  BY InItemKept
<1> QED BY <1>1, <1>2 DEF NotYet

LEMMA NotYetBelowItem ==
  ASSUME NEW l, NextLine(l), IsItem(l), NEW c
  PROVE  BelowDomain(c)' /\ NotYet(c)'
<1>1. PICK ls, ms, n : ls = read /\ ms = read' /\ n = Len(read)
  OBVIOUS
<1>2. ~IsDomain(l)
  BY DEF IsItem, IsDomain, Items
<1>3. DomainHere' = DomainHere /\ ItemHere' = n + 1 /\ DomainHere \in 0 .. n /\ n \in Nat
  BY <1>1, <1>2, HereAfter
<1>4. DomainHere' < ItemHere'
  BY <1>3
<1>5. ASSUME c \in Sections \cup {"enum", "redirect"} PROVE InItem(ms, c, n + 1) = {}
  <2>1. c # l.class
    BY <1>5 DEF IsItem, Items, Sections
  <2>2. InItem(ms, c, n + 1) = InItem(ls, c, n + 1)
    BY <1>1, <2>1, InItemKept
  <2>3. OneMore(ls, ms)
    BY <1>1, LineAllowed
  <2>4. ASSUME NEW j \in InItem(ls, c, n + 1) PROVE FALSE
    <3>1. j \in 1 .. n /\ ItemOf(ls, j) = n + 1
      BY <1>1, <2>4 DEF InItem, AllOf
    <3>2. j \in 1 .. n + 1
      BY <1>3, <3>1
    <3>3. ItemOf(ls, j) \in 0 .. n
      BY <1>1, <2>3, <3>2, OwnerAbove
    <3> QED BY <1>3, <3>1, <3>3
  <2> QED BY <2>2, <2>4
<1> QED BY <1>1, <1>3, <1>4, <1>5 DEF BelowDomain, NotYet

LEMMA FoundAfter ==
  ASSUME NEW l, NextLine(l), NEW c \in open'
  PROVE  Found(c)'
<1>1. /\ open' = Follows(l)
      /\ \A d \in open : Found(d)
  BY LineOpen DEF NextLine
<1>2. CASE IsDomain(l)
  <2>1. open' = {"depends"} \cup Items
    BY <1>1, <1>2 DEF IsDomain, Follows, Items, Sections
  <2>2. c \notin PartLines \cup Sections \cup {"enum", "redirect", "version", "member", "literal"}
    BY <2>1 DEF Items, PartLines, Sections
  <2> QED BY <2>2 DEF Found, BelowDomain, NotYet, VersionFirst
<1>3. CASE IsItem(l)
  <2>1. c \in {"redirect", "enum", "properties", "parameters", "returns"} \cup Items
    BY <1>1, <1>3 DEF IsItem, Follows, Items, Sections
  <2>2. c \notin {"version", "member", "literal"}
    BY <2>1 DEF Items
  <2>3. BelowDomain(c)' /\ NotYet(c)'
    BY <1>3, NotYetBelowItem
  <2> QED BY <2>2, <2>3 DEF Found, VersionFirst
<1>4. CASE l.class = "version"
  <2>1. c \in {"major", "minor"}
    BY <1>1, <1>4 DEF Follows, Items, Sections
  <2> QED BY <2>1 DEF Found, BelowDomain, NotYet, VersionFirst, PartLines, Sections
<1>5. CASE IsSection(l)
  <2>1. ~IsDomain(l) /\ ~IsItem(l) /\ ItemLine(l)
    BY <1>5 DEF IsSection, IsDomain, IsItem, Items, Sections, ItemLine
  <2>2. c \in (open \ {l.class, "redirect", "enum", "literal"}) \cup {"member"}
    BY <1>1, <1>5 DEF IsSection, Follows, Sections
  <2>3. MembersHere'
    BY <1>5, SectionOpens
  <2>4. BelowDomain(c)'
    BY <2>1, BelowAfter
  <2>5. CASE c = "member"
    <3>1. NotYet(c)' /\ VersionFirst(c)'
      BY <2>5 DEF NotYet, VersionFirst, Sections
    <3> QED BY <2>3, <2>4, <2>5, <3>1 DEF Found
  <2>6. CASE c # "member"
    <3>1. c \in open /\ c # l.class /\ c # "literal"
      BY <2>2, <2>6
    <3>2. NotYet(c)'
      BY <1>1, <2>1, <3>1, NotYetAfter DEF Found
    <3>3. VersionFirst(c)'
      BY <2>1, <3>1, VersionFirstAfter
    <3> QED BY <2>4, <2>6, <3>1, <3>2, <3>3 DEF Found
  <2> QED BY <2>5, <2>6
<1>6. CASE l.class = "enum"
  <2>1. ~IsDomain(l) /\ ~IsItem(l) /\ ItemLine(l)
    BY <1>6 DEF IsDomain, IsItem, Items, ItemLine, PartLines
  <2>2. c \in (open \ {"enum", "redirect", "member"}) \cup {"literal"}
    BY <1>1, <1>6 DEF Follows, Sections
  <2>3. LiteralsHere'
    BY <1>6, EnumOpens
  <2>4. BelowDomain(c)'
    BY <2>1, BelowAfter
  <2>5. CASE c = "literal"
    <3>1. NotYet(c)' /\ VersionFirst(c)'
      BY <2>5 DEF NotYet, VersionFirst, Sections
    <3> QED BY <2>3, <2>4, <2>5, <3>1 DEF Found
  <2>6. CASE c # "literal"
    <3>1. c \in open /\ c # l.class /\ c # "member"
      BY <1>6, <2>2, <2>6
    <3>2. NotYet(c)'
      BY <1>1, <2>1, <3>1, NotYetAfter DEF Found
    <3>3. VersionFirst(c)'
      BY <2>1, <3>1, VersionFirstAfter
    <3> QED BY <2>4, <2>6, <3>1, <3>2, <3>3 DEF Found
  <2> QED BY <2>5, <2>6
<1>7. CASE l.class = "member"
  <2>1. ~IsDomain(l) /\ ~IsItem(l) /\ ItemLine(l) /\ WithinSection(l) /\ l.class \notin Anywhere
    BY <1>7 DEF IsDomain, IsItem, IsSection, Items, Sections, ItemLine, PartLines, WithinSection, Anywhere
  <2>2. c \in IF l.typ = "enum" THEN open \cup {"literal"} ELSE open \ {"literal"}
    BY <1>1, <1>7 DEF Follows, Sections
  <2>3. MembersHere'
    BY <1>7, <2>1, OpenLine, MembersKeptHere
  <2>4. BelowDomain(c)'
    BY <2>1, BelowAfter
  <2>5. CASE c = "literal"
    <3>1. NotYet(c)' /\ VersionFirst(c)'
      BY <2>5 DEF NotYet, VersionFirst, Sections
    <3>2. LiteralsHere'
      BY <1>7, <2>2, <2>5, MemberOpens
    <3> QED BY <2>4, <2>5, <3>1, <3>2 DEF Found
  <2>6. CASE c # "literal"
    <3>1. c \in open
      BY <2>2, <2>6
    <3>2. NotYet(c)'
      <4>1. CASE c = "member"
        BY <4>1 DEF NotYet, Sections
      <4>2. CASE c # "member"
        BY <1>1, <1>7, <2>1, <3>1, <4>2, NotYetAfter DEF Found
      <4> QED BY <4>1, <4>2
    <3>3. VersionFirst(c)'
      BY <2>1, <3>1, VersionFirstAfter
    <3> QED BY <2>3, <2>4, <2>6, <3>2, <3>3 DEF Found
  <2> QED BY <2>5, <2>6
<1>8. CASE ~IsDomain(l) /\ ~IsItem(l) /\ ~IsSection(l) /\ l.class \notin {"version", "enum", "member"}
  <2>1. WithinSection(l)
    BY <1>8 DEF WithinSection
  <2>2. open' = IF l.class = "redirect" THEN open \ {"redirect"} ELSE open
    BY <1>1, <1>8 DEF IsDomain, IsItem, IsSection, Follows, Items
  <2>3. c \in open /\ (l.class = "redirect" => c # l.class)
    BY <2>2
  <2>4. BelowDomain(c)'
    BY <1>1, <1>8, <2>3, BelowAfter DEF Found
  <2>5. VersionFirst(c)'
    BY <1>8, <2>3, VersionFirstAfter
  <2>6. NotYet(c)'
    <3>1. CASE c # l.class
      BY <1>1, <1>8, <2>3, <3>1, NotYetAfter DEF Found
    <3>2. CASE c = l.class
      <4>1. c \notin Sections \cup {"enum", "redirect"}
        BY <1>8, <2>3, <3>2 DEF IsSection
      <4> QED BY <4>1 DEF NotYet
    <3> QED BY <3>1, <3>2
  <2>7. c = "member" => MembersHere'
    BY <1>1, <2>1, <2>3, MembersKeptHere DEF Found
  <2>8. c = "literal" => LiteralsHere'
    BY <1>1, <1>8, <2>1, <2>3, LiteralsKeptHere DEF Found
  <2> QED BY <2>4, <2>5, <2>6, <2>7, <2>8 DEF Found
<1> QED BY <1>2, <1>3, <1>4, <1>5, <1>6, <1>7, <1>8

LEMMA WrittenAfter ==
  ASSUME NEW l, NextLine(l)
  PROVE  WrittenHere'
<1>1. AsMeant' /\ PointersHere'
  BY AfterLine, PointersAfter
<1>2. \A c \in open' : Found(c)'
  BY FoundAfter
<1>3. OpenHere'
  BY <1>2 DEF Found, OpenHere, BelowDomain, NotYet, VersionFirst
<1>4. ReadWell'
  BY LineAllowed DEF Growing, OneMore, ReadWell
<1> QED BY <1>1, <1>3, <1>4 DEF WrittenHere

-----------------------------------------------------------------------------
(* A file that has no line yet. *)
LEMMA NothingMeant == Meaning(<<>>) = EmptyDoc /\ CommentsAbove(<<>>, 1) = <<>> /\ OthersIn(<<>>) = {}
<1>1. PICK ls : ls = <<>>
  OBVIOUS
<1>2. IsSeq(ls) /\ Len(ls) = 0
  BY <1>1, NoElements
<1>3. OthersIn(ls) = {} /\ AllOf(ls, "version") = {} /\ AllOf(ls, "domain") = {}
  BY <1>2 DEF OthersIn, AllOf
<1>4. CopyrightOf(ls) = <<>> /\ VersionOf(ls) = <<>>
  BY <1>3 DEF CopyrightOf, VersionOf
<1>5. DomainsOf(ls) = <<>>
  <2>1. PICK f : f = DomainsFunction(ls)
    OBVIOUS
  <2>2. DomainsOf(ls) = Each(ls, f) /\ DOMAIN f = {}
    BY <1>3, <2>1 DEF DomainsOf, DomainsFunction
  <2> QED BY <1>2, <2>2, EachNone
<1>6. Meaning(ls) = EmptyDoc
  BY <1>4, <1>5, MeaningIs, Zenon DEF EmptyDoc
<1>7. CommentsAbove(ls, 1) = <<>>
  <2>1. PICK texts : texts = TextsAbove(ls, 1)
    OBVIOUS
  <2>2. PICK top : top = TopOf(ls, 1)
    OBVIOUS
  <2>3. TopOf(ls, 1) = LastBelow(OthersIn(ls), 1)
    BY <1>2, AboveLine
  <2>4. Nearest(top, {}, 1)
    BY <1>3, <2>2, <2>3, NearestIs
  <2>5. top = 0
    BY <2>4 DEF Nearest
  <2>6. texts = [i \in 1 .. 0 |-> ls[top + i].text]
    BY <2>1, <2>2, <2>5 DEF TextsAbove, TextsFrom
  <2>7. Len(texts) = 0
    BY <2>6
  <2>8. FromText(texts) = <<>>
    BY <2>7, FromTextNone
  <2> QED BY <2>1, <2>8, CommentsAre
<1> QED BY <1>1, <1>3, <1>6, <1>7

LEMMA NothingRead ==
  /\ IsSeq(<<>>) /\ Owned(<<>>) /\ Len(<<>>) = 0 /\ CommentsAbove(<<>>, Len(<<>>) + 1) = <<>>
  /\ DomainOf(<<>>, Len(<<>>) + 1) = 0 /\ ItemOf(<<>>, Len(<<>>) + 1) = 0
<1>1. PICK ls, n : ls = <<>> /\ n = Len(ls)
  OBVIOUS
<1>2. IsSeq(ls) /\ n = 0
  BY <1>1, NoElements
<1>3. Owned(ls)
  BY <1>1, <1>2 DEF Owned
<1>4. CommentsAbove(ls, n + 1) = <<>>
  BY <1>1, <1>2, NothingMeant
<1>5. PICK j, d, it : j = n + 1 /\ d = DomainOf(ls, j) /\ it = ItemOf(ls, j)
  OBVIOUS
<1>6. Nearest(d, DomainsIn(ls), j) /\ Nearest(it, ItemsIn(ls), j)
  BY <1>1, <1>2, <1>5, OwnersAre
<1>7. j = 1
  BY <1>2, <1>5
<1>8. d = 0 /\ it = 0
  BY <1>6, <1>7 DEF Nearest
<1> QED BY <1>1, <1>2, <1>3, <1>4, <1>5, <1>8

(* The invariant of the files that follow the grammar. *)
WrittenInv == FilesInv /\ GrammarInv /\ (phase = "files" => WrittenHere)

LEMMA WrittenStart == Init => WrittenInv
<1> SUFFICES ASSUME Init PROVE WrittenInv
  OBVIOUS
<1>1. /\ doc = EmptyDoc /\ domain = <<>> /\ desc = <<>> /\ clearDesc = FALSE /\ copyright = FALSE
      /\ read = <<>> /\ open = {"version"}
  BY DEF Init, ParseInit
<1>2. ReadWell
  BY <1>1, NothingRead DEF ReadWell
<1>3. Desc = <<>>
  BY <1>1 DEF Desc
<1>4. AsMeant
  BY <1>1, <1>3, NothingRead, NothingMeant DEF AsMeant
<1>5. DomainHere = 0 /\ ItemHere = 0
  BY <1>1, NothingRead DEF DomainHere, ItemHere
<1>6. PointersHere
  BY <1>1, <1>5 DEF PointersHere
<1>7. Len(read) = 0
  BY <1>1, NothingRead
<1>8. OpenHere
  BY <1>1, <1>7 DEF OpenHere, PartLines, Sections
<1> QED BY <1>2, <1>4, <1>6, <1>8, FilesStart, GrammarInit DEF WrittenInv, WrittenHere

LEMMA WrittenAgain == ASSUME EndOfFile PROVE WrittenHere'
<1>1. /\ doc' = EmptyDoc /\ domain' = <<>> /\ desc' = <<>> /\ clearDesc' = FALSE /\ copyright' = FALSE
      /\ read' = <<>> /\ open' = {"version"}
  BY DEF EndOfFile, ParseRestart
<1>2. ReadWell'
  BY <1>1, NothingRead DEF ReadWell
<1>3. Desc' = <<>>
  BY <1>1 DEF Desc
<1>4. AsMeant'
  BY <1>1, <1>3, NothingRead, NothingMeant DEF AsMeant
<1>5. DomainHere' = 0 /\ ItemHere' = 0
  BY <1>1, NothingRead DEF DomainHere, ItemHere
<1>6. PointersHere'
  BY <1>1, <1>5 DEF PointersHere
<1>7. Len(read') = 0
  BY <1>1, NothingRead
<1>8. OpenHere'
  BY <1>1, <1>7 DEF OpenHere, PartLines, Sections
<1> QED BY <1>2, <1>4, <1>6, <1>8 DEF WrittenHere

LEMMA WrittenStill == ASSUME WrittenHere, UNCHANGED vars PROVE WrittenHere'
<1>1. /\ doc' = doc /\ domain' = domain /\ item' = item /\ subitems' = subitems /\ enumliterals' = enumliterals
      /\ desc' = desc /\ clearDesc' = clearDesc /\ copyright' = copyright /\ read' = read /\ open' = open
  BY DEF vars, parser
<1>2. DomainHere' = DomainHere /\ ItemHere' = ItemHere /\ SectionHere' = SectionHere /\ OwnerHere' = OwnerHere
  BY <1>1 DEF DomainHere, ItemHere, SectionHere, OwnerHere
<1>3. LastItem' = LastItem
  BY <1>1, <1>2 DEF LastItem, LastList
<1>4. Desc' = Desc
  BY <1>1 DEF Desc
<1>5. ReadWell' /\ AsMeant' /\ PointersHere'
  BY <1>1, <1>2, <1>3, <1>4 DEF WrittenHere, ReadWell, AsMeant, PointersHere
<1>6. MembersHere' <=> MembersHere
  BY <1>1, <1>2 DEF MembersHere
<1>7. (EnumHere' <=> EnumHere) /\ (MemberHere' <=> MemberHere)
  BY <1>1, <1>2 DEF EnumHere, MemberHere
<1>8. LiteralsHere' <=> LiteralsHere
  BY <1>2, <1>7 DEF LiteralsHere
<1>9. OpenHere'
  BY <1>1, <1>2, <1>6, <1>8 DEF WrittenHere, OpenHere
<1> QED BY <1>5, <1>9 DEF WrittenHere

LEMMA WrittenStep == Ordered /\ WrittenInv /\ [Next]_vars => WrittenInv'
<1> SUFFICES ASSUME Ordered, WrittenInv, [Next]_vars, phase' = "files" PROVE WrittenHere'
  BY FilesStep, GrammarStep DEF WrittenInv
<1>1. GrammarInv'
  BY GrammarStep DEF WrittenInv
<1>2. CASE UNCHANGED vars
  BY <1>2, WrittenStill DEF WrittenInv, vars
<1>3. CASE ReadFile
  <2>1. PICK s \in SamplesLeft :
          \E l \in s.lines : Grammatical(l) /\ ReadLine(l) /\ read' = Append(read, l) /\ open' = Follows(l)
    BY <1>3 DEF ReadFile
  <2>2. PICK l \in s.lines : Grammatical(l) /\ ReadLine(l) /\ read' = Append(read, l) /\ open' = Follows(l)
    BY <2>1
  <2>3. LineShape(l)
    BY <2>2, FilesConstants DEF SamplesLeft, LineShape
  <2>4. phase = "files"
    BY <1>3 DEF ReadFile
  <2>5. ParserShape /\ PointersSet /\ outcome = "reading" /\ WrittenHere /\ outcome' = "reading"
    BY <1>1, <2>4 DEF WrittenInv, FilesInv, GrammarInv
  <2>6. LineRead(l)
    BY <2>2, <2>3, <2>5, AnyLineRead
  <2>7. NextLine(l)
    BY <2>2, <2>5, <2>6 DEF NextLine
  <2> QED BY <2>7, WrittenAfter
<1>4. CASE EndOfFile
  BY <1>4, WrittenAgain
<1>5. CASE CombineBytes \/ ReadCombined
  BY <1>5 DEF CombineBytes, ReadCombined
<1> QED BY <1>2, <1>3, <1>4, <1>5 DEF Next

(* At every line of a grammatical file, the document that Parse has built  *)
(* through its pointers is what the lines read so far mean.                *)
THEOREM ParseIsMeaning == Spec => []ParsedAsWritten
<1>1. CASE Ordered
  <2>1. Init => WrittenInv
    BY WrittenStart
  <2>2. WrittenInv /\ [Next]_vars => WrittenInv'
    BY <1>1, WrittenStep
  <2>3. WrittenInv => ParsedAsWritten
    BY DEF WrittenInv, WrittenHere, AsMeant, ParsedAsWritten
  <2> QED BY <2>1, <2>2, <2>3, PTL DEF Spec
<1>2. CASE ~Ordered
  <2>1. ParsedAsWritten
    BY <1>2 DEF ParsedAsWritten
  <2> QED BY <2>1, PTL
<1> QED BY <1>1, <1>2


-----------------------------------------------------------------------------
(* The parts that an item of each kind may have.                           *)
PartsOf == [type |-> {"enum", "properties"}, command |-> {"parameters", "returns"}, event |-> {"parameters"}]

(* A line below an item is a part of it, in its domain.                    *)
KindAt(ls, j) ==
  /\ ls[j].class \in PartLines \cup Sections => DomainOf(ls, j) < ItemOf(ls, j)
  /\ ls[j].class \in Sections \cup {"enum"} => ls[j].class \in PartsOf[ls[ItemOf(ls, j)].class]

Kinds(ls) == \A j \in 1 .. Len(ls) : KindAt(ls, j)

PartsOpen == \A c \in open : c \in Sections \cup {"enum"} => c \in PartsOf[read[ItemHere].class]

LEMMA PartsOfItem ==
  /\ PartsOf["type"] = {"enum", "properties"} /\ PartsOf["command"] = {"parameters", "returns"}
  /\ PartsOf["event"] = {"parameters"}
  BY DEF PartsOf

LEMMA PartsOpenAfter ==
  ASSUME NEW l, NextLine(l), PartsOpen
  PROVE  PartsOpen'
<1>1. PICK n : n = Len(read)
  OBVIOUS
<1>2. /\ n \in Nat /\ Len(read') = n + 1 /\ read'[n + 1] = l /\ \A i \in 1 .. n : read'[i] = read[i]
      /\ DomainHere \in 0 .. n /\ ItemHere \in 0 .. n
      /\ ItemHere' = IF IsItem(l) THEN n + 1 ELSE ItemHere
  BY <1>1, HereAfter
<1>3. open' = Follows(l)
  BY DEF NextLine
<1> SUFFICES ASSUME NEW c \in open', c \in Sections \cup {"enum"} PROVE c \in PartsOf[read'[ItemHere'].class]
  BY DEF PartsOpen
<1>4. CASE IsItem(l)
  <2>1. read'[ItemHere'] = l /\ c \in Follows(l)
    BY <1>2, <1>3, <1>4
  <2>2. CASE l.class = "type"
    <3>1. c \in {"redirect", "enum", "properties"} \cup Items
      BY <2>1, <2>2 DEF Follows, Items, Sections
    <3>2. c \in {"enum", "properties"}
      BY <3>1 DEF Sections, Items
    <3> QED BY <2>1, <2>2, <3>2, PartsOfItem
  <2>3. CASE l.class = "command"
    <3>1. c \in {"redirect", "parameters", "returns"} \cup Items
      BY <2>1, <2>3 DEF Follows, Items, Sections
    <3>2. c \in {"parameters", "returns"}
      BY <3>1 DEF Sections, Items
    <3> QED BY <2>1, <2>3, <3>2, PartsOfItem
  <2>4. CASE l.class = "event"
    <3>1. c \in {"redirect", "parameters"} \cup Items
      BY <2>1, <2>4 DEF Follows, Items, Sections
    <3>2. c \in {"parameters"}
      BY <3>1 DEF Sections, Items
    <3> QED BY <2>1, <2>4, <3>2, PartsOfItem
  <2> QED BY <1>4, <2>2, <2>3, <2>4 DEF IsItem, Items
<1>5. CASE ~IsItem(l)
  <2>1. c \in open
    <3>1. l.class \notin Items
      BY <1>5 DEF IsItem
    <3>2. CASE l.class = "version"
      BY <1>3, <3>2 DEF Follows, Sections
    <3>3. CASE l.class = "domain"
      BY <1>3, <3>3 DEF Follows, Sections, Items
    <3>4. CASE l.class \notin {"version", "domain"}
      <4>1. Follows(l) \subseteq open \cup {"member", "literal"}
        BY <3>1, <3>4 DEF Follows, Items
      <4> QED BY <1>3, <4>1 DEF Sections
    <3> QED BY <3>2, <3>3, <3>4
  <2>2. BelowDomain(c)
    BY <2>1, LineOpen DEF Found
  <2>3. ItemHere \in 1 .. n
    BY <1>2, <2>2 DEF BelowDomain, PartLines
  <2>4. read'[ItemHere'] = read[ItemHere]
    BY <1>2, <1>5, <2>3
  <2> QED BY <2>1, <2>4 DEF PartsOpen
<1> QED BY <1>4, <1>5

LEMMA KindsMoreLine ==
  ASSUME NEW ls, NEW ms, Growing(ls, ms), Kinds(ls), NEW n, n = Len(ls), NEW l, l = ms[n + 1],
         l.class \in PartLines \cup Sections => DomainOf(ls, n + 1) < ItemOf(ls, n + 1),
         l.class \in Sections \cup {"enum"} => l.class \in PartsOf[ls[ItemOf(ls, n + 1)].class]
  PROVE  Kinds(ms)
<1>1. OneMore(ls, ms) /\ n \in Nat /\ Len(ms) = n + 1 /\ (\A i \in 1 .. n : ms[i] = ls[i]) /\ IsSeq(ls)
  BY DEF Growing, OneMore
<1> SUFFICES ASSUME NEW j \in 1 .. n + 1 PROVE KindAt(ms, j)
  BY <1>1 DEF Kinds
<1>2. DomainOf(ms, j) = DomainOf(ls, j) /\ ItemOf(ms, j) = ItemOf(ls, j)
  BY <1>1, OwnersKept
<1>3. DomainOf(ls, j) \in 0 .. n /\ ItemOf(ls, j) \in 0 .. n
  BY <1>1, OwnerAbove
<1>4. ms[j].class \in Sections \cup {"enum"} => ms[j].class \in PartLines \cup Sections
  BY DEF PartLines
<1>5. CASE j = n + 1
  <2>1. ItemOf(ls, j) \in 1 .. n => ms[ItemOf(ls, j)] = ls[ItemOf(ls, j)]
    BY <1>1
  <2>2. ms[j].class \in PartLines \cup Sections => DomainOf(ls, j) < ItemOf(ls, j)
    BY <1>5
  <2>3. ms[j].class \in Sections \cup {"enum"} => ItemOf(ls, j) \in 1 .. n
    BY <1>3, <1>4, <2>2
  <2>4. ms[j].class \in Sections \cup {"enum"} => ms[j].class \in PartsOf[ls[ItemOf(ls, j)].class]
    BY <1>5
  <2>5. ms[j].class \in Sections \cup {"enum"} => ms[j].class \in PartsOf[ms[ItemOf(ls, j)].class]
    BY <2>1, <2>3, <2>4, Zenon
  <2> QED BY <1>2, <2>2, <2>5 DEF KindAt
<1>6. CASE j \in 1 .. n
  <2>1. ItemOf(ls, j) \in 1 .. n => ms[ItemOf(ls, j)] = ls[ItemOf(ls, j)]
    BY <1>1
  <2>2. ms[j] = ls[j] /\ KindAt(ls, j)
    BY <1>1, <1>6 DEF Kinds
  <2>3. /\ ms[j].class \in PartLines \cup Sections => DomainOf(ls, j) < ItemOf(ls, j)
        /\ ms[j].class \in Sections \cup {"enum"} => ms[j].class \in PartsOf[ls[ItemOf(ls, j)].class]
    BY <2>2, Zenon DEF KindAt
  <2>4. ms[j].class \in Sections \cup {"enum"} => ItemOf(ls, j) \in 1 .. n
    BY <1>3, <1>4, <2>3
  <2>5. ms[j].class \in Sections \cup {"enum"} => ms[j].class \in PartsOf[ms[ItemOf(ls, j)].class]
    BY <2>1, <2>3, <2>4, Zenon
  <2> QED BY <1>2, <2>3, <2>5 DEF KindAt
<1> QED BY <1>1, <1>5, <1>6

LEMMA KindsAfter ==
  ASSUME NEW l, NextLine(l), PartsOpen, Kinds(read)
  PROVE  Kinds(read')
<1>1. PICK ls, ms, n : ls = read /\ ms = read' /\ n = Len(ls)
  OBVIOUS
<1>2. Growing(ls, ms) /\ ms[n + 1] = l /\ InItsDomain(ls, l)
  BY <1>1, LineAllowed
<1>3. l.class \in PartLines \cup Sections => DomainOf(ls, n + 1) < ItemOf(ls, n + 1)
  BY <1>1, <1>2 DEF InItsDomain, ItemLine
<1>4. l.class \in Sections \cup {"enum"} => l.class \in PartsOf[ls[ItemOf(ls, n + 1)].class]
  <2>1. l.class \in Sections \cup {"enum"} => l.class \in open
    BY LineOpen DEF Sections
  <2> QED BY <1>1, <2>1 DEF PartsOpen, ItemHere
<1> QED BY <1>1, <1>2, <1>3, <1>4, KindsMoreLine

-----------------------------------------------------------------------------
(* What Meaning says of a description, a type expression, a member, an     *)
(* item and a domain has the shape that their lines can give back          *)
(* (Meant...).                                                             *)
LEMMA TextTrimmed ==
  ASSUME NEW d, Text(d)
  PROVE  Text(TrimSpace(d)) /\ TrimSpace(TrimSpace(d)) = TrimSpace(d)
<1>1. PICK t, n : t = TrimSpace(d) /\ n = LastText(d)
  OBVIOUS
<1>2. IsSeq(d) /\ Len(d) \in Nat
  BY SeqFacts DEF Text
<1>3. n \in 0 .. Len(d) /\ (n > 0 => HasText(d[n]))
  <2> DEFINE EndsAt(m) == (m > 0 => HasText(d[m])) /\ \A i \in m + 1 .. Len(d) : ~HasText(d[i])
  <2>1. \E m \in 0 .. Len(d) : EndsAt(m)
    <3>1. PICK A : A = {m \in 1 .. Len(d) : HasText(d[m])}
      OBVIOUS
    <3>2. CASE A = {}
      BY <1>2, <3>1, <3>2
    <3>3. CASE A # {}
      <4>1. PICK m \in A : \A k \in A : k <= m
        BY <1>2, <3>1, <3>3, LastOfSome
      <4>2. m \in 0 .. Len(d) /\ m \in Nat /\ HasText(d[m])
        BY <1>2, <3>1
      <4>3. ASSUME NEW i \in m + 1 .. Len(d) PROVE ~HasText(d[i])
        <5>1. i \in 1 .. Len(d) /\ ~(i <= m)
          BY <1>2, <4>2
        <5> QED BY <3>1, <4>1, <5>1
      <4> QED BY <4>2, <4>3
    <3> QED BY <3>2, <3>3
  <2>2. EndsAt(LastText(d)) /\ LastText(d) \in 0 .. Len(d)
    BY <2>1 DEF LastText, HasText
  <2> QED BY <1>1, <2>2
<1>4. n \in Nat /\ t = [i \in 1 .. n |-> d[i]] /\ \A i \in 1 .. n : t[i] = d[i]
  BY <1>1, <1>2, <1>3 DEF TrimSpace, IsSeq
<1>5. t = [i \in 1 .. n |-> t[i]]
  BY <1>4
<1>6. IsSeq(t) /\ Len(t) = n
  BY <1>4, <1>5, SeqFunction
<1>7. Text(t)
  <2>1. ASSUME t # <<>> PROVE t[1] # ""
    <3>1. n # 0
      BY <1>6, <2>1, SeqFacts
    <3>2. t[1] = d[1] /\ Len(d) # 0
      BY <1>2, <1>3, <1>4, <3>1
    <3> QED BY <1>2, <3>2, SeqFacts DEF Text
  <2> QED BY <1>6, <2>1 DEF Text
<1>8. LastText(t) = n
  <2> DEFINE EndsAt(m) == (m > 0 => HasText(t[m])) /\ \A i \in m + 1 .. n : ~HasText(t[i])
  <2>1. EndsAt(n) /\ n \in 0 .. n
    <3>1. n > 0 => t[n] = d[n]
      BY <1>4
    <3> QED BY <1>3, <1>4, <3>1
  <2>2. ASSUME NEW m \in 0 .. n, EndsAt(m) PROVE m = n
    <3>1. m < n => n \in m + 1 .. n /\ n > 0
      BY <1>4
    <3>2. n > 0 => HasText(t[n])
      BY <2>1
    <3> QED BY <1>4, <2>2, <3>1, <3>2
  <2>3. PICK k : k = CHOOSE m \in 0 .. n : EndsAt(m)
    OBVIOUS
  <2>4. LastText(t) = k
    BY <1>6, <2>3 DEF LastText, HasText
  <2>5. k \in 0 .. n /\ EndsAt(k)
    <3> HIDE DEF EndsAt
    <3> QED BY <2>1, <2>3
  <2>6. k = n
    BY <2>2, <2>5
  <2> QED BY <2>4, <2>6
<1>9. TrimSpace(t) = t
  BY <1>4, <1>5, <1>6, <1>8 DEF TrimSpace, IsSeq
<1> QED BY <1>1, <1>7, <1>9

(* The first of the comments above a line has a text.                      *)
LEMMA CommentsText ==
  ASSUME NEW ls, IsSeq(ls), NEW j \in 1 .. Len(ls)
  PROVE  Text(CommentsAbove(ls, j))
<1>1. PICK t, top : t = TextsAbove(ls, j) /\ top = TopOf(ls, j)
  OBVIOUS
<1>2. Len(ls) \in Nat /\ j \in 1 .. Len(ls) + 1 /\ j \in Nat
  BY SeqFacts
<1>3. top \in 0 .. j - 1
  BY <1>1, <1>2, OwnersAre DEF Nearest
<1>4. PICK m : m = j - 1 - top
  OBVIOUS
<1>5. m \in Nat
  BY <1>2, <1>3, <1>4
<1>6. t = [i \in 1 .. m |-> t[i]]
  BY <1>1, <1>4 DEF TextsAbove, TextsFrom
<1>7. IsSeq(t) /\ Len(t) = m
  BY <1>5, <1>6, SeqFunction
<1>8. CASE \A i \in 1 .. Len(t) : ~HasText(t[i])
  BY <1>1, <1>8, CommentsAre, FromTextNone, NoElements DEF Text
<1>9. CASE \E k \in 1 .. Len(t) : HasText(t[k]) /\ \A i \in 1 .. k - 1 : ~HasText(t[i])
  <2>1. PICK k \in 1 .. Len(t) : HasText(t[k]) /\ \A i \in 1 .. k - 1 : ~HasText(t[i])
    BY <1>9
  <2>2. PICK c, n : c = FromText(t) /\ n = m - k + 1
    OBVIOUS
  <2>3. k \in Nat /\ n \in Nat /\ n # 0 /\ 1 \in 1 .. n /\ 1 + k - 1 = k
    BY <1>5, <1>7, <2>1, <2>2
  <2>4. FromText(t) = [i \in 1 .. Len(t) - k + 1 |-> t[i + k - 1]]
    BY <1>7, <2>1, FromTextStart
  <2>5. c = [i \in 1 .. n |-> t[i + k - 1]] /\ n \in Nat /\ n # 0 /\ k \in Nat
    BY <1>7, <2>2, <2>3, <2>4
  <2>6. c = [i \in 1 .. n |-> c[i]]
    BY <2>5
  <2>7. IsSeq(c)
    BY <2>5, <2>6, SeqFunction
  <2>8. c[1] = t[k]
    BY <2>5, <2>3
  <2> QED BY <1>1, <2>1, <2>2, <2>7, <2>8, CommentsAre DEF Text, HasText
<1> QED BY <1>7, <1>8, <1>9, FirstText

LEMMA CommentsTrimmed ==
  ASSUME NEW ls, IsSeq(ls), NEW j \in 1 .. Len(ls), NEW d, d = TrimSpace(CommentsAbove(ls, j))
  PROVE  Text(d) /\ TrimSpace(d) = d
  BY CommentsText, TextTrimmed

LEMMA TypFields ==
  ASSUME NEW a, NEW b, NEW c, NEW s, s = [type |-> a, ref |-> b, items |-> c]
  PROVE  s.type = a /\ s.ref = b /\ s.items = c
  OBVIOUS

(* The type that is written for what an expression says gives it back.     *)
LEMMA ScalarAgain ==
  ASSUME NEW x
  PROVE  Scalar(TypeName(Scalar(x))) = Scalar(x)
<1>1. CASE x = "enum"
  <2>1. Scalar(x) = [type |-> "string", ref |-> ""]
    BY <1>1 DEF Scalar, Primitives
  <2>2. Scalar(x).type = "string" /\ Scalar(x).ref = ""
    <3>1. PICK s : s = [type |-> "string", ref |-> ""]
      OBVIOUS
    <3>2. s.type = "string" /\ s.ref = ""
      BY <3>1
    <3>3. Scalar(x) = s
      BY <2>1, <3>1, Zenon
    <3> QED BY <3>2, <3>3, Zenon
  <2>3. TypeName(Scalar(x)) = "string"
    BY <2>2, Zenon DEF TypeName
  <2> QED BY <2>1, <2>3 DEF Scalar, Primitives
<1>2. CASE x # "enum" /\ x \in Primitives
  <2>1. Scalar(x) = [type |-> x, ref |-> ""]
    BY <1>2 DEF Scalar
  <2>2. Scalar(x).type = x /\ Scalar(x).ref = ""
    <3>1. PICK s : s = [type |-> x, ref |-> ""]
      OBVIOUS
    <3>2. s.type = x /\ s.ref = ""
      BY <3>1
    <3>3. Scalar(x) = s
      BY <2>1, <3>1, Zenon
    <3> QED BY <3>2, <3>3, Zenon
  <2>3. TypeName(Scalar(x)) = x
    BY <2>2, Zenon DEF TypeName
  <2> QED BY <2>3
<1>3. CASE x # "enum" /\ x \notin Primitives
  <2>1. Scalar(x) = [type |-> "", ref |-> x]
    BY <1>3 DEF Scalar
  <2>2. Scalar(x).type = "" /\ Scalar(x).ref = x
    <3>1. PICK s : s = [type |-> "", ref |-> x]
      OBVIOUS
    <3>2. s.type = "" /\ s.ref = x
      BY <3>1
    <3>3. Scalar(x) = s
      BY <2>1, <3>1, Zenon
    <3> QED BY <3>2, <3>3, Zenon
  <2>3. TypeName(Scalar(x)) = x
    BY <2>2, Zenon DEF TypeName
  <2> QED BY <2>3
<1> QED BY <1>1, <1>2, <1>3

ArrayOf(t, s) ==
  /\ t = [type |-> "array", ref |-> "", items |-> <<s>>]
  /\ t.type = "array" /\ t.items = <<s>> /\ t.items[1] = s /\ t.items # <<>>

SingleOf(u, s) ==
  /\ u = [type |-> s.type, ref |-> s.ref, items |-> <<>>]
  /\ u.type = s.type /\ u.ref = s.ref /\ u.items = <<>>

LEMMA ArrayIs == ASSUME NEW s, NEW t, t = [type |-> "array", ref |-> "", items |-> <<s>>] PROVE ArrayOf(t, s)
  BY DEF ArrayOf

LEMMA SingleIs == ASSUME NEW s, NEW u, u = [type |-> s.type, ref |-> s.ref, items |-> <<>>] PROVE SingleOf(u, s)
  BY DEF SingleOf

LEMMA AssignedIs ==
  ASSUME NEW x, NEW s, s = Scalar(x)
  PROVE  ArrayOf(Assigned(x, TRUE), s) /\ SingleOf(Assigned(x, FALSE), s)
<1>1. Assigned(x, TRUE) = [type |-> "array", ref |-> "", items |-> <<s>>]
  BY DEF Assigned
<1>2. Assigned(x, FALSE) = [type |-> s.type, ref |-> s.ref, items |-> <<>>]
  BY DEF Assigned
<1>3. ArrayOf(Assigned(x, TRUE), s)
  BY <1>1, ArrayIs, Zenon
<1>4. SingleOf(Assigned(x, FALSE), s)
  BY <1>2, SingleIs, Zenon
<1> QED BY <1>3, <1>4

LEMMA AssignedAgain ==
  ASSUME NEW x, NEW y, y = TypeName(Scalar(x))
  PROVE  /\ Assigned(y, TRUE) = Assigned(x, TRUE)
         /\ Assigned(y, FALSE) = Assigned(x, FALSE)
         /\ TypeName(Assigned(x, FALSE)) = y
<1>1. PICK s, t, u, v, w : /\ s = Scalar(x) /\ t = Assigned(x, TRUE) /\ u = Assigned(x, FALSE)
                          /\ v = Assigned(y, TRUE) /\ w = Assigned(y, FALSE)
  OBVIOUS
<1>2. Scalar(y) = s
  BY <1>1, ScalarAgain
<1>3. t = [type |-> "array", ref |-> "", items |-> <<s>>] /\ v = [type |-> "array", ref |-> "", items |-> <<s>>]
  BY <1>1, <1>2 DEF Assigned
<1>4. u = [type |-> s.type, ref |-> s.ref, items |-> <<>>] /\ w = [type |-> s.type, ref |-> s.ref, items |-> <<>>]
  BY <1>1, <1>2 DEF Assigned
<1>5. t = v /\ u = w
  BY <1>3, <1>4
<1>6. u.type = s.type /\ u.ref = s.ref
  BY <1>4, TypFields
<1>7. TypeName(u) = TypeName(s)
  BY <1>6, Zenon DEF TypeName
<1> QED BY <1>1, <1>5, <1>7

-----------------------------------------------------------------------------
LEMMA SameHead ==
  ASSUME NEW dn, NEW l, NEW k, l.name = k.name, l.flags = k.flags, NEW typ, NEW d
  PROVE  NewType(dn, l, typ, d) = NewType(dn, k, typ, d)
  BY Zenon DEF NewType

LEMMA SameDesc ==
  ASSUME NEW dn, NEW l, NEW typ, NEW d, NEW e, TrimSpace(d) = TrimSpace(e)
  PROVE  NewType(dn, l, typ, d) = NewType(dn, l, typ, e)
  BY Zenon DEF NewType

LEMMA HeadFields ==
  ASSUME NEW dn, NEW l, NEW typ, NEW d, NEW t, t = NewType(dn, l, typ, d)
  PROVE  t.name = l.name /\ t.flags = l.flags /\ t.typ = typ /\ t.desc = TrimSpace(d)
  BY DEF NewType

LEMMA AssignedEither == ASSUME NEW x, NEW a PROVE \E b \in BOOLEAN : Assigned(x, a) = Assigned(x, b)
<1>1. CASE a
  <2>1. Assigned(x, a) = Assigned(x, TRUE)
    BY <1>1, Zenon DEF Assigned
  <2> QED BY <2>1
<1>2. CASE ~a
  <2>1. Assigned(x, a) = Assigned(x, FALSE)
    BY <1>2, Zenon DEF Assigned
  <2> QED BY <2>1
<1> QED BY <1>1, <1>2

(* What Meaning makes of a member.                                         *)
MeantTyp(m) == \E x : \E a \in BOOLEAN : m.typ = Assigned(x, a) /\ (m.enum # <<>> => x = "enum")

MeantMember(dn, m) ==
  /\ Text(m.desc) /\ IsSeq(m.enum) /\ MeantTyp(m)
  /\ m = WithEnum(NewType(dn, m, m.typ, m.desc), m.enum)

(* Members whose line says what they are: no array of enum.                *)
NoEnumArray(m) == m.enum = <<>> \/ m.typ.type # "array"

LEMMA MemberLineIs ==
  ASSUME NEW m, NEW l, l = MemberLine(m)
  PROVE  /\ l.name = m.name /\ l.flags = m.flags /\ l.array = (m.typ.type = "array" /\ m.enum = <<>>)
         /\ l.typ = IF m.enum # <<>> THEN "enum" ELSE IF m.typ.type = "array" THEN TypeName(m.typ.items[1]) ELSE TypeName(m.typ)
<1>1. PICK b, y : b = (m.typ.type = "array" /\ m.enum = <<>>) /\ y = IF m.enum # <<>> THEN "enum" ELSE IF b THEN TypeName(m.typ.items[1]) ELSE TypeName(m.typ)
  OBVIOUS
<1>2. l = [class |-> "member", name |-> m.name, flags |-> m.flags, array |-> b, typ |-> y]
  BY <1>1, Zenon DEF MemberLine
<1>3. l.name = m.name /\ l.flags = m.flags /\ l.array = b /\ l.typ = y
  BY <1>2
<1>4. y = IF m.enum # <<>> THEN "enum" ELSE IF m.typ.type = "array" THEN TypeName(m.typ.items[1]) ELSE TypeName(m.typ)
  BY <1>1, Zenon
<1> QED BY <1>1, <1>3, <1>4, Zenon

LEMMA MemberGivenBack ==
  ASSUME NEW dn, NEW m, MeantMember(dn, m), NoEnumArray(m), ~BareArray(m)
  PROVE  MemberBack(dn, m)
<1>1. PICK x, a, l : /\ a \in BOOLEAN /\ m.typ = Assigned(x, a) /\ (m.enum # <<>> => x = "enum")
                     /\ l = MemberLine(m)
  BY DEF MeantMember, MeantTyp
<1>2. PICK s, t, u : s = Scalar(x) /\ t = Assigned(x, TRUE) /\ u = Assigned(x, FALSE)
  OBVIOUS
<1>3. t.type = "array" /\ t.items[1] = s /\ u.items = <<>>
  BY <1>2, AssignedIs DEF ArrayOf, SingleOf
<1>4. Assigned(TypeName(s), TRUE) = t /\ Assigned(TypeName(s), FALSE) = u /\ TypeName(u) = TypeName(s)
  BY <1>2, AssignedAgain
<1>5. Assigned(l.typ, l.array) = m.typ
  <2>1. CASE m.enum # <<>>
    <3>1. m.typ.type # "array" /\ x = "enum"
      BY <1>1, <2>1 DEF NoEnumArray
    <3>2. a = FALSE
      BY <1>1, <1>2, <1>3, <3>1, Zenon
    <3>3. l.typ = "enum" /\ l.array = FALSE
      BY <1>1, <2>1, MemberLineIs
    <3> QED BY <1>1, <3>1, <3>2, <3>3, Zenon
  <2>2. CASE m.enum = <<>> /\ a = TRUE
    <3>1. m.typ = t
      BY <1>1, <1>2, <2>2
    <3>2. l.typ = TypeName(s) /\ l.array = TRUE
      BY <1>1, <1>3, <2>2, <3>1, MemberLineIs
    <3> QED BY <1>4, <3>1, <3>2
  <2>3. CASE m.enum = <<>> /\ a = FALSE
    <3>1. m.typ = u
      BY <1>1, <1>2, <2>3
    <3>2. m.typ.type # "array"
      BY <1>3, <3>1 DEF BareArray
    <3>3. l.typ = TypeName(s) /\ l.array = FALSE
      BY <1>1, <1>4, <2>3, <3>1, <3>2, MemberLineIs
    <3> QED BY <1>4, <3>1, <3>3
  <2> QED BY <1>1, <2>1, <2>2, <2>3
<1>6. NewType(dn, l, m.typ, m.desc) = NewType(dn, m, m.typ, m.desc)
  <2>1. l.name = m.name /\ l.flags = m.flags
    BY <1>1, MemberLineIs
  <2> QED BY <2>1, SameHead
<1>7. ReadMemberLine(dn, m) = NewType(dn, m, m.typ, m.desc)
  BY <1>1, <1>5, <1>6, Zenon DEF ReadMemberLine
<1> QED BY <1>7, Zenon DEF MeantMember, MemberBack

LEMMA LiteralsOwned ==
  ASSUME NEW ls, IsSeq(ls), NEW j \in 1 .. Len(ls)
  PROVE  IsSeq(LiteralsOf(ls, j)) /\ (LiteralsOf(ls, j) # <<>> => OwnsLiterals(ls[j]))
<1>1. PICK D, f : D = LiteralsAt(ls, j) /\ f = [i \in D |-> ls[i].value]
  OBVIOUS
<1>2. LiteralsOf(ls, j) = Each(ls, f) /\ DOMAIN f = D
  BY <1>1 DEF LiteralsOf, LiteralsAt
<1>3. IsSeq(Each(ls, f))
  BY <1>2, EachIs DEF Values
<1>4. CASE D = {}
  BY <1>2, <1>3, <1>4, EachNone
<1>5. CASE D # {}
  <2>1. PICK i : i \in D
    BY <1>5
  <2>2. i \in 1 .. Len(ls) /\ OwnerOf(ls, i) = j
    BY <1>1, <2>1 DEF LiteralsAt, AllOf
  <2>3. Len(ls) \in Nat /\ i \in 1 .. Len(ls) + 1
    BY <2>2, SeqFacts
  <2>4. Nearest(j, OwnersIn(ls), i)
    BY <2>2, <2>3, OwnersAre
  <2>5. j \in OwnersIn(ls)
    BY <2>3, <2>4 DEF Nearest
  <2> QED BY <1>2, <1>3, <2>5 DEF OwnersIn
<1> QED BY <1>4, <1>5

LEMMA MemberMeant ==
  ASSUME NEW ls, IsSeq(ls), NEW j \in 1 .. Len(ls), ls[j].class = "member",
         NEW dn, dn = ls[DomainOf(ls, j)].name, NEW m, m = MeaningOfMember(ls, j)
  PROVE  MeantMember(dn, m)
<1>1. PICK l, c, e, typ, d : /\ l = ls[j] /\ c = CommentsAbove(ls, j) /\ e = LiteralsOf(ls, j)
                            /\ typ = Assigned(l.typ, l.array) /\ d = TrimSpace(c)
  OBVIOUS
<1>2. PICK h : h = NewType(dn, l, typ, c)
  OBVIOUS
<1>3. m = WithEnum(h, e) /\ m.enum = e
  BY <1>1, <1>2, MemberIs DEF MemberHead
<1>4. h.name = l.name /\ h.flags = l.flags /\ h.typ = typ /\ h.desc = d
  BY <1>1, <1>2, HeadFields
<1>5. m.name = l.name /\ m.flags = l.flags /\ m.typ = typ /\ m.desc = d
  <2>1. DOMAIN h = ItemDomain
    BY <1>2, HeadsAre DEF ItemDomain
  <2> QED BY <1>3, <1>4, <2>1 DEF WithEnum, ItemDomain
<1>6. Text(d) /\ TrimSpace(d) = d
  BY <1>1, CommentsTrimmed
<1>7. h = NewType(dn, m, m.typ, m.desc)
  <2>1. NewType(dn, m, typ, d) = NewType(dn, l, typ, d)
    BY <1>5, SameHead
  <2>2. NewType(dn, l, typ, d) = NewType(dn, l, typ, c)
    BY <1>1, <1>6, SameDesc
  <2> QED BY <1>2, <1>5, <2>1, <2>2, Zenon
<1>8. IsSeq(e) /\ (e # <<>> => OwnsLiterals(l))
  BY <1>1, LiteralsOwned
<1>9. e # <<>> => l.typ = "enum"
  BY <1>1, <1>8 DEF OwnsLiterals
<1>10. MeantTyp(m)
  <2>1. PICK b \in BOOLEAN : typ = Assigned(l.typ, b)
    BY <1>1, AssignedEither
  <2> QED BY <1>3, <1>5, <1>9, <2>1 DEF MeantTyp
<1>11. m = WithEnum(NewType(dn, m, m.typ, m.desc), m.enum)
  BY <1>3, <1>7
<1> QED BY <1>3, <1>5, <1>6, <1>8, <1>10, <1>11, Zenon DEF MeantMember

-----------------------------------------------------------------------------
(* The lines that a member or an item owns are found where the reader of   *)
(* the combined file looks for them.                                       *)
LEMMA NearestAgain ==
  ASSUME NEW n \in Nat, NEW K, K \subseteq 1 .. n, NEW j \in 1 .. n + 1, NEW k \in 1 .. j - 1,
         NEW d, Nearest(d, K, j), d < k
  PROVE  LastBelow(K, k) = d
<1>1. k \in 1 .. n /\ k \in 1 .. n + 2 /\ d \in 0 .. k - 1
  BY DEF Nearest
<1>2. ASSUME NEW i \in K, i < k PROVE i <= d
  <2>1. i < j
    BY <1>1, <1>2
  <2> QED BY <2>1 DEF Nearest
<1>3. Nearest(d, K, k)
  BY <1>1, <1>2 DEF Nearest
<1> QED BY <1>1, <1>3, NearestOne

(* The domain of a part of an item is that of the item, the item of a       *)
(* member that of its section.                                             *)
LEMMA DomainOfPart ==
  ASSUME NEW ls, IsSeq(ls), NEW j \in 1 .. Len(ls), NEW it, it = ItemOf(ls, j), DomainOf(ls, j) < it
  PROVE  it \in 1 .. Len(ls) /\ IsItem(ls[it]) /\ DomainOf(ls, it) = DomainOf(ls, j)
<1>1. PICK n, d : n = Len(ls) /\ d = DomainOf(ls, j)
  OBVIOUS
<1>2. n \in Nat /\ j \in 1 .. n + 1
  BY <1>1, SeqFacts
<1>3. Nearest(d, DomainsIn(ls), j) /\ Nearest(it, ItemsIn(ls), j)
  BY <1>1, <1>2, OwnersAre
<1>4. d \in 0 .. j - 1 /\ it \in 1 .. j - 1 /\ it \in ItemsIn(ls)
  BY <1>1, <1>2, <1>3 DEF Nearest
<1>5. it \in 1 .. n /\ it \in 1 .. n + 1 /\ IsItem(ls[it])
  BY <1>1, <1>2, <1>4 DEF ItemsIn
<1>6. DomainsIn(ls) \subseteq 1 .. n
  BY <1>1, KindsIn
<1>7. LastBelow(DomainsIn(ls), it) = d
  BY <1>1, <1>2, <1>3, <1>4, <1>6, NearestAgain
<1>8. DomainOf(ls, it) = LastBelow(DomainsIn(ls), it)
  BY <1>1, <1>2, <1>5, AboveLine
<1> QED BY <1>1, <1>5, <1>7, <1>8

LEMMA ItemOfSection ==
  ASSUME NEW ls, IsSeq(ls), NEW j \in 1 .. Len(ls), NEW s, s = SectionOf(ls, j), ItemOf(ls, j) < s
  PROVE  s \in 1 .. Len(ls) /\ IsSection(ls[s]) /\ ItemOf(ls, s) = ItemOf(ls, j)
<1>1. PICK n, d : n = Len(ls) /\ d = ItemOf(ls, j)
  OBVIOUS
<1>2. n \in Nat /\ j \in 1 .. n + 1
  BY <1>1, SeqFacts
<1>3. Nearest(d, ItemsIn(ls), j) /\ Nearest(s, SectionsIn(ls), j)
  BY <1>1, <1>2, OwnersAre
<1>4. d \in 0 .. j - 1 /\ s \in 1 .. j - 1 /\ s \in SectionsIn(ls)
  BY <1>1, <1>2, <1>3 DEF Nearest
<1>5. s \in 1 .. n /\ s \in 1 .. n + 1 /\ IsSection(ls[s])
  BY <1>1, <1>2, <1>4 DEF SectionsIn
<1>6. ItemsIn(ls) \subseteq 1 .. n
  BY <1>1, KindsIn
<1>7. LastBelow(ItemsIn(ls), s) = d
  BY <1>1, <1>2, <1>3, <1>4, <1>6, NearestAgain
<1>8. ItemOf(ls, s) = LastBelow(ItemsIn(ls), s)
  BY <1>1, <1>2, <1>5, AboveLine
<1> QED BY <1>1, <1>5, <1>7, <1>8

(* Lines that follow the grammar.                                          *)
WellKept(ls) == IsSeq(ls) /\ Owned(ls) /\ Kinds(ls)

LEMMA MemberPlace ==
  ASSUME NEW ls, WellKept(ls), NEW it, NEW c, NEW j \in InSection(ls, it, c)
  PROVE  /\ j \in 1 .. Len(ls) /\ ls[j].class = "member" /\ DomainOf(ls, it) = DomainOf(ls, j)
         /\ c \in Sections => c \in PartsOf[ls[it].class]
<1>1. j \in 1 .. Len(ls) /\ ls[j].class = "member" /\ ItemOf(ls, j) = it /\ ls[SectionOf(ls, j)].class = c
  BY DEF InSection, InItem, AllOf
<1>2. PICK s : s = SectionOf(ls, j)
  OBVIOUS
<1>3. IsSeq(ls) /\ DomainOf(ls, j) < it /\ it < s
  BY <1>1, <1>2 DEF WellKept, Owned, Kinds, KindAt, PartLines
<1>4. DomainOf(ls, it) = DomainOf(ls, j)
  BY <1>1, <1>3, DomainOfPart
<1>5. s \in 1 .. Len(ls) /\ ItemOf(ls, s) = it /\ ls[s].class = c
  BY <1>1, <1>2, <1>3, ItemOfSection
<1>6. KindAt(ls, s)
  BY <1>5 DEF WellKept, Kinds
<1>7. c \in Sections => c \in PartsOf[ls[it].class]
  BY <1>5, <1>6 DEF KindAt
<1> QED BY <1>1, <1>4, <1>7

MeantMembers(dn, ms) == IsSeq(ms) /\ \A i \in 1 .. Len(ms) : MeantMember(dn, ms[i])

LEMMA MembersMeant ==
  ASSUME NEW ls, WellKept(ls), NEW it, NEW c, c \in Sections, NEW dn, dn = ls[DomainOf(ls, it)].name,
         NEW ms, ms = MembersOf(ls, it, c)
  PROVE  MeantMembers(dn, ms) /\ (ms # <<>> => c \in PartsOf[ls[it].class])
<1>1. PICK f, D, L : f = MembersFunction(ls, it, c) /\ D = InSection(ls, it, c) /\ L = LinesOf(ls, D)
  OBVIOUS
<1>2. ms = Each(ls, f) /\ DOMAIN f = D /\ \A j \in D : f[j] = MeaningOfMember(ls, j)
  BY <1>1, MembersAre
<1>3. Values(ms, L, ls, f, D)
  BY <1>1, <1>2, EachIs DEF WellKept
<1>4. IsSeq(ms) /\ Len(ms) = Len(L) /\ ms = [k \in 1 .. Len(L) |-> f[L[k]]] /\ \A k \in 1 .. Len(L) : L[k] \in D
  BY <1>3 DEF Values
<1>5. ASSUME NEW i \in 1 .. Len(ms) PROVE MeantMember(dn, ms[i]) /\ c \in PartsOf[ls[it].class]
  <2>1. PICK j : j = L[i]
    OBVIOUS
  <2>2. j \in D /\ ms[i] = MeaningOfMember(ls, j)
    BY <1>2, <1>4, <1>5, <2>1
  <2>3. /\ j \in 1 .. Len(ls) /\ ls[j].class = "member" /\ DomainOf(ls, it) = DomainOf(ls, j)
        /\ c \in PartsOf[ls[it].class]
    BY <1>1, <2>2, MemberPlace
  <2> QED BY <2>2, <2>3, MemberMeant DEF WellKept
<1>6. ASSUME ms # <<>> PROVE c \in PartsOf[ls[it].class]
  <2>1. 1 \in 1 .. Len(ms)
    BY <1>4, <1>6, SeqFacts
  <2> QED BY <1>5, <2>1
<1> QED BY <1>4, <1>5, <1>6 DEF MeantMembers

LEMMA EnumMeant ==
  ASSUME NEW ls, WellKept(ls), NEW it, NEW e, e = EnumOf(ls, it)
  PROVE  IsSeq(e) /\ (e # <<>> => "enum" \in PartsOf[ls[it].class])
<1>1. PICK D : D = InItem(ls, "enum", it)
  OBVIOUS
<1>2. CASE D = {}
  BY <1>1, <1>2, NoElements DEF EnumOf
<1>3. CASE D # {}
  <2>1. PICK j : j = CHOOSE i \in D : TRUE
    OBVIOUS
  <2>2. j \in D /\ e = LiteralsOf(ls, j)
    BY <1>1, <1>3, <2>1 DEF EnumOf
  <2>3. j \in 1 .. Len(ls) /\ ls[j].class = "enum" /\ ItemOf(ls, j) = it
    BY <1>1, <2>2 DEF InItem, AllOf
  <2>4. IsSeq(e) /\ KindAt(ls, j)
    BY <2>2, <2>3, LiteralsOwned DEF WellKept, Kinds
  <2> QED BY <2>3, <2>4 DEF KindAt
<1> QED BY <1>2, <1>3

(* The name that a description says to use is written so that it is found   *)
(* again.                                                                  *)
LEMMA InsteadAgain ==
  ASSUME NEW d, NEW n, n = NamedInstead(d), n # ""
  PROVE  \E x \in DOMAIN Instead : Instead[x] = n
<1>1. Len(d) = 1 /\ d[1] \in DOMAIN Instead /\ n = Instead[d[1]]
  BY DEF NamedInstead
<1> QED BY <1>1

-----------------------------------------------------------------------------
LEMMA RedirectMeant ==
  ASSUME NEW ls, NEW it, NEW t, t.redirect = RedirectOf(ls, it)
  PROVE  RedirectBack(t)
<1>1. CASE t.redirect = <<>>
  BY <1>1 DEF RedirectBack
<1>2. CASE t.redirect # <<>>
  <2>1. PICK a, n, d : t.redirect = <<a, n>> /\ n = NamedInstead(d)
    BY <1>2 DEF RedirectOf
  <2>2. t.redirect[1] = a /\ t.redirect[2] = n
    BY <2>1
  <2>3. CASE n = ""
    <3>1. InsteadText(t) = <<>>
      BY <2>2, <2>3 DEF InsteadText
    <3>2. NamedInstead(<<>>) = n
      <4>1. PICK e : e = <<>>
        OBVIOUS
      <4>2. Len(e) # 1
        BY <4>1, NoElements
      <4>3. NamedInstead(e) = ""
        BY <4>2, Zenon DEF NamedInstead
      <4> QED BY <2>3, <4>1, <4>3
    <3>3. Text(<<>>)
      BY NoElements DEF Text
    <3> QED BY <2>1, <2>2, <3>1, <3>2, <3>3, Zenon DEF RedirectBack
  <2>4. CASE n # ""
    <3>1. PICK y : y = CHOOSE x \in DOMAIN Instead : Instead[x] = n
      OBVIOUS
    <3>2. y \in DOMAIN Instead /\ Instead[y] = n
      BY <2>1, <2>4, <3>1, InsteadAgain
    <3>3. InsteadText(t) = <<y>>
      BY <2>2, <2>4, <3>1, Zenon DEF InsteadText
    <3>4. IsSeq(<<y>>) /\ Len(<<y>>) = 1 /\ <<y>>[1] = y
      BY Single
    <3>5. NamedInstead(<<y>>) = n
      BY <3>2, <3>4 DEF NamedInstead
    <3>6. Text(<<y>>)
      BY <3>2, <3>4, ParseConstants DEF Text
    <3> QED BY <2>1, <2>2, <3>3, <3>5, <3>6, Zenon DEF RedirectBack
  <2> QED BY <2>3, <2>4
<1> QED BY <1>1, <1>2

(* What Meaning makes of an item of class c.                               *)
MeantItemTyp(c, t) ==
  IF c = "type" THEN \E x : \E a \in BOOLEAN : t.typ = Assigned(x, a) ELSE t.typ = Untyped

MeantItem(c, dn, t) ==
  /\ Text(t.desc) /\ IsSeq(t.enum) /\ RedirectBack(t) /\ MeantItemTyp(c, t)
  /\ \A f \in Sections : MeantMembers(dn, t[f]) /\ (t[f] # <<>> => f \in PartsOf[c])
  /\ t.enum # <<>> => "enum" \in PartsOf[c]
  /\ t = Parts4(NewType(dn, t, t.typ, t.desc), t.enum, t.redirect, t.parameters, t.returns, t.properties)

LEMMA ItemMeant ==
  ASSUME NEW ls, WellKept(ls), NEW it \in 1 .. Len(ls), NEW c, c = ls[it].class,
         NEW dn, dn = ls[DomainOf(ls, it)].name, NEW t, t = MeaningOfItem(ls, it)
  PROVE  MeantItem(c, dn, t)
<1>1. PICK l, d, typ, z : l = ls[it] /\ d = CommentsAbove(ls, it) /\ typ = TypeOf(l) /\ z = TrimSpace(d)
  OBVIOUS
<1>2. PICK h : h = ItemHead(ls, it)
  OBVIOUS
<1>3. h = NewType(dn, l, typ, d)
  BY <1>1, <1>2 DEF ItemHead
<1>4. /\ t = Parts4(h, t.enum, t.redirect, t.parameters, t.returns, t.properties)
      /\ DOMAIN h = ItemDomain /\ t.enum = EnumOf(ls, it) /\ t.redirect = RedirectOf(ls, it)
      /\ \A f \in Sections : t[f] = MembersOf(ls, it, f)
  <2>1. /\ t = Parts4(h, EnumOf(ls, it), RedirectOf(ls, it), MembersOf(ls, it, "parameters"),
                      MembersOf(ls, it, "returns"), MembersOf(ls, it, "properties"))
        /\ DOMAIN h = ItemDomain /\ t.enum = EnumOf(ls, it) /\ t.redirect = RedirectOf(ls, it)
        /\ \A f \in Sections : t[f] = MembersOf(ls, it, f)
    BY <1>2, ItemIs
  <2>2. /\ MembersOf(ls, it, "parameters") = t.parameters /\ MembersOf(ls, it, "returns") = t.returns
        /\ MembersOf(ls, it, "properties") = t.properties
    BY <2>1 DEF Sections
  <2> QED BY <2>1, <2>2, Zenon
<1>5. t.name = h.name /\ t.flags = h.flags /\ t.desc = h.desc /\ t.typ = h.typ
  BY <1>4, PartsAre
<1>6. h.name = l.name /\ h.flags = l.flags /\ h.typ = typ /\ h.desc = z
  BY <1>1, <1>3, HeadFields
<1>7. Text(z) /\ TrimSpace(z) = z
  BY <1>1, CommentsTrimmed DEF WellKept
<1>8. h = NewType(dn, t, t.typ, t.desc)
  <2>1. NewType(dn, t, typ, z) = NewType(dn, l, typ, z)
    BY <1>5, <1>6, SameHead
  <2>2. NewType(dn, l, typ, z) = NewType(dn, l, typ, d)
    BY <1>1, <1>7, SameDesc
  <2> QED BY <1>3, <1>5, <1>6, <2>1, <2>2, Zenon
<1>9. MeantItemTyp(c, t)
  <2>1. CASE c = "type"
    <3>1. typ = Assigned(l.typ, l.array)
      BY <1>1, <2>1 DEF TypeOf
    <3>2. PICK b \in BOOLEAN : typ = Assigned(l.typ, b)
      BY <3>1, AssignedEither
    <3> QED BY <1>5, <1>6, <2>1, <3>2 DEF MeantItemTyp
  <2>2. CASE c # "type"
    BY <1>1, <1>5, <1>6, <2>2 DEF TypeOf, MeantItemTyp
  <2> QED BY <2>1, <2>2
<1>10. IsSeq(t.enum) /\ (t.enum # <<>> => "enum" \in PartsOf[c])
  BY <1>4, EnumMeant
<1>11. RedirectBack(t)
  BY <1>4, RedirectMeant
<1>12. \A f \in Sections : MeantMembers(dn, t[f]) /\ (t[f] # <<>> => f \in PartsOf[c])
  BY <1>4, MembersMeant
<1>13. Text(t.desc) /\ t = Parts4(NewType(dn, t, t.typ, t.desc), t.enum, t.redirect, t.parameters, t.returns, t.properties)
  BY <1>4, <1>5, <1>6, <1>7, <1>8, Zenon
<1> QED BY <1>9, <1>10, <1>11, <1>12, <1>13, Zenon DEF MeantItem

-----------------------------------------------------------------------------
(* Members that their lines give back, and items whose lines do.           *)
RestorableMember(m) == NoEnumArray(m) /\ ~BareArray(m)

RestorableItem(c, t) ==
  /\ \A f \in Sections : \A k \in 1 .. Len(t[f]) : RestorableMember(t[f][k])
  /\ c = "type" => WritableType(t) /\ ~BareArray(t)

LEMMA MembersGivenBack ==
  ASSUME NEW dn, NEW ms, MeantMembers(dn, ms), \A k \in 1 .. Len(ms) : RestorableMember(ms[k])
  PROVE  MembersBack(dn, ms)
  BY MemberGivenBack DEF MeantMembers, MembersBack, RestorableMember

(* The parts of an item that a line begins.                                *)
LEMMA NoParts ==
  ASSUME NEW dn, NEW l, NEW typ, NEW d, NEW h, h = NewType(dn, l, typ, d)
  PROVE  DOMAIN h = ItemDomain /\ Parts4(h, <<>>, <<>>, <<>>, <<>>, <<>>) = h
<1>1. PICK t : t = Parts4(h, <<>>, <<>>, <<>>, <<>>, <<>>)
  OBVIOUS
<1>2. /\ DOMAIN h = ItemDomain /\ h.enum = <<>> /\ h.redirect = <<>>
      /\ h.parameters = <<>> /\ h.returns = <<>> /\ h.properties = <<>>
  BY HeadsAre DEF ItemDomain, Sections
<1>3. h = [x \in ItemDomain |-> h[x]]
  BY DEF NewType, ItemDomain
<1>4. /\ t = [x \in ItemDomain |-> t[x]]
      /\ t.enum = <<>> /\ t.redirect = <<>> /\ t.parameters = <<>> /\ t.returns = <<>> /\ t.properties = <<>>
      /\ t.name = h.name /\ t.flags = h.flags /\ t.circular = h.circular /\ t.desc = h.desc /\ t.typ = h.typ
  BY <1>1, <1>2, PartsAre
<1>5. \A x \in ItemDomain : t[x] = h[x]
  BY <1>2, <1>4 DEF ItemDomain
<1>6. t = h
  BY <1>3, <1>4, <1>5
<1> QED BY <1>1, <1>2, <1>6

LEMMA EnumGiven ==
  ASSUME NEW h, DOMAIN h = ItemDomain, NEW e, NEW r, NEW p, NEW q, NEW s
  PROVE  WithEnums(Parts4(h, <<>>, r, p, q, s), e) = Parts4(h, e, r, p, q, s)
<1>1. WithEnum(Parts4(h, <<>>, r, p, q, s), e) = Parts4(h, e, r, p, q, s)
  BY PartsEnum
<1>2. e = <<>> => Parts4(h, <<>>, r, p, q, s) = Parts4(h, e, r, p, q, s)
  OBVIOUS
<1> QED BY <1>1, <1>2, Zenon DEF WithEnums

LEMMA RedirectGiven ==
  ASSUME NEW h, DOMAIN h = ItemDomain, NEW e, NEW r, NEW p, NEW q, NEW s
  PROVE  WithRedirects(Parts4(h, e, <<>>, p, q, s), r) = Parts4(h, e, r, p, q, s)
<1>1. WithRedirect(Parts4(h, e, <<>>, p, q, s), r) = Parts4(h, e, r, p, q, s)
  BY PartsRedirect DEF WithRedirect
<1>2. r = <<>> => Parts4(h, e, <<>>, p, q, s) = Parts4(h, e, r, p, q, s)
  OBVIOUS
<1> QED BY <1>1, <1>2, Zenon DEF WithRedirects

LEMMA ParametersGiven ==
  ASSUME NEW h, DOMAIN h = ItemDomain, NEW e, NEW r, NEW p, NEW q, NEW s
  PROVE  WithProps(Parts4(h, e, r, <<>>, q, s), "parameters", p) = Parts4(h, e, r, p, q, s)
<1>1. WithMembers(Parts4(h, e, r, <<>>, q, s), "parameters", p) = Parts4(h, e, r, p, q, s)
  BY PartsParameters DEF WithMembers
<1>2. p = <<>> => Parts4(h, e, r, <<>>, q, s) = Parts4(h, e, r, p, q, s)
  OBVIOUS
<1> QED BY <1>1, <1>2, Zenon DEF WithProps

LEMMA ReturnsGiven ==
  ASSUME NEW h, DOMAIN h = ItemDomain, NEW e, NEW r, NEW p, NEW q, NEW s
  PROVE  WithProps(Parts4(h, e, r, p, <<>>, s), "returns", q) = Parts4(h, e, r, p, q, s)
<1>1. WithMembers(Parts4(h, e, r, p, <<>>, s), "returns", q) = Parts4(h, e, r, p, q, s)
  BY PartsReturns DEF WithMembers
<1>2. q = <<>> => Parts4(h, e, r, p, <<>>, s) = Parts4(h, e, r, p, q, s)
  OBVIOUS
<1> QED BY <1>1, <1>2, Zenon DEF WithProps

LEMMA PropertiesGiven ==
  ASSUME NEW h, DOMAIN h = ItemDomain, NEW e, NEW r, NEW p, NEW q, NEW s
  PROVE  WithProps(Parts4(h, e, r, p, q, <<>>), "properties", s) = Parts4(h, e, r, p, q, s)
<1>1. WithMembers(Parts4(h, e, r, p, q, <<>>), "properties", s) = Parts4(h, e, r, p, q, s)
  BY PartsProperties DEF WithMembers
<1>2. s = <<>> => Parts4(h, e, r, p, q, <<>>) = Parts4(h, e, r, p, q, s)
  OBVIOUS
<1> QED BY <1>1, <1>2, Zenon DEF WithProps

(* A type's line says what it was read from.                               *)
LEMMA TypeLineIs ==
  ASSUME NEW t, NEW x, NEW a \in BOOLEAN, t.typ = Assigned(x, a), ~BareArray(t), NEW l, l = TypeLine(t), l.class # "unknown"
  PROVE  l.name = t.name /\ l.flags = t.flags /\ TypeOf(l) = t.typ
<1>1. PICK s, u, v : s = Scalar(x) /\ u = Assigned(x, TRUE) /\ v = Assigned(x, FALSE)
  OBVIOUS
<1>2. u.type = "array" /\ u.items[1] = s /\ u.items # <<>> /\ v.items = <<>> /\ v.type = s.type /\ v.ref = s.ref
  BY <1>1, AssignedIs DEF ArrayOf, SingleOf
<1>3. Assigned(TypeName(s), TRUE) = u /\ Assigned(TypeName(s), FALSE) = v /\ TypeName(v) = TypeName(s)
  BY <1>1, AssignedAgain
<1>4. PICK y, b : /\ b = (t.typ.type = "array")
                  /\ y = IF ~b THEN t.typ.type ELSE IF t.typ.items = <<>> THEN "array" ELSE TypeName(t.typ.items[1])
  OBVIOUS
<1>5. l = IF y = "" THEN [class |-> "unknown"]
          ELSE [class |-> "type", name |-> t.name, flags |-> t.flags, typ |-> y, array |-> b]
  BY <1>4, Zenon DEF TypeLine
<1>6. y # ""
  <2>1. [class |-> "unknown"].class = "unknown"
    OBVIOUS
  <2>2. ASSUME y = "" PROVE FALSE
    <3>1. l = [class |-> "unknown"]
      BY <1>5, <2>2, Zenon
    <3> QED BY <2>1, <3>1, Zenon
  <2> QED BY <2>2
<1>7. l = [class |-> "type", name |-> t.name, flags |-> t.flags, typ |-> y, array |-> b]
  BY <1>5, <1>6, Zenon
<1>8. l.class = "type" /\ l.name = t.name /\ l.flags = t.flags /\ l.typ = y /\ l.array = b
  BY <1>7
<1>9. TypeOf(l) = Assigned(y, b)
  BY <1>8, Zenon DEF TypeOf
<1>10. CASE a = TRUE
  <2>1. t.typ = u
    BY <1>1, <1>10, Zenon
  <2>2. b = TRUE /\ y = TypeName(s)
    BY <1>2, <1>4, <2>1
  <2> QED BY <1>3, <1>8, <1>9, <2>1, <2>2, Zenon
<1>11. CASE a = FALSE
  <2>1. t.typ = v
    BY <1>1, <1>11, Zenon
  <2>2. b = FALSE
    BY <1>2, <1>4, <2>1 DEF BareArray
  <2>3. y = s.type
    BY <1>2, <1>4, <2>1, <2>2
  <2>4. TypeName(s) = y
    <3>1. s.ref = ""
      BY <1>1, <1>6, <2>3 DEF Scalar
    <3> QED BY <2>3, <3>1 DEF TypeName
  <2> QED BY <1>3, <1>8, <1>9, <2>1, <2>2, <2>4, Zenon
<1> QED BY <1>10, <1>11

(* The line that opens an item says what its own did.                      *)
LEMMA OpeningLineIs ==
  ASSUME NEW c, c \in Items, NEW dn, NEW t, MeantItem(c, dn, t), RestorableItem(c, t), NEW l, l = OpeningLine(c, t)
  PROVE  l.name = t.name /\ l.flags = t.flags /\ TypeOf(l) = t.typ
<1>1. MeantItemTyp(c, t)
  BY DEF MeantItem
<1>2. CASE c = "type"
  <2>1. PICK x, a : a \in BOOLEAN /\ t.typ = Assigned(x, a)
    BY <1>1, <1>2 DEF MeantItemTyp
  <2>2. l = TypeLine(t) /\ l.class # "unknown" /\ ~BareArray(t)
    BY <1>2 DEF OpeningLine, RestorableItem, WritableType
  <2> QED BY <2>1, <2>2, TypeLineIs
<1>3. CASE c # "type"
  <2>1. l = [class |-> c, name |-> t.name, flags |-> t.flags]
    BY <1>3 DEF OpeningLine
  <2>2. l.class = c /\ l.name = t.name /\ l.flags = t.flags
    BY <2>1
  <2>3. TypeOf(l) = Untyped
    BY <1>3, <2>2, Zenon DEF TypeOf
  <2> QED BY <1>1, <1>3, <2>2, <2>3 DEF MeantItemTyp
<1> QED BY <1>2, <1>3

LEMMA ItemGivenBack ==
  ASSUME NEW c, c \in Items, NEW dn, NEW t, MeantItem(c, dn, t), RestorableItem(c, t)
  PROVE  ItemWritten(c, dn, t)
<1>1. PICK h, e, r, p, q, s : /\ h = NewType(dn, t, t.typ, t.desc) /\ e = t.enum /\ r = t.redirect
                              /\ p = t.parameters /\ q = t.returns /\ s = t.properties
  OBVIOUS
<1>2. t = Parts4(h, e, r, p, q, s)
  BY <1>1, Zenon DEF MeantItem
<1>3. DOMAIN h = ItemDomain /\ Parts4(h, <<>>, <<>>, <<>>, <<>>, <<>>) = h
  BY <1>1, NoParts
<1>4. ReadItemLine(c, dn, t) = h
  <2>1. PICK l : l = OpeningLine(c, t)
    OBVIOUS
  <2>2. l.name = t.name /\ l.flags = t.flags /\ TypeOf(l) = t.typ
    BY <2>1, OpeningLineIs
  <2>3. NewType(dn, l, t.typ, t.desc) = NewType(dn, t, t.typ, t.desc)
    BY <2>2, SameHead
  <2> QED BY <1>1, <2>1, <2>2, <2>3, Zenon DEF ReadItemLine
<1>5. PartsBack(dn, t)
  <2>1. ASSUME NEW f \in Sections PROVE MembersBack(dn, t[f])
    <3>1. MeantMembers(dn, t[f]) /\ \A k \in 1 .. Len(t[f]) : RestorableMember(t[f][k])
      BY DEF MeantItem, RestorableItem
    <3>2. PICK ms : ms = t[f]
      OBVIOUS
    <3> QED BY <3>1, <3>2, MembersGivenBack
  <2> QED BY <2>1 DEF MeantItem, PartsBack
<1>6. /\ e # <<>> => "enum" \in PartsOf[c]
      /\ p # <<>> => "parameters" \in PartsOf[c]
      /\ q # <<>> => "returns" \in PartsOf[c]
      /\ s # <<>> => "properties" \in PartsOf[c]
  BY <1>1 DEF MeantItem, Sections
<1>7. t = Restored(c, dn, t)
  <2>1. CASE c = "type"
    <3>1. r = <<>> /\ p = <<>> /\ q = <<>>
      BY <1>1, <1>6, <2>1, PartsOfItem DEF RestorableItem, WritableType
    <3>2. WithEnums(h, e) = Parts4(h, e, <<>>, <<>>, <<>>, <<>>)
      <4>1. WithEnums(Parts4(h, <<>>, <<>>, <<>>, <<>>, <<>>), e) = Parts4(h, e, <<>>, <<>>, <<>>, <<>>)
        BY <1>3, EnumGiven
      <4> QED BY <1>3, <4>1, Zenon
    <3>3. WithProps(Parts4(h, e, <<>>, <<>>, <<>>, <<>>), "properties", s) = Parts4(h, e, <<>>, <<>>, <<>>, s)
      BY <1>3, PropertiesGiven
    <3>4. Restored(c, dn, t) = WithProps(WithEnums(h, e), "properties", s)
      BY <1>1, <1>4, <2>1, Zenon DEF Restored
    <3> QED BY <1>2, <3>1, <3>2, <3>3, <3>4, Zenon
  <2>2. CASE c = "command"
    <3>1. e = <<>> /\ s = <<>>
      BY <1>6, <2>2, PartsOfItem
    <3>2. WithRedirects(h, r) = Parts4(h, <<>>, r, <<>>, <<>>, <<>>)
      <4>1. WithRedirects(Parts4(h, <<>>, <<>>, <<>>, <<>>, <<>>), r) = Parts4(h, <<>>, r, <<>>, <<>>, <<>>)
        BY <1>3, RedirectGiven
      <4> QED BY <1>3, <4>1, Zenon
    <3>3. WithProps(Parts4(h, <<>>, r, <<>>, <<>>, <<>>), "parameters", p) = Parts4(h, <<>>, r, p, <<>>, <<>>)
      BY <1>3, ParametersGiven
    <3>4. WithProps(Parts4(h, <<>>, r, p, <<>>, <<>>), "returns", q) = Parts4(h, <<>>, r, p, q, <<>>)
      BY <1>3, ReturnsGiven
    <3>5. Restored(c, dn, t) = WithProps(WithProps(WithRedirects(h, r), "parameters", p), "returns", q)
      BY <1>1, <1>4, <2>2 DEF Restored
    <3> QED BY <1>2, <3>1, <3>2, <3>3, <3>4, <3>5, Zenon
  <2>3. CASE c = "event"
    <3>1. e = <<>> /\ q = <<>> /\ s = <<>>
      BY <1>6, <2>3, PartsOfItem
    <3>2. WithRedirects(h, r) = Parts4(h, <<>>, r, <<>>, <<>>, <<>>)
      <4>1. WithRedirects(Parts4(h, <<>>, <<>>, <<>>, <<>>, <<>>), r) = Parts4(h, <<>>, r, <<>>, <<>>, <<>>)
        BY <1>3, RedirectGiven
      <4> QED BY <1>3, <4>1, Zenon
    <3>3. WithProps(Parts4(h, <<>>, r, <<>>, <<>>, <<>>), "parameters", p) = Parts4(h, <<>>, r, p, <<>>, <<>>)
      BY <1>3, ParametersGiven
    <3>4. Restored(c, dn, t) = WithProps(WithRedirects(h, r), "parameters", p)
      BY <1>1, <1>4, <2>3 DEF Restored
    <3> QED BY <1>2, <3>1, <3>2, <3>3, <3>4, Zenon
  <2> QED BY <2>1, <2>2, <2>3 DEF Items
<1>8. c = "type" => WritableType(t)
  BY DEF RestorableItem
<1> QED BY <1>5, <1>7, <1>8, Zenon DEF ItemWritten, ItemBack

-----------------------------------------------------------------------------
(* What Meaning makes of a domain.                                         *)
MeantItems(c, dn, ts) == IsSeq(ts) /\ \A i \in 1 .. Len(ts) : MeantItem(c, dn, ts[i])

MeantDomain(d) ==
  /\ Text(d.desc) /\ IsSeq(d.dependencies)
  /\ \A c \in Items : MeantItems(c, d.name, d[ListOf[c]])
  /\ d = Parts5(ReadDomainLine(d), d.dependencies, d.types, d.commands, d.events)

LEMMA DomainPartsHead ==
  ASSUME NEW h, DOMAIN h = DomainDomain, NEW ps, NEW ts, NEW cs, NEW es, NEW t, t = Parts5(h, ps, ts, cs, es)
  PROVE  t.name = h.name /\ t.flags = h.flags /\ t.desc = h.desc
  BY DEF Parts5, DomainDomain

LEMMA NewDomainHead ==
  ASSUME NEW l, NEW d, NEW h, h = NewDomain(l, d)
  PROVE  h.name = l.name /\ h.flags = l.flags /\ h.desc = TrimSpace(d)
  BY DEF NewDomain

LEMMA SameNewDomain ==
  ASSUME NEW l, NEW m, l.name = m.name, l.flags = m.flags, NEW d, NEW e, TrimSpace(d) = TrimSpace(e)
  PROVE  NewDomain(l, d) = NewDomain(m, e)
  BY DEF NewDomain

LEMMA ItemsMeant ==
  ASSUME NEW ls, WellKept(ls), NEW d, NEW c \in Items, NEW dn, dn = ls[d].name, NEW ts, ts = ItemsOf(ls, d, c)
  PROVE  MeantItems(c, dn, ts)
<1>1. PICK f, D, L : f = ItemsFunction(ls, d, c) /\ D = InDomain(ls, c, d) /\ L = LinesOf(ls, D)
  OBVIOUS
<1>2. /\ ts = Each(ls, f) /\ DOMAIN f = D
      /\ \A j \in D : f[j] = MeaningOfItem(ls, j) /\ j \in 1 .. Len(ls) /\ ls[j].class = c /\ DomainOf(ls, j) = d
  BY <1>1, ItemsAre
<1>3. Values(ts, L, ls, f, D)
  BY <1>1, <1>2, EachIs DEF WellKept
<1>4. IsSeq(ts) /\ Len(ts) = Len(L) /\ ts = [k \in 1 .. Len(L) |-> f[L[k]]] /\ \A k \in 1 .. Len(L) : L[k] \in D
  BY <1>3 DEF Values
<1>5. ASSUME NEW i \in 1 .. Len(ts) PROVE MeantItem(c, dn, ts[i])
  <2>1. PICK j : j = L[i]
    OBVIOUS
  <2>2. j \in D /\ ts[i] = MeaningOfItem(ls, j)
    BY <1>2, <1>4, <1>5, <2>1
  <2>3. j \in 1 .. Len(ls) /\ ls[j].class = c /\ DomainOf(ls, j) = d
    BY <1>2, <2>2
  <2> QED BY <2>2, <2>3, ItemMeant
<1> QED BY <1>4, <1>5 DEF MeantItems

LEMMA DomainMeant ==
  ASSUME NEW ls, WellKept(ls), NEW d \in 1 .. Len(ls), NEW t, t = MeaningOfDomain(ls, d)
  PROVE  MeantDomain(t)
<1>1. PICK l, z, h : l = ls[d] /\ z = CommentsAbove(ls, d) /\ h = DomainHead(ls, d)
  OBVIOUS
<1>2. h = NewDomain(l, z)
  BY <1>1 DEF DomainHead
<1>3. /\ t = Parts5(h, DependsOf(ls, d), ItemsOf(ls, d, "type"), ItemsOf(ls, d, "command"), ItemsOf(ls, d, "event"))
      /\ DOMAIN h = DomainDomain /\ t.dependencies = DependsOf(ls, d)
      /\ \A c \in Items : t[ListOf[c]] = ItemsOf(ls, d, c)
  BY <1>1, DomainParts, DomainIs
<1>4. /\ t.types = ItemsOf(ls, d, "type") /\ t.commands = ItemsOf(ls, d, "command") /\ t.events = ItemsOf(ls, d, "event")
  BY <1>3 DEF Items, ListOf
<1>5. t = Parts5(h, t.dependencies, t.types, t.commands, t.events)
  BY <1>3, <1>4, Zenon
<1>6. t.name = h.name /\ t.flags = h.flags /\ t.desc = h.desc
  BY <1>3, DomainPartsHead
<1>7. h.name = l.name /\ h.flags = l.flags /\ h.desc = TrimSpace(z)
  BY <1>2, NewDomainHead
<1>8. Text(t.desc) /\ TrimSpace(t.desc) = TrimSpace(z)
  <2>1. PICK y : y = TrimSpace(z)
    OBVIOUS
  <2>2. Text(y) /\ TrimSpace(y) = y
    BY <1>1, <2>1, CommentsTrimmed DEF WellKept
  <2> QED BY <1>6, <1>7, <2>1, <2>2
<1>9. h = ReadDomainLine(t)
  <2>1. PICK m : m = DomainLine(t)
    OBVIOUS
  <2>2. m.name = l.name /\ m.flags = l.flags
    BY <1>6, <1>7, <2>1 DEF DomainLine
  <2>3. NewDomain(l, z) = NewDomain(m, t.desc)
    BY <1>8, <2>2, SameNewDomain
  <2> QED BY <1>2, <2>1, <2>3 DEF ReadDomainLine
<1>10. IsSeq(t.dependencies)
  <2>1. PICK f, D : D = InDomain(ls, "depends", d) /\ f = [j \in D |-> ls[j].name]
    OBVIOUS
  <2>2. t.dependencies = Each(ls, f) /\ D = DOMAIN f
    BY <1>3, <2>1 DEF DependsOf
  <2>3. Values(Each(ls, f), LinesOf(ls, D), ls, f, D)
    BY <2>2, EachIs DEF WellKept
  <2> QED BY <2>2, <2>3 DEF Values
<1>11. \A c \in Items : MeantItems(c, t.name, t[ListOf[c]])
  BY <1>1, <1>3, <1>6, <1>7, ItemsMeant
<1>12. t = Parts5(ReadDomainLine(t), t.dependencies, t.types, t.commands, t.events)
  BY <1>5, <1>9, Zenon
<1> QED BY <1>8, <1>10, <1>11, <1>12, Zenon DEF MeantDomain

MeantDomains(ds) == IsSeq(ds) /\ \A i \in 1 .. Len(ds) : MeantDomain(ds[i])

MeantDoc(d) == Text(d.copyright) /\ MeantDomains(d.domains)

LEMMA DocMeant ==
  ASSUME NEW ls, WellKept(ls), NEW t, t = Meaning(ls)
  PROVE  MeantDoc(t)
<1>1. t.copyright = CopyrightOf(ls) /\ t.domains = DomainsOf(ls)
  BY MeaningIs
<1>2. Text(t.copyright)
  <2>1. PICK H : H = OthersIn(ls)
    OBVIOUS
  <2>2. CASE H = {}
    BY <1>1, <2>1, <2>2, NoElements DEF CopyrightOf, Text
  <2>3. CASE H # {}
    <3>1. H \subseteq 1 .. Len(ls) /\ Len(ls) \in Nat
      BY <2>1, SeqFacts DEF OthersIn, WellKept
    <3>2. H \subseteq Nat
      BY <3>1
    <3>3. PICK j \in H : \A k \in H : j <= k
      BY <2>3, <3>2, LeastNumber
    <3>4. FirstOther(H) = j
      <4>1. H \subseteq Nat
        BY <3>1
      <4> QED BY <3>3, <4>1, FirstOtherIs
    <3>5. t.copyright = CommentsAbove(ls, j) /\ j \in 1 .. Len(ls)
      BY <1>1, <2>1, <2>3, <3>1, <3>4 DEF CopyrightOf
    <3> QED BY <3>5, CommentsText DEF WellKept
  <2> QED BY <2>2, <2>3
<1>3. MeantDomains(t.domains)
  <2>1. PICK f, D, L, ds : f = DomainsFunction(ls) /\ D = AllOf(ls, "domain") /\ L = LinesOf(ls, D) /\ ds = t.domains
    OBVIOUS
  <2>2. ds = Each(ls, f) /\ DOMAIN f = D /\ \A j \in D : f[j] = MeaningOfDomain(ls, j)
    BY <1>1, <2>1, DomainsAre
  <2>3. Values(ds, L, ls, f, D)
    BY <2>1, <2>2, EachIs DEF WellKept
  <2>4. /\ IsSeq(ds) /\ Len(ds) = Len(L) /\ ds = [k \in 1 .. Len(L) |-> f[L[k]]]
        /\ \A k \in 1 .. Len(L) : L[k] \in D /\ L[k] \in 1 .. Len(ls)
    BY <2>3 DEF Values
  <2>5. ASSUME NEW i \in 1 .. Len(ds) PROVE MeantDomain(ds[i])
    <3>1. PICK j : j = L[i]
      OBVIOUS
    <3>2. j \in 1 .. Len(ls) /\ ds[i] = MeaningOfDomain(ls, j)
      BY <2>2, <2>4, <2>5, <3>1
    <3> QED BY <3>2, DomainMeant
  <2> QED BY <2>1, <2>4, <2>5 DEF MeantDomains
<1> QED BY <1>2, <1>3 DEF MeantDoc

-----------------------------------------------------------------------------
(* Domains that their lines give back. *)
RestorableItems(c, ts) == \A i \in 1 .. Len(ts) : RestorableItem(c, ts[i])

RestorableDomain(d) == \A c \in Items : RestorableItems(c, d[ListOf[c]])

LEMMA DomainPartGiven ==
  ASSUME NEW h, DOMAIN h = DomainDomain, NEW ps, NEW ts, NEW cs, NEW es
  PROVE  /\ WithDependencies(Parts5(h, <<>>, ts, cs, es), ps) = Parts5(h, ps, ts, cs, es)
         /\ WithItems(Parts5(h, ps, <<>>, cs, es), "types", ts) = Parts5(h, ps, ts, cs, es)
         /\ WithItems(Parts5(h, ps, ts, <<>>, es), "commands", cs) = Parts5(h, ps, ts, cs, es)
         /\ WithItems(Parts5(h, ps, ts, cs, <<>>), "events", es) = Parts5(h, ps, ts, cs, es)
<1>1. WithDependencies(Parts5(h, <<>>, ts, cs, es), ps) = Parts5(h, ps, ts, cs, es)
  BY DEF WithDependencies, Parts5, DomainDomain
<1>2. WithItems(Parts5(h, ps, <<>>, cs, es), "types", ts) = Parts5(h, ps, ts, cs, es)
  BY DEF WithItems, Parts5, DomainDomain
<1>3. WithItems(Parts5(h, ps, ts, <<>>, es), "commands", cs) = Parts5(h, ps, ts, cs, es)
  BY DEF WithItems, Parts5, DomainDomain
<1>4. WithItems(Parts5(h, ps, ts, cs, <<>>), "events", es) = Parts5(h, ps, ts, cs, es)
  BY DEF WithItems, Parts5, DomainDomain
<1> QED BY <1>1, <1>2, <1>3, <1>4

LEMMA NoDomainParts ==
  ASSUME NEW l, NEW d, NEW h, h = NewDomain(l, d)
  PROVE  DOMAIN h = DomainDomain /\ Parts5(h, <<>>, <<>>, <<>>, <<>>) = h
<1>1. PICK t : t = Parts5(h, <<>>, <<>>, <<>>, <<>>)
  OBVIOUS
<1>2. /\ DOMAIN h = DomainDomain /\ h.dependencies = <<>> /\ h.types = <<>> /\ h.commands = <<>> /\ h.events = <<>>
  BY DomainHeadIs DEF Items, ListOf
<1>3. h = [x \in DomainDomain |-> h[x]]
  BY DEF NewDomain, DomainDomain
<1>4. /\ t = [x \in DomainDomain |-> t[x]]
      /\ t.dependencies = <<>> /\ t.types = <<>> /\ t.commands = <<>> /\ t.events = <<>>
      /\ t.name = h.name /\ t.flags = h.flags /\ t.desc = h.desc
  BY <1>1, <1>2, PartsOfDomain, DomainPartsHead
<1>5. \A x \in DomainDomain : t[x] = h[x]
  BY <1>2, <1>4 DEF DomainDomain
<1>6. t = h
  BY <1>3, <1>4, <1>5
<1> QED BY <1>1, <1>2, <1>6

LEMMA ItemsGivenBack ==
  ASSUME NEW c \in Items, NEW dn, NEW ts, MeantItems(c, dn, ts), RestorableItems(c, ts)
  PROVE  ItemsWritten(c, dn, ts)
  BY ItemGivenBack DEF MeantItems, RestorableItems, ItemsWritten

LEMMA DomainGivenBack ==
  ASSUME NEW d, MeantDomain(d), RestorableDomain(d)
  PROVE  DomainBack(d)
<1>1. PICK h, ps, ts, cs, es : /\ h = ReadDomainLine(d) /\ ps = d.dependencies /\ ts = d.types
                               /\ cs = d.commands /\ es = d.events
  OBVIOUS
<1>2. d = Parts5(h, ps, ts, cs, es)
  BY <1>1, Zenon DEF MeantDomain
<1>3. DOMAIN h = DomainDomain /\ Parts5(h, <<>>, <<>>, <<>>, <<>>) = h
  BY <1>1, NoDomainParts DEF ReadDomainLine
<1>4. d = RestoredDomain(d)
  <2>1. WithDependencies(h, ps) = Parts5(h, ps, <<>>, <<>>, <<>>)
    <3>1. WithDependencies(Parts5(h, <<>>, <<>>, <<>>, <<>>), ps) = Parts5(h, ps, <<>>, <<>>, <<>>)
      BY <1>3, DomainPartGiven
    <3> QED BY <1>3, <3>1, Zenon
  <2>2. WithItems(Parts5(h, ps, <<>>, <<>>, <<>>), "types", ts) = Parts5(h, ps, ts, <<>>, <<>>)
    BY <1>3, DomainPartGiven
  <2>3. WithItems(Parts5(h, ps, ts, <<>>, <<>>), "commands", cs) = Parts5(h, ps, ts, cs, <<>>)
    BY <1>3, DomainPartGiven
  <2>4. WithItems(Parts5(h, ps, ts, cs, <<>>), "events", es) = Parts5(h, ps, ts, cs, es)
    BY <1>3, DomainPartGiven
  <2>5. RestoredDomain(d) = WithItems(WithItems(WithItems(WithDependencies(h, ps), "types", ts), "commands", cs), "events", es)
    BY <1>1, Zenon DEF RestoredDomain
  <2> QED BY <1>2, <2>1, <2>2, <2>3, <2>4, <2>5, Zenon
<1>5. ASSUME NEW c \in Items PROVE ItemsWritten(c, d.name, d[ListOf[c]])
  <2>1. PICK us, dn : us = d[ListOf[c]] /\ dn = d.name
    OBVIOUS
  <2>2. MeantItems(c, dn, us) /\ RestorableItems(c, us)
    BY <2>1 DEF MeantDomain, RestorableDomain
  <2> QED BY <2>1, <2>2, ItemsGivenBack
<1>6. Text(d.desc) /\ IsSeq(d.dependencies)
  BY DEF MeantDomain
<1> QED BY <1>4, <1>5, <1>6, Zenon DEF DomainBack, DomainPartsBack

-----------------------------------------------------------------------------
(* The order that lists are sorted in.                                     *)
LEMMA PermutedBag ==
  ASSUME NEW s, IsSeq(s), NEW t \in Permuted(s)
  PROVE  ToBag(t) = ToBag(s)
<1>1. PICK f \in Bijection(1 .. Len(s), 1 .. Len(s)) : t = [i \in 1 .. Len(s) |-> s[f[i]]]
  BY DEF Permuted
<1>2. PICK N : N = 1 .. Len(s)
  OBVIOUS
<1>3. /\ f \in [N -> N] /\ \A j \in N : \E i \in N : f[i] = j
      /\ \A i, k \in N : f[i] = f[k] => i = k
  BY <1>1, <1>2 DEF Bijection, Injection, Surjection, IsInjective
<1>4. Len(s) \in Nat /\ DOMAIN s = N /\ DOMAIN t = N /\ \A i \in N : t[i] = s[f[i]]
  BY <1>1, <1>2, SeqFacts
<1>5. Range(t) = Range(s)
  BY <1>3, <1>4 DEF Range
<1>6. ASSUME NEW x PROVE Cardinality({i \in DOMAIN t : t[i] = x}) = Cardinality({i \in DOMAIN s : s[i] = x})
  <2>1. PICK A, B : A = {i \in N : t[i] = x} /\ B = {i \in N : s[i] = x}
    OBVIOUS
  <2>2. PICK g : g = [i \in A |-> f[i]]
    OBVIOUS
  <2>3. g \in [A -> B]
    BY <1>3, <1>4, <2>1, <2>2
  <2>4. \A i, k \in A : g[i] = g[k] => i = k
    BY <1>3, <2>1, <2>2
  <2>5. \A j \in B : \E i \in A : g[i] = j
    BY <1>3, <1>4, <2>1, <2>2
  <2>6. g \in Bijection(A, B)
    BY <2>3, <2>4, <2>5 DEF Bijection, Injection, Surjection, IsInjective
  <2>7. ExistsBijection(A, B)
    BY <2>6 DEF ExistsBijection
  <2>8. IsFiniteSet(A)
    <3>1. IsFiniteSet(N) /\ A \subseteq N
      BY <1>2, <1>4, <2>1, FS_Interval
    <3> QED BY <3>1, FS_Subset
  <2>9. Cardinality(B) = Cardinality(A)
    BY <2>7, <2>8, FS_Bijection
  <2> QED BY <1>4, <2>1, <2>9
<1> QED BY <1>5, <1>6, Zenon DEF ToBag

LEMMA PermutedMap ==
  ASSUME NEW s, IsSeq(s), NEW t \in Permuted(s), NEW u, NEW v, IsSeq(u), Len(u) = Len(s),
         v = [i \in 1 .. Len(t) |-> v[i]], \A i \in 1 .. Len(s) : \A j \in 1 .. Len(s) : t[i] = s[j] => v[i] = u[j]
  PROVE  v \in Permuted(u)
<1>1. PICK f \in Bijection(1 .. Len(s), 1 .. Len(s)) : t = [i \in 1 .. Len(s) |-> s[f[i]]]
  BY DEF Permuted
<1>2. Len(t) = Len(s) /\ \A i \in 1 .. Len(s) : f[i] \in 1 .. Len(s)
  BY <1>1, PermutedSeq DEF Bijection, Injection
<1>3. \A i \in 1 .. Len(s) : v[i] = u[f[i]]
  BY <1>1, <1>2
<1>4. v = [i \in 1 .. Len(u) |-> u[f[i]]]
  BY <1>2, <1>3
<1> QED BY <1>4 DEF Permuted

-----------------------------------------------------------------------------
(* A domain whose lists Bytes has sorted says the same, but for their order. *)
LEMMA SortedBack ==
  ASSUME NEW c, NEW dn, NEW ts, MeantItems(c, dn, ts), RestorableItems(c, ts), NEW us \in Sorted(ts, ByName)
  PROVE  MeantItems(c, dn, us) /\ RestorableItems(c, us) /\ ToBag(us) = ToBag(ts)
<1>1. us \in Permuted(ts) /\ IsSeq(ts)
  BY DEF Sorted, MeantItems
<1>2. ToBag(us) = ToBag(ts)
  BY <1>1, PermutedBag
<1>3. IsSeq(us) /\ \A i \in 1 .. Len(us) : \E j \in 1 .. Len(ts) : us[i] = ts[j]
  BY <1>1, PermutedSeq
<1>4. \A i \in 1 .. Len(us) : MeantItem(c, dn, us[i])
  BY <1>3 DEF MeantItems
<1>5. \A i \in 1 .. Len(us) : RestorableItem(c, us[i])
  BY <1>3 DEF RestorableItems
<1> QED BY <1>2, <1>3, <1>4, <1>5 DEF MeantItems, RestorableItems

LEMMA ListsGiven ==
  ASSUME NEW h, DOMAIN h = DomainDomain, NEW ps, NEW ts, NEW cs, NEW es, NEW d, d = Parts5(h, ps, ts, cs, es),
         NEW ts2, NEW cs2, NEW es2, NEW e, e = WithLists(d, ts2, cs2, es2)
  PROVE  e = Parts5(h, ps, ts2, cs2, es2)
  BY DEF WithLists, Parts5, DomainDomain

LEMMA UnorderedSame ==
  ASSUME NEW d, NEW e, DOMAIN d = DomainDomain, DOMAIN e = DomainDomain,
         e.name = d.name, e.flags = d.flags, e.desc = d.desc, e.dependencies = d.dependencies,
         ToBag(e.types) = ToBag(d.types), ToBag(e.commands) = ToBag(d.commands), ToBag(e.events) = ToBag(d.events)
  PROVE  Unordered(e) = Unordered(d)
<1>1. ASSUME NEW x \in DomainDomain
      PROVE  (IF x \in {"types", "commands", "events"} THEN ToBag(e[x]) ELSE e[x])
               = (IF x \in {"types", "commands", "events"} THEN ToBag(d[x]) ELSE d[x])
  BY DEF DomainDomain
<1> QED BY <1>1, Zenon DEF Unordered

LEMMA RearrangedBack ==
  ASSUME NEW d, MeantDomain(d), RestorableDomain(d), NEW e \in Rearranged(d)
  PROVE  MeantDomain(e) /\ RestorableDomain(e) /\ Unordered(e) = Unordered(d)
<1>1. PICK ts \in Sorted(d.types, ByName), cs \in Sorted(d.commands, ByName), es \in Sorted(d.events, ByName) :
        e = WithLists(d, ts, cs, es)
  BY DEF Rearranged
<1>2. PICK h, dn, ps : h = ReadDomainLine(d) /\ dn = d.name /\ ps = d.dependencies
  OBVIOUS
<1>3. d = Parts5(h, ps, d.types, d.commands, d.events)
  BY <1>2, Zenon DEF MeantDomain
<1>4. DOMAIN h = DomainDomain
  BY <1>2, DomainHeadIs DEF ReadDomainLine
<1>5. e = Parts5(h, ps, ts, cs, es)
  BY <1>1, <1>3, <1>4, ListsGiven
<1>6. /\ DOMAIN d = DomainDomain /\ d.name = h.name /\ d.flags = h.flags /\ d.desc = h.desc
  BY <1>3, <1>4, PartsOfDomain, DomainPartsHead
<1>7. /\ DOMAIN e = DomainDomain /\ e.name = h.name /\ e.flags = h.flags /\ e.desc = h.desc
      /\ e.dependencies = ps /\ e.types = ts /\ e.commands = cs /\ e.events = es
  BY <1>4, <1>5, PartsOfDomain, DomainPartsHead
<1>8. /\ MeantItems("type", dn, d.types) /\ MeantItems("command", dn, d.commands) /\ MeantItems("event", dn, d.events)
      /\ RestorableItems("type", d.types) /\ RestorableItems("command", d.commands)
      /\ RestorableItems("event", d.events)
  BY <1>2 DEF MeantDomain, RestorableDomain, Items, ListOf
<1>9. MeantItems("type", dn, ts) /\ RestorableItems("type", ts) /\ ToBag(ts) = ToBag(d.types)
  BY <1>8, SortedBack
<1>10. MeantItems("command", dn, cs) /\ RestorableItems("command", cs) /\ ToBag(cs) = ToBag(d.commands)
  BY <1>8, SortedBack
<1>11. MeantItems("event", dn, es) /\ RestorableItems("event", es) /\ ToBag(es) = ToBag(d.events)
  BY <1>8, SortedBack
<1>12. Unordered(e) = Unordered(d)
  BY <1>2, <1>6, <1>7, <1>9, <1>10, <1>11, UnorderedSame
<1>13. RestorableDomain(e)
  BY <1>7, <1>9, <1>10, <1>11 DEF RestorableDomain, Items, ListOf
<1>14. \A c \in Items : MeantItems(c, e.name, e[ListOf[c]])
  <2>1. e.name = dn
    BY <1>2, <1>6, <1>7
  <2> QED BY <1>7, <1>9, <1>10, <1>11, <2>1 DEF Items, ListOf
<1>15. ReadDomainLine(e) = h
  <2>1. PICK l, m : l = DomainLine(e) /\ m = DomainLine(d)
    OBVIOUS
  <2>2. l.name = m.name /\ l.flags = m.flags /\ e.desc = d.desc
    BY <1>6, <1>7, <2>1 DEF DomainLine
  <2>3. NewDomain(l, e.desc) = NewDomain(m, d.desc)
    BY <2>2, SameNewDomain
  <2> QED BY <1>2, <2>1, <2>3 DEF ReadDomainLine
<1>16. e = Parts5(ReadDomainLine(e), e.dependencies, e.types, e.commands, e.events)
  BY <1>5, <1>7, <1>15, Zenon
<1>17. Text(e.desc) /\ IsSeq(e.dependencies)
  BY <1>2, <1>6, <1>7 DEF MeantDomain
<1> QED BY <1>12, <1>13, <1>14, <1>16, <1>17, Zenon DEF MeantDomain

(* What is read back of a document that Bytes has written.                 *)
RestorableDomains(ds) == \A i \in 1 .. Len(ds) : RestorableDomain(ds[i])

LEMMA DomainsBack ==
  ASSUME NEW o, DomainsShape(o), MeantDomains(o), RestorableDomains(o), NEW s \in Sorted(o, ByDomain),
         NEW ds \in [1 .. Len(s) -> UNION {Rearranged(s[i]) : i \in 1 .. Len(s)}],
         \A i \in 1 .. Len(s) : ds[i] \in Rearranged(s[i])
  PROVE  /\ DomainsShape(ds) /\ \A i, j \in 1 .. Len(ds) : i < j => ds[i].name <= ds[j].name
         /\ \A i \in 1 .. Len(ds) : DomainBack(ds[i])
         /\ ToBag([i \in DOMAIN ds |-> Unordered(ds[i])]) = ToBag([i \in DOMAIN o |-> Unordered(o[i])])
<1>1. s \in Permuted(o) /\ IsSeq(o)
  BY DEF Sorted, DomainsShape
<1>2. IsSeq(s) /\ Len(s) = Len(o) /\ \A i \in 1 .. Len(s) : \E j \in 1 .. Len(o) : s[i] = o[j]
  BY <1>1, PermutedSeq
<1>3. \A i \in 1 .. Len(s) : DomainShape(s[i])
  BY <1>2 DEF DomainsShape
<1>4. \A i \in 1 .. Len(s) : MeantDomain(s[i])
  BY <1>2 DEF MeantDomains
<1>5. \A i \in 1 .. Len(s) : RestorableDomain(s[i])
  BY <1>2 DEF RestorableDomains
<1>6. Len(s) \in Nat /\ ds = [i \in 1 .. Len(s) |-> ds[i]]
  BY <1>2, SeqFacts
<1>7. IsSeq(ds) /\ Len(ds) = Len(s)
  BY <1>6, SeqFunction
<1>8. \A i \in 1 .. Len(s) : DomainShape(ds[i]) /\ ds[i].name = s[i].name
  BY <1>3, RearrangedDomain
<1>9. \A i \in 1 .. Len(s) : MeantDomain(ds[i]) /\ RestorableDomain(ds[i]) /\ Unordered(ds[i]) = Unordered(s[i])
  BY <1>4, <1>5, RearrangedBack
<1>10. DomainsShape(ds)
  BY <1>7, <1>8 DEF DomainsShape
<1>11. \A i \in 1 .. Len(ds) : DomainBack(ds[i])
  BY <1>7, <1>9, DomainGivenBack
<1>12. ASSUME NEW i \in 1 .. Len(ds), NEW j \in 1 .. Len(ds), i < j PROVE ds[i].name <= ds[j].name
  <2>1. ~(s[j].name < s[i].name)
    BY <1>7, <1>12 DEF ByDomain, Sorted
  <2>2. s[i].name \in Nat /\ s[j].name \in Nat
    BY <1>3, <1>7 DEF DomainShape
  <2>3. ds[i].name = s[i].name /\ ds[j].name = s[j].name
    BY <1>7, <1>8
  <2>4. PICK x, y : x = s[i].name /\ y = s[j].name
    OBVIOUS
  <2>5. x \in Nat /\ y \in Nat /\ ~(y < x)
    BY <2>1, <2>2, <2>4
  <2>6. x <= y
    BY <2>5
  <2> QED BY <2>3, <2>4, <2>6, Zenon
<1>13. ToBag([i \in DOMAIN ds |-> Unordered(ds[i])]) = ToBag([i \in DOMAIN o |-> Unordered(o[i])])
  <2>1. PICK u, v : u = [i \in 1 .. Len(o) |-> Unordered(o[i])] /\ v = [i \in 1 .. Len(ds) |-> Unordered(ds[i])]
    OBVIOUS
  <2>2. DOMAIN o = 1 .. Len(o) /\ DOMAIN ds = 1 .. Len(ds) /\ Len(o) \in Nat
    BY <1>1, <1>7, SeqFacts
  <2>3. IsSeq(u) /\ Len(u) = Len(o)
    <3>1. u = [i \in 1 .. Len(o) |-> u[i]]
      BY <2>1
    <3> QED BY <2>2, <3>1, SeqFunction
  <2>4. v = [i \in 1 .. Len(s) |-> v[i]]
    BY <1>7, <2>1
  <2>5. ASSUME NEW i \in 1 .. Len(o), NEW j \in 1 .. Len(o), s[i] = o[j] PROVE v[i] = u[j]
    <3>1. v[i] = Unordered(ds[i]) /\ u[j] = Unordered(o[j])
      BY <1>2, <1>7, <2>1, <2>5
    <3> QED BY <1>2, <1>9, <2>5, <3>1
  <2>6. v \in Permuted(u)
    BY <1>1, <2>3, <2>4, <2>5, PermutedMap
  <2>7. ToBag(v) = ToBag(u)
    BY <2>3, <2>6, PermutedBag
  <2> QED BY <2>1, <2>2, <2>7
<1> QED BY <1>10, <1>11, <1>12, <1>13

LEMMA BytesBack ==
  ASSUME NEW d, DocShape(d), MeantDoc(d), d.version \in Nat \X Nat, RestorableDomains(d.domains), NEW ls \in Bytes(d),
         NEW p, Fresh(p), NEW q, q = ThenAll(p, ls)
  PROVE  SameUpToOrder(q, d)
<1>1. PICK s, ds : /\ s \in Sorted(d.domains, ByDomain)
                   /\ ds \in [1 .. Len(s) -> UNION {Rearranged(s[i]) : i \in 1 .. Len(s)}]
                   /\ \A i \in 1 .. Len(s) : ds[i] \in Rearranged(s[i])
                   /\ ls = HeaderLines(d) \o FlattenSeq([i \in 1 .. Len(ds) |-> DomainLines(ds[i])])
  BY DEF Bytes
<1>2. PICK o : o = d.domains
  OBVIOUS
<1>3. DomainsShape(o) /\ MeantDomains(o) /\ RestorableDomains(o) /\ s \in Sorted(o, ByDomain)
  BY <1>1, <1>2 DEF DocShape, MeantDoc
<1>4. /\ DomainsShape(ds) /\ \A i, j \in 1 .. Len(ds) : i < j => ds[i].name <= ds[j].name
      /\ \A i \in 1 .. Len(ds) : DomainBack(ds[i])
      /\ ToBag([i \in DOMAIN ds |-> Unordered(ds[i])]) = ToBag([i \in DOMAIN o |-> Unordered(o[i])])
  BY <1>1, <1>3, DomainsBack
<1>5. PICK f : f = FlattenSeq([i \in 1 .. Len(ds) |-> DomainLines(ds[i])])
  OBVIOUS
<1>6. NoVersion(f)
  BY <1>4, <1>5, DomainsFlat
<1>7. Text(d.copyright)
  BY DEF MeantDoc
<1>8. q = ThenAll(p, HeaderLines(d) \o f)
  BY <1>1, <1>5
<1>9. IsSeq(ds)
  BY <1>4 DEF DomainsShape
<1>10. q.copyright = d.copyright /\ q.version = d.version /\ q.domains = ds
  BY <1>4, <1>5, <1>6, <1>7, <1>8, <1>9, ReadDocument
<1> QED BY <1>2, <1>4, <1>10, Zenon DEF SameUpToOrder

-----------------------------------------------------------------------------
(* Combine keeps the shape: it joins the domains of what has been read.    *)
LEMMA MeantJoined ==
  ASSUME NEW ds, NEW es, MeantDomains(ds), MeantDomains(es)
  PROVE  MeantDomains(ds \o es)
<1>1. IsSeq(ds) /\ IsSeq(es) /\ Len(ds) \in Nat /\ Len(es) \in Nat
  BY SeqFacts DEF MeantDomains
<1>2. /\ IsSeq(ds \o es) /\ Len(ds \o es) = Len(ds) + Len(es)
      /\ \A i \in 1 .. Len(ds) : (ds \o es)[i] = ds[i]
      /\ \A i \in 1 .. Len(es) : (ds \o es)[Len(ds) + i] = es[i]
  BY <1>1, Concat
<1>3. PICK fs : fs = ds \o es
  OBVIOUS
<1>4. ASSUME NEW i \in 1 .. Len(fs) PROVE MeantDomain(fs[i])
  <2>1. CASE i <= Len(ds)
    BY <1>1, <1>2, <1>3, <2>1 DEF MeantDomains
  <2>2. CASE i > Len(ds)
    <3>1. PICK j : j = i - Len(ds)
      OBVIOUS
    <3>2. j \in 1 .. Len(es) /\ i = Len(ds) + j
      BY <1>1, <1>2, <1>3, <2>2, <3>1
    <3>3. fs[i] = es[j]
      BY <1>2, <1>3, <3>2
    <3> QED BY <3>2, <3>3 DEF MeantDomains
  <2> QED BY <1>1, <1>2, <1>3, <2>1, <2>2
<1> QED BY <1>2, <1>3, <1>4 DEF MeantDomains

LEMMA MergedMeant == ASSUME NEW p, NEW q, MeantDoc(p), MeantDoc(q) PROVE MeantDoc(Merged(p, q))
<1>1. PICK m : m = Merged(p, q)
  OBVIOUS
<1>2. m.domains = p.domains \o q.domains /\ (m.copyright = p.copyright \/ m.copyright = q.copyright)
  BY <1>1 DEF Merged
<1>3. MeantDomains(m.domains)
  BY <1>2, MeantJoined DEF MeantDoc
<1>4. Text(m.copyright)
  BY <1>2 DEF MeantDoc
<1> QED BY <1>1, <1>3, <1>4 DEF MeantDoc

LEMMA EmptyMeant == MeantDoc(EmptyDoc)
  BY NoElements DEF MeantDoc, EmptyDoc, Text, MeantDomains

LEMMA CombinedMeant ==
  ASSUME NEW ps, IsSeq(ps), \A k \in 1 .. Len(ps) : MeantDoc(ps[k])
  PROVE  MeantDoc(Combine(ps))
<1>1. PICK f : Combine(ps) = f[Len(ps)] /\ \A n \in 0 .. Len(ps) : f[n] = CombineTo(f, ps, n)
  BY StepsOfCombine
<1>2. Len(ps) \in Nat
  BY SeqFacts
<1> DEFINE S == {n \in Nat : n \in 0 .. Len(ps) => MeantDoc(f[n])}
<1>3. 0 \in S
  <2>1. f[0] = EmptyDoc
    BY <1>1, <1>2 DEF CombineTo
  <2> QED BY <2>1, EmptyMeant
<1>4. ASSUME NEW n \in Nat, n \in S PROVE n + 1 \in S
  <2> SUFFICES ASSUME n + 1 \in 0 .. Len(ps) PROVE MeantDoc(f[n + 1])
    OBVIOUS
  <2>1. n \in 0 .. Len(ps) /\ n + 1 \in 1 .. Len(ps)
    BY <1>2
  <2>2. MeantDoc(f[n]) /\ MeantDoc(ps[n + 1])
    BY <1>4, <2>1
  <2>3. f[n + 1] = Merged(f[n], ps[n + 1])
    <3>1. n + 1 # 0 /\ (n + 1) - 1 = n
      OBVIOUS
    <3> QED BY <1>1, <3>1 DEF CombineTo
  <2> QED BY <2>2, <2>3, MergedMeant
<1> HIDE DEF S
<1>5. Len(ps) \in S
  BY <1>2, <1>3, <1>4, Numbers
<1> QED BY <1>1, <1>2, <1>5 DEF S

-----------------------------------------------------------------------------
(* The files, what they mean, and what is left of the combined file.       *)

(* A document that its lines give back: no type is a bare array, a         *)
(* reference or redirected, no member a bare array or one of literals.     *)
Restorable == RestorableDomains(Combine(pdls).domains)

(* The items of the file have no parts but their own, and what its grammar *)
(* allows next is no other.                                                *)
KindsRead == phase = "files" => PartsOpen /\ Kinds(read)

(* The documents to combine are the meanings of their files.               *)
FilesMeant == \A k \in 1 .. Len(pdls) : MeantDoc(pdls[k]) /\ pdls[k] = Meaning(files[k])

(* What has been read of the combined file and what is left of it give,    *)
(* together, the combined document.                                        *)
LeftToRead ==
  phase = "combined" /\ outcome = "reading" /\ Restorable => SameUpToOrder(ThenAll(State, input), Combine(pdls))

ReadBackInv == WrittenInv /\ KindsRead /\ FilesMeant /\ LeftToRead

LEMMA NoKinds == ASSUME read' = <<>>, open' = {"version"} PROVE PartsOpen' /\ Kinds(read')
<1>1. PICK e : e = <<>>
  OBVIOUS
<1>2. Len(e) = 0
  BY <1>1, NoElements
<1>3. Kinds(e)
  BY <1>2 DEF Kinds
<1> QED BY <1>1, <1>3 DEF PartsOpen, Sections

LEMMA ReadBackStart == Init => ReadBackInv
<1> SUFFICES ASSUME Init PROVE ReadBackInv
  OBVIOUS
<1>1. /\ read = <<>> /\ open = {"version"} /\ pdls = <<>> /\ phase = "files"
  BY DEF Init
<1>2. Len(read) = 0 /\ Len(pdls) = 0
  BY <1>1, NoElements
<1>3. KindsRead
  BY <1>1, <1>2 DEF KindsRead, PartsOpen, Kinds, Sections
<1>4. FilesMeant /\ LeftToRead
  BY <1>1, <1>2 DEF FilesMeant, LeftToRead
<1> QED BY <1>3, <1>4, WrittenStart DEF ReadBackInv

LEMMA FileReadBack == ASSUME Ordered, ReadBackInv, ReadFile PROVE ReadBackInv'
<1>1. WrittenInv'
  BY WrittenStep DEF ReadBackInv, Next
<1>2. PICK s \in SamplesLeft :
        \E l \in s.lines : Grammatical(l) /\ ReadLine(l) /\ read' = Append(read, l) /\ open' = Follows(l)
  BY DEF ReadFile
<1>3. PICK l \in s.lines : Grammatical(l) /\ ReadLine(l) /\ read' = Append(read, l) /\ open' = Follows(l)
  BY <1>2
<1>4. LineShape(l)
  BY <1>3, FilesConstants DEF SamplesLeft, LineShape
<1>5. phase = "files" /\ phase' = "files" /\ UNCHANGED <<files, pdls>>
  BY DEF ReadFile
<1>6. ParserShape /\ PointersSet /\ outcome = "reading" /\ WrittenHere /\ outcome' = "reading"
  BY <1>1, <1>5 DEF ReadBackInv, WrittenInv, FilesInv, GrammarInv
<1>7. LineRead(l)
  BY <1>3, <1>4, <1>6, AnyLineRead
<1>8. NextLine(l)
  BY <1>3, <1>6, <1>7 DEF NextLine
<1>9. PartsOpen /\ Kinds(read)
  BY <1>5 DEF ReadBackInv, KindsRead
<1>10. PartsOpen' /\ Kinds(read')
  BY <1>8, <1>9, PartsOpenAfter, KindsAfter
<1>11. KindsRead'
  BY <1>10 DEF KindsRead
<1>12. FilesMeant'
  BY <1>5 DEF ReadBackInv, FilesMeant
<1>13. LeftToRead'
  BY <1>5 DEF LeftToRead
<1> QED BY <1>1, <1>11, <1>12, <1>13 DEF ReadBackInv

LEMMA FileEndsBack == ASSUME Ordered, ReadBackInv, EndOfFile PROVE ReadBackInv'
<1>1. WrittenInv' /\ WrittenInv
  BY WrittenStep DEF ReadBackInv, Next
<1>2. phase = "files" /\ phase' = "files" /\ read' = <<>> /\ open' = {"version"}
  BY DEF EndOfFile
<1>3. KindsRead'
  BY <1>2, NoKinds DEF KindsRead
<1>4. LeftToRead'
  BY <1>2 DEF LeftToRead
<1>5. PICK fs, ps, d, r : fs = files' /\ ps = pdls' /\ d = doc /\ r = read
  OBVIOUS
<1>6. d = Meaning(r) /\ WellKept(r)
  BY <1>1, <1>2, <1>5 DEF WrittenInv, WrittenHere, ReadWell, AsMeant, ReadBackInv, KindsRead, WellKept
<1>7. MeantDoc(d)
  BY <1>6, DocMeant
<1>8. fs = Append(files, r) /\ ps = Append(pdls, d)
  BY <1>5 DEF EndOfFile
<1>9. IsSeq(files) /\ IsSeq(pdls) /\ Len(pdls) = Len(files) /\ Len(pdls) \in Nat
  BY <1>1, SeqFacts DEF WrittenInv, FilesInv, Parts
<1>10. /\ Len(ps) = Len(pdls) + 1 /\ ps[Len(pdls) + 1] = d /\ \A k \in 1 .. Len(pdls) : ps[k] = pdls[k]
       /\ fs[Len(pdls) + 1] = r /\ \A k \in 1 .. Len(pdls) : fs[k] = files[k]
  BY <1>8, <1>9, Appended
<1>11. ASSUME NEW k \in 1 .. Len(ps) PROVE MeantDoc(ps[k]) /\ ps[k] = Meaning(fs[k])
  <2>1. k \in 1 .. Len(pdls) \/ k = Len(pdls) + 1
    BY <1>9, <1>10
  <2>2. CASE k \in 1 .. Len(pdls)
    BY <1>10, <2>2 DEF ReadBackInv, FilesMeant
  <2>3. CASE k = Len(pdls) + 1
    BY <1>6, <1>7, <1>10, <2>3
  <2> QED BY <2>1, <2>2, <2>3
<1>12. FilesMeant'
  BY <1>5, <1>11 DEF FilesMeant
<1> QED BY <1>1, <1>3, <1>4, <1>12 DEF ReadBackInv

LEMMA CombinedBack == ASSUME Ordered, ReadBackInv, CombineBytes PROVE ReadBackInv'
<1>1. WrittenInv' /\ WrittenInv
  BY WrittenStep DEF ReadBackInv, Next
<1>2. phase' = "combined" /\ files # <<>> /\ UNCHANGED <<files, pdls>>
  BY DEF CombineBytes
<1>3. KindsRead' /\ FilesMeant'
  BY <1>2 DEF ReadBackInv, KindsRead, FilesMeant
<1>4. PICK d, ls, p : d = Combine(pdls) /\ ls = input' /\ p = State'
  OBVIOUS
<1>5. ASSUME outcome' = "reading", Restorable' PROVE SameUpToOrder(ThenAll(p, ls), d)
  <2>1. ls \in Bytes(d) /\ ParseRestart
    BY <1>4, <1>5 DEF CombineBytes
  <2>2. Parts /\ IsSeq(pdls) /\ pdls # <<>>
    BY <1>1, <1>2, SeqFacts DEF WrittenInv, FilesInv, Parts
  <2>3. DocShape(d) /\ d.version \in Nat \X Nat
    BY <1>4, <2>2, CombinedShape DEF Parts
  <2>4. MeantDoc(d)
    BY <1>4, <2>2, CombinedMeant DEF ReadBackInv, FilesMeant
  <2>5. RestorableDomains(d.domains)
    BY <1>2, <1>4, <1>5 DEF Restorable
  <2>6. Fresh(p)
    BY <1>4, <2>1 DEF ParseRestart, Fresh, State, EmptyDoc, Desc
  <2> QED BY <2>1, <2>3, <2>4, <2>5, <2>6, BytesBack
<1>6. LeftToRead'
  BY <1>2, <1>4, <1>5 DEF LeftToRead
<1> QED BY <1>1, <1>3, <1>6 DEF ReadBackInv

LEMMA CombinedReadBack == ASSUME Ordered, ReadBackInv, ReadCombined PROVE ReadBackInv'
<1>1. WrittenInv' /\ WrittenInv
  BY WrittenStep DEF ReadBackInv, Next
<1>2. /\ phase = "combined" /\ phase' = "combined" /\ input # <<>> /\ input' = Tail(input)
      /\ UNCHANGED <<files, pdls, read>> /\ ReadLine(Head(input))
  BY DEF ReadCombined
<1>3. KindsRead' /\ FilesMeant'
  BY <1>2 DEF ReadBackInv, KindsRead, FilesMeant
<1>4. PICK d, ls, l, p, q : d = Combine(pdls) /\ ls = input /\ l = Head(input) /\ p = State /\ q = State'
  OBVIOUS
<1>5. ASSUME outcome' = "reading", Restorable' PROVE SameUpToOrder(ThenAll(q, Tail(ls)), d)
  <2>1. outcome = "reading" /\ Restorable
    BY <1>2, <1>5 DEF ReadLine, Restorable
  <2>2. SameUpToOrder(ThenAll(p, ls), d)
    BY <1>2, <1>4, <2>1 DEF ReadBackInv, LeftToRead
  <2>3. IsSeq(ls) /\ ls # <<>> /\ ParserShape
    BY <1>1, <1>2, <1>4 DEF WrittenInv, FilesInv, Combined
  <2>4. q = Then(p, l)
    BY <1>2, <1>4, <1>5, <2>3, ThenIsRead
  <2>5. ThenAll(p, ls) = ThenAll(Then(p, l), Tail(ls))
    BY <1>4, <2>3, ThenHead
  <2> QED BY <2>2, <2>4, <2>5, Zenon
<1>6. LeftToRead'
  BY <1>2, <1>4, <1>5 DEF LeftToRead
<1> QED BY <1>1, <1>3, <1>6 DEF ReadBackInv

LEMMA ReadBackStep == Ordered /\ ReadBackInv /\ [Next]_vars => ReadBackInv'
<1> SUFFICES ASSUME Ordered, ReadBackInv, [Next]_vars PROVE ReadBackInv'
  OBVIOUS
<1>1. CASE UNCHANGED vars
  <2>1. WrittenInv'
    BY WrittenStep DEF ReadBackInv
  <2>2. /\ UNCHANGED <<phase, files, pdls, read, open, input, outcome>>
        /\ UNCHANGED <<doc, domain, item, subitems, enumliterals, desc, clearDesc, copyright>>
    BY <1>1 DEF vars, parser
  <2>3. State' = State /\ ItemHere' = ItemHere /\ (Restorable' <=> Restorable)
    BY <2>2 DEF State, Desc, ItemHere, Restorable
  <2>4. KindsRead' /\ FilesMeant'
    BY <2>2, <2>3 DEF ReadBackInv, KindsRead, PartsOpen, FilesMeant
  <2>5. LeftToRead'
    BY <2>2, <2>3 DEF ReadBackInv, LeftToRead
  <2> QED BY <2>1, <2>4, <2>5 DEF ReadBackInv
<1> QED BY <1>1, FileReadBack, FileEndsBack, CombinedBack, CombinedReadBack DEF Next

-----------------------------------------------------------------------------
(* What Bytes writes of a type that is a reference, or redirected, has a    *)
(* line that Parse does not know, wherever the type is.                    *)
Unknown(ls) == IsSeq(ls) /\ \E l \in ToSet(ls) : l.class = "unknown"

LEMMA UnknownBefore == ASSUME NEW ls, NEW ms, Unknown(ls), IsSeq(ms) PROVE Unknown(ls \o ms)
<1>1. IsSeq(ls \o ms) /\ ToSet(ls \o ms) = ToSet(ls) \cup ToSet(ms)
  BY Concat DEF Unknown
<1> QED BY <1>1 DEF Unknown

LEMMA UnknownAfter == ASSUME NEW ls, NEW ms, IsSeq(ls), Unknown(ms) PROVE Unknown(ls \o ms)
<1>1. IsSeq(ls \o ms) /\ ToSet(ls \o ms) = ToSet(ls) \cup ToSet(ms)
  BY Concat DEF Unknown
<1> QED BY <1>1 DEF Unknown

LEMMA UnknownOne == ASSUME NEW l, l.class = "unknown" PROVE Unknown(<<l>>)
  BY Single DEF Unknown

LEMMA UnknownFlat ==
  ASSUME NEW n \in Nat, NEW ss, ss = [i \in 1 .. n |-> ss[i]], \A i \in 1 .. n : IsSeq(ss[i]),
         NEW i \in 1 .. n, Unknown(ss[i])
  PROVE  Unknown(FlattenSeq(ss))
<1>1. IsSeq(ss) /\ Len(ss) = n
  BY SeqFunction
<1>2. /\ IsSeq(FlattenSeq(ss))
      /\ \A x : x \in ToSet(FlattenSeq(ss)) <=> \E k \in 1 .. Len(ss) : x \in ToSet(ss[k])
  BY <1>1, FlattenElements
<1> QED BY <1>1, <1>2 DEF Unknown

LEMMA UnknownRedirect == ASSUME NEW t, t.redirect # <<>> PROVE Unknown(RedirectLines(t, TRUE))
<1>1. RedirectLines(t, TRUE) = InsteadLines(t) \o <<RedirectLine(t, TRUE)>>
  BY RedirectParts
<1>2. IsSeq(InsteadLines(t))
  <2>1. \A y : IsSeq(DescLines(<<y>>))
    BY Single, DescSeqLines
  <2> QED BY <2>1, NoElements, Zenon DEF InsteadLines
<1>3. Unknown(<<RedirectLine(t, TRUE)>>)
  <2>1. RedirectLine(t, TRUE).class = "unknown"
    BY DEF RedirectLine
  <2> QED BY <2>1, UnknownOne
<1> QED BY <1>1, <1>2, <1>3, UnknownAfter

LEMMA UnknownType == ASSUME NEW t, ItemShape(t), ~WritableType(t) PROVE Unknown(TypeLines(t))
<1>1. PICK d, x, r, v, p, b :
        /\ d = DescLines(t.desc) /\ x = TypeLine(t) /\ r = RedirectLines(t, TRUE)
        /\ v = (IF t.enum = <<>> THEN <<>> ELSE <<[class |-> "enum"]>> \o LiteralLines(t.enum))
        /\ p = PropLines("properties", t.properties) /\ b = Blank
  OBVIOUS
<1>2. TypeLines(t) = d \o <<x>> \o r \o v \o p \o b
  BY <1>1 DEF TypeLines
<1>3. IsSeq(d) /\ IsSeq(b)
  BY <1>1, Single, DescSeqLines DEF ItemShape, Blank
<1>4. IsSeq(v)
  <2>1. IsSeq(LiteralLines(t.enum))
    BY LiteralSeqLines DEF ItemShape
  <2>2. IsSeq(<<[class |-> "enum"]>> \o LiteralLines(t.enum))
    BY <2>1, Single, Concat
  <2> QED BY <1>1, <2>2, NoElements
<1>5. IsSeq(p)
  <2>1. MembersShape(t.properties) /\ "properties" \in Sections
    BY DEF ItemShape, Sections
  <2> QED BY <1>1, <2>1, PlainProps DEF Plain
<1>6. IsSeq(r)
  BY <1>1, PlainRedirect DEF Plain
<1>7. IsSeq(<<x>>) /\ IsSeq(d \o <<x>>)
  BY <1>3, Single, Concat
<1>8. Unknown(d \o <<x>> \o r)
  <2>1. CASE t.redirect # <<>>
    <3>1. Unknown(r)
      BY <1>1, <2>1, UnknownRedirect
    <3> QED BY <1>7, <3>1, UnknownAfter
  <2>2. CASE x.class = "unknown"
    <3>1. Unknown(d \o <<x>>)
      BY <1>3, <2>2, UnknownOne, UnknownAfter
    <3> QED BY <1>6, <3>1, UnknownBefore
  <2> QED BY <1>1, <2>1, <2>2 DEF WritableType
<1>9. Unknown(d \o <<x>> \o r \o v)
  BY <1>4, <1>8, UnknownBefore
<1>10. Unknown(d \o <<x>> \o r \o v \o p)
  BY <1>5, <1>9, UnknownBefore
<1> QED BY <1>2, <1>3, <1>10, UnknownBefore

LEMMA UnknownDomain == ASSUME NEW d, DomainShape(d), ~WritableDomain(d) PROVE Unknown(DomainLines(d))
<1>1. PICK i \in 1 .. Len(d.types) : ~WritableType(d.types[i])
  BY DEF WritableDomain
<1>2. PICK a, x, b, c, t, u, e :
        /\ a = DescLines(d.desc) /\ b = Blank
        /\ x = [class |-> "domain", name |-> d.name, flags |-> d.flags]
        /\ c = [k \in 1 .. Len(d.dependencies) |-> [class |-> "depends", name |-> d.dependencies[k]]]
        /\ t = FlattenSeq([k \in 1 .. Len(d.types) |-> TypeLines(d.types[k])])
        /\ u = FlattenSeq([k \in 1 .. Len(d.commands) |-> CommandLines(d.commands[k])])
        /\ e = FlattenSeq([k \in 1 .. Len(d.events) |-> EventLines(d.events[k])])
  OBVIOUS
<1>3. DomainLines(d) = a \o <<x>> \o c \o b \o t \o u \o e
  BY <1>2 DEF DomainLines
<1>4. IsSeq(a) /\ IsSeq(<<x>>) /\ IsSeq(b)
  BY <1>2, Single, DescSeqLines DEF DomainShape, Blank
<1>5. IsSeq(c)
  <2>1. PICK n : n = Len(d.dependencies)
    OBVIOUS
  <2>2. n \in Nat /\ c = [k \in 1 .. n |-> c[k]]
    BY <1>2, <2>1, SeqFacts DEF DomainShape
  <2> QED BY <2>2, SeqFunction
<1>6. ItemsShape(d.types) /\ ItemsShape(d.commands) /\ ItemsShape(d.events)
  BY DEF DomainShape, ItemLists
<1>7. IsSeq(u) /\ IsSeq(e)
  BY <1>2, <1>6, PlainItems DEF Plain
<1>8. Unknown(t)
  <2>1. PICK n, ss : n = Len(d.types) /\ ss = [k \in 1 .. n |-> TypeLines(d.types[k])]
    OBVIOUS
  <2>2. n \in Nat /\ \A k \in 1 .. n : ItemShape(d.types[k])
    BY <1>6, <2>1, SeqFacts DEF ItemsShape
  <2>3. ss = [k \in 1 .. n |-> ss[k]] /\ \A k \in 1 .. n : ss[k] = TypeLines(d.types[k])
    BY <2>1
  <2>4. \A k \in 1 .. n : IsSeq(ss[k])
    BY <2>2, <2>3, PlainItem DEF Plain
  <2>5. Unknown(ss[i])
    BY <1>1, <2>1, <2>2, <2>3, UnknownType
  <2>6. Unknown(FlattenSeq(ss))
    BY <1>1, <2>1, <2>2, <2>3, <2>4, <2>5, UnknownFlat
  <2> QED BY <1>2, <2>1, <2>6
<1>9. IsSeq(a \o <<x>> \o c \o b)
  BY <1>4, <1>5, Concat
<1>10. Unknown(a \o <<x>> \o c \o b \o t)
  BY <1>8, <1>9, UnknownAfter
<1>11. Unknown(a \o <<x>> \o c \o b \o t \o u)
  BY <1>7, <1>10, UnknownBefore
<1> QED BY <1>3, <1>7, <1>11, UnknownBefore

(* Sorting loses nothing. *)
LEMMA PermutedOnto ==
  ASSUME NEW s, IsSeq(s), NEW t \in Permuted(s), NEW j \in 1 .. Len(s)
  PROVE  \E i \in 1 .. Len(t) : t[i] = s[j]
<1>1. PICK f \in Bijection(1 .. Len(s), 1 .. Len(s)) : t = [i \in 1 .. Len(s) |-> s[f[i]]]
  BY DEF Permuted
<1>2. PICK i \in 1 .. Len(s) : f[i] = j
  BY <1>1 DEF Bijection, Surjection
<1>3. Len(t) = Len(s)
  BY PermutedSeq
<1> QED BY <1>1, <1>2, <1>3

LEMMA RearrangedUnwritable ==
  ASSUME NEW d, DomainShape(d), ~WritableDomain(d), NEW e \in Rearranged(d)
  PROVE  DomainShape(e) /\ ~WritableDomain(e)
<1>1. DomainShape(e)
  BY RearrangedDomain
<1>2. PICK ts \in Sorted(d.types, ByName), cs \in Sorted(d.commands, ByName), es \in Sorted(d.events, ByName) :
        e = WithLists(d, ts, cs, es)
  BY DEF Rearranged
<1>3. e.types = ts
  BY <1>2 DEF WithLists, DomainShape, ItemLists
<1>4. PICK j \in 1 .. Len(d.types) : ~WritableType(d.types[j])
  BY DEF WritableDomain
<1>5. IsSeq(d.types) /\ ts \in Permuted(d.types)
  BY <1>2 DEF DomainShape, ItemLists, ItemsShape, Sorted
<1>6. PICK i \in 1 .. Len(ts) : ts[i] = d.types[j]
  BY <1>5, PermutedOnto
<1> QED BY <1>1, <1>3, <1>4, <1>6 DEF WritableDomain

LEMMA UnknownBytes ==
  ASSUME NEW d, DocShape(d), d.version \in Nat \X Nat, NEW ls \in Bytes(d),
         NEW j \in 1 .. Len(d.domains), ~WritableDomain(d.domains[j])
  PROVE  Unknown(ls)
<1>1. PICK s, ds : /\ s \in Sorted(d.domains, ByDomain)
                   /\ ds \in [1 .. Len(s) -> UNION {Rearranged(s[i]) : i \in 1 .. Len(s)}]
                   /\ \A i \in 1 .. Len(s) : ds[i] \in Rearranged(s[i])
                   /\ ls = HeaderLines(d) \o FlattenSeq([i \in 1 .. Len(ds) |-> DomainLines(ds[i])])
  BY DEF Bytes
<1>2. s \in Permuted(d.domains) /\ DomainsShape(d.domains)
  BY <1>1 DEF Sorted, DocShape
<1>3. IsSeq(s) /\ \A i \in 1 .. Len(s) : DomainShape(s[i])
  <2>1. IsSeq(s) /\ Len(s) = Len(d.domains) /\ \A i \in 1 .. Len(s) : \E k \in 1 .. Len(d.domains) : s[i] = d.domains[k]
    BY <1>2, PermutedSeq DEF DomainsShape
  <2> QED BY <1>2, <2>1 DEF DomainsShape
<1>4. PICK i \in 1 .. Len(s) : s[i] = d.domains[j]
  BY <1>2, PermutedOnto DEF DomainsShape
<1>5. Len(s) \in Nat /\ ds = [k \in 1 .. Len(s) |-> ds[k]]
  BY <1>1, <1>3, SeqFacts
<1>6. IsSeq(ds) /\ Len(ds) = Len(s)
  BY <1>5, SeqFunction
<1>7. \A k \in 1 .. Len(s) : DomainShape(ds[k])
  BY <1>1, <1>3, RearrangedDomain
<1>8. DomainShape(ds[i]) /\ ~WritableDomain(ds[i])
  BY <1>1, <1>3, <1>4, RearrangedUnwritable
<1>9. PICK ss : ss = [k \in 1 .. Len(s) |-> DomainLines(ds[k])]
  OBVIOUS
<1>10. ss = [k \in 1 .. Len(s) |-> ss[k]] /\ \A k \in 1 .. Len(s) : ss[k] = DomainLines(ds[k])
  BY <1>9
<1>11. \A k \in 1 .. Len(s) : IsSeq(ss[k])
  BY <1>7, <1>10, LinesOfDomain DEF PartOf
<1>12. Unknown(ss[i])
  BY <1>8, <1>10, UnknownDomain
<1>13. Unknown(FlattenSeq(ss))
  BY <1>5, <1>10, <1>11, <1>12, UnknownFlat
<1>14. IsSeq(HeaderLines(d))
  BY Header DEF DocShape
<1>15. ls = HeaderLines(d) \o FlattenSeq(ss)
  BY <1>1, <1>6, <1>9
<1> QED BY <1>13, <1>14, <1>15, UnknownAfter

LEMMA KnownRead == ASSUME NEW l, ReadLine(l), outcome' = "reading" PROVE l.class # "unknown"
  BY DEF ReadLine, ReadComment, ReadBlank, ReadDomain, ReadDepends, ReadItem, ReadMember, ReadSection,
         ReadEnum, ReadVersion, ReadMajorMinor, ReadRedirect, ReadLiteral, ReadUnknown, ReadNil, Items, Sections

(* Such a line stops the parser as long as it is there; a bare array has    *)
(* stopped the writer.                                                     *)
LeftUnknown ==
  phase = "combined" /\ outcome = "reading" =>
    LET d == Combine(pdls)
    IN  ~HasBareArray(d) /\ (~WritableDoc(d) => Unknown(input))

ReadAgainInv == ReadBackInv /\ LeftUnknown

LEMMA CombinedUnknown == ASSUME ReadBackInv, CombineBytes PROVE LeftUnknown'
<1>1. phase = "files" /\ files # <<>> /\ UNCHANGED pdls
  BY DEF CombineBytes
<1>2. PICK d, ls : d = Combine(pdls) /\ ls = input'
  OBVIOUS
<1>3. ASSUME outcome' = "reading" PROVE ~HasBareArray(d) /\ (~WritableDoc(d) => Unknown(ls))
  <2>1. ~HasBareArray(d) /\ ls \in Bytes(d)
    BY <1>2, <1>3 DEF CombineBytes
  <2>2. Parts /\ IsSeq(pdls) /\ pdls # <<>>
    BY <1>1, SeqFacts DEF ReadBackInv, WrittenInv, FilesInv, Parts
  <2>3. DocShape(d) /\ d.version \in Nat \X Nat
    BY <1>2, <2>2, CombinedShape DEF Parts
  <2>4. ASSUME ~WritableDoc(d) PROVE Unknown(ls)
    <3>1. PICK j \in 1 .. Len(d.domains) : ~WritableDomain(d.domains[j])
      BY <2>1, <2>4 DEF WritableDoc
    <3> QED BY <2>1, <2>3, <3>1, UnknownBytes
  <2> QED BY <2>1, <2>4
<1> QED BY <1>1, <1>2, <1>3 DEF LeftUnknown

LEMMA UnknownLeft == ASSUME ReadAgainInv, ReadCombined PROVE LeftUnknown'
<1>1. /\ phase = "combined" /\ input # <<>> /\ input' = Tail(input) /\ UNCHANGED pdls
      /\ ReadLine(Head(input)) /\ outcome = "reading" /\ IsSeq(input)
  BY DEF ReadCombined, ReadLine, ReadAgainInv, ReadBackInv, WrittenInv, FilesInv, Combined
<1>2. PICK d, ls, t : d = Combine(pdls) /\ ls = input /\ t = Tail(input)
  OBVIOUS
<1>3. ~HasBareArray(d) /\ (~WritableDoc(d) => Unknown(ls))
  BY <1>1, <1>2 DEF ReadAgainInv, LeftUnknown
<1>4. ASSUME outcome' = "reading", ~WritableDoc(d) PROVE Unknown(t)
  <2>1. PICK i \in 1 .. Len(ls) : ls[i].class = "unknown"
    BY <1>1, <1>2, <1>3, <1>4, SeqFacts DEF Unknown
  <2>2. /\ Head(ls) = ls[1] /\ IsSeq(t) /\ Len(t) = Len(ls) - 1 /\ Len(ls) - 1 \in Nat
        /\ \A k \in 1 .. Len(ls) - 1 : t[k] = ls[k + 1]
    BY <1>1, <1>2, HeadTail
  <2>3. Head(ls).class # "unknown"
    BY <1>1, <1>2, <1>4, KnownRead
  <2>4. i # 1
    BY <2>1, <2>2, <2>3
  <2>5. i - 1 \in 1 .. Len(t) /\ i - 1 + 1 = i
    BY <2>2, <2>4
  <2>6. t[i - 1].class = "unknown"
    BY <2>1, <2>2, <2>5
  <2> QED BY <2>2, <2>5, <2>6, SeqFacts DEF Unknown
<1> QED BY <1>1, <1>2, <1>3, <1>4 DEF LeftUnknown

LEMMA ReadAgainStep == Ordered /\ ReadAgainInv /\ [Next]_vars => ReadAgainInv'
<1> SUFFICES ASSUME Ordered, ReadAgainInv, [Next]_vars PROVE ReadAgainInv'
  OBVIOUS
<1>1. ReadBackInv'
  BY ReadBackStep DEF ReadAgainInv
<1>2. CASE ReadFile \/ EndOfFile
  BY <1>1, <1>2 DEF ReadFile, EndOfFile, ReadAgainInv, LeftUnknown
<1>3. CASE CombineBytes
  BY <1>1, <1>3, CombinedUnknown DEF ReadAgainInv
<1>4. CASE ReadCombined
  BY <1>1, <1>4, UnknownLeft DEF ReadAgainInv
<1>5. CASE UNCHANGED vars
  BY <1>1, <1>5 DEF vars, parser, ReadAgainInv, LeftUnknown
<1> QED BY <1>2, <1>3, <1>4, <1>5 DEF Next

-----------------------------------------------------------------------------
(* What Bytes writes of it means something else: a member with literals is  *)
(* written as no array, a type that is a bare array as an array of arrays.  *)
Faithful ==
  \A i \in 1 .. Len(Combine(pdls).domains) : \A c \in Items :
    LET ts == Combine(pdls).domains[i][ListOf[c]]
    IN  \A j \in 1 .. Len(ts) :
          /\ \A f \in Sections : \A k \in 1 .. Len(ts[j][f]) : NoEnumArray(ts[j][f][k])
          /\ c = "type" => ~BareArray(ts[j])

LEMMA FaithfulRestored ==
  ASSUME Faithful, WritableDoc(Combine(pdls)), MeantDoc(Combine(pdls)) PROVE Restorable
<1>1. PICK d, ds : d = Combine(pdls) /\ ds = d.domains
  OBVIOUS
<1>2. ASSUME NEW i \in 1 .. Len(ds), NEW c \in Items, NEW j \in 1 .. Len(ds[i][ListOf[c]])
      PROVE  RestorableItem(c, ds[i][ListOf[c]][j])
  <2>1. PICK t : t = ds[i][ListOf[c]][j]
    OBVIOUS
  <2>2. ASSUME NEW f \in Sections, NEW k \in 1 .. Len(t[f]) PROVE NoEnumArray(t[f][k])
    BY <1>1, <1>2, <2>1, <2>2 DEF Faithful
  <2>3. c = "type" => ~BareArray(t)
    BY <1>1, <1>2, <2>1 DEF Faithful
  <2>4. ListOf[c] \in {"types", "commands", "events"} /\ (c = "type" => ListOf[c] = "types")
    BY DEF Items, ListOf
  <2>5. ASSUME NEW f \in Sections, NEW k \in 1 .. Len(t[f]) PROVE ~BareArray(t[f][k])
    <3>1. ~HasBareArray(d)
      BY <1>1 DEF WritableDoc
    <3>2. t[f] # <<>>
      BY <2>5, NoElements
    <3>3. MeantItem(c, ds[i].name, t)
      <4>1. MeantDomain(ds[i])
        BY <1>1, <1>2 DEF MeantDoc, MeantDomains
      <4> QED BY <1>2, <2>1, <4>1 DEF MeantDomain, MeantItems
    <3>4. ListOf[c] \in DOMAIN Listed /\ f \in Listed[ListOf[c]]
      <4>1. f \in PartsOf[c]
        BY <2>5, <3>2, <3>3 DEF MeantItem
      <4> QED BY <2>5, <4>1, PartsOfItem DEF Items, ListOf, Listed, Sections
    <3>5. j \in 1 .. Len(d.domains[i][ListOf[c]]) /\ k \in 1 .. Len(d.domains[i][ListOf[c]][j][f])
      BY <1>1, <1>2, <2>1, <2>5
    <3>6. ~BareArray(d.domains[i][ListOf[c]][j][f][k])
      BY <1>1, <1>2, <3>1, <3>4, <3>5 DEF HasBareArray
    <3> QED BY <1>1, <2>1, <3>6
  <2>6. c = "type" => WritableType(t)
    <3>1. WritableDomain(ds[i])
      BY <1>1 DEF WritableDoc
    <3> QED BY <1>2, <2>1, <2>4, <3>1 DEF WritableDomain
  <2> QED BY <2>1, <2>2, <2>3, <2>5, <2>6 DEF RestorableItem, RestorableMember
<1>3. RestorableDomains(ds)
  BY <1>2 DEF RestorableDomains, RestorableDomain, RestorableItems
<1> QED BY <1>1, <1>3 DEF Restorable

LEMMA ReadAgainEnds == ASSUME ReadAgainInv, Faithful PROVE RoundTrip
<1> SUFFICES ASSUME phase = "combined", input = <<>>, outcome = "reading"
             PROVE  SameUpToOrder(doc, Combine([i \in 1 .. Len(files) |-> Meaning(files[i])]))
  BY DEF RoundTrip
<1>1. PICK ps, q : ps = [i \in 1 .. Len(files) |-> Meaning(files[i])] /\ q = State
  OBVIOUS
<1>2. pdls = ps
  <2>1. IsSeq(pdls) /\ Len(pdls) = Len(files)
    BY DEF ReadAgainInv, ReadBackInv, WrittenInv, FilesInv, Parts
  <2>2. pdls = [i \in 1 .. Len(pdls) |-> pdls[i]]
    BY <2>1, SeqFacts
  <2> QED BY <1>1, <2>1, <2>2 DEF ReadAgainInv, ReadBackInv, FilesMeant
<1>3. Restorable
  <2>1. PICK d, ls : d = Combine(pdls) /\ ls = input
    OBVIOUS
  <2>2. ~WritableDoc(d) => Unknown(ls)
    BY <2>1 DEF ReadAgainInv, LeftUnknown
  <2>3. ~Unknown(ls)
    BY <2>1, NoElements DEF Unknown
  <2>4. MeantDoc(Combine(pdls))
    BY CombinedMeant DEF ReadAgainInv, ReadBackInv, FilesMeant, WrittenInv, FilesInv, Parts
  <2> QED BY <2>1, <2>2, <2>3, <2>4, FaithfulRestored
<1>4. ThenAll(q, <<>>) = q
  BY ThenNone
<1>5. SameUpToOrder(q, Combine(pdls))
  BY <1>1, <1>3, <1>4, Zenon DEF ReadAgainInv, ReadBackInv, LeftToRead
<1>6. q.copyright = doc.copyright /\ q.version = doc.version /\ q.domains = doc.domains
  BY <1>1 DEF State
<1>7. SameUpToOrder(doc, Combine(pdls))
  BY <1>5, <1>6, Zenon DEF SameUpToOrder
<1> QED BY <1>1, <1>2, <1>7, Zenon

(* The combined file, read again to its end, gives the domains of the files *)
(* with the first copyright there is, whatever the files are: RoundTrip     *)
(* holds of all protocols in which no member is an array of literals and no *)
(* type a bare array, which are the two things that Bytes writes unlike     *)
(* what Parse has read (pdl/pdl.go:377, 429-438).                           *)
THEOREM CombinedReadsBack == Spec => [](Ordered /\ Faithful => RoundTrip)
<1>1. CASE Ordered
  <2>1. Init => ReadAgainInv
    BY ReadBackStart DEF ReadAgainInv, LeftUnknown, Init
  <2>2. ReadAgainInv /\ [Next]_vars => ReadAgainInv'
    BY <1>1, ReadAgainStep
  <2>3. ReadAgainInv => (Ordered /\ Faithful => RoundTrip)
    BY ReadAgainEnds
  <2> QED BY <2>1, <2>2, <2>3, PTL DEF Spec
<1>2. CASE ~Ordered
  <2>1. Ordered /\ Faithful => RoundTrip
    BY <1>2
  <2> QED BY <2>1, PTL
<1> QED BY <1>1, <1>2

=============================================================================
