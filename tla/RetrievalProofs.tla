--------------------------- MODULE RetrievalProofs ----------------------------
(***************************************************************************)
(* Proofs about Retrieval, for any tags, command lines and invocations:    *)
(* the order of versions; the names and contents of the files that both    *)
(* tools write; what the two counters of grab.go bound, which are the files*)
(* of each major and the versions that are passed over.                    *)
(***************************************************************************)
EXTENDS Retrieval, SequenceTheorems, FiniteSetTheorems, TLAPS

-----------------------------------------------------------------------------
(* The order of versions. *)

Semvers == [major : Nat, minor : Nat, patch : Nat, pre : Nat \cup {NoPrerelease}]

LEMMA SemverType == ASSUME NEW v \in Version PROVE MakeSemver(v) \in Semvers
  BY DEF Version, IsVersion, MakeSemver, Semvers

(* Two tags never become the same semver: nothing is lost on the way.      *)
LEMMA SemverInjective ==
  ASSUME NEW u \in Version, NEW v \in Version, MakeSemver(u) = MakeSemver(v)
  PROVE  u = v
<1>1. /\ u \in Seq(Nat) /\ v \in Seq(Nat)
      /\ Len(u) \in {3, 4} /\ Len(v) \in {3, 4}
  BY DEF Version, IsVersion
<1>2. u[1] = v[1] /\ u[2] = v[2] /\ u[3] = v[3]
  BY DEF MakeSemver
<1>3. Len(u) = Len(v)
  BY <1>1 DEF MakeSemver, NoPrerelease
<1>4. Len(u) = 4 => u[4] = v[4]
  BY <1>3 DEF MakeSemver
<1>5. \A i \in 1 .. Len(u) : u[i] = v[i]
  <2> SUFFICES ASSUME NEW i \in 1 .. Len(u) PROVE u[i] = v[i]
    OBVIOUS
  <2>1. i \in {1, 2, 3} \/ (i = 4 /\ Len(u) = 4)
    <3>1. CASE Len(u) = 3
      BY <3>1
    <3>2. CASE Len(u) = 4
      BY <3>2
    <3> QED BY <1>1, <3>1, <3>2
  <2> QED BY <1>2, <1>4, <2>1
<1> QED BY <1>1, <1>3, <1>5, SeqEqual

LEMMA LessThanOrder ==
  ASSUME NEW s \in Semvers, NEW t \in Semvers, NEW u \in Semvers
  PROVE  /\ ~LessThan(s, s)
         /\ LessThan(s, t) /\ LessThan(t, u) => LessThan(s, u)
         /\ s = t \/ LessThan(s, t) \/ LessThan(t, s)
<1>1. ~LessThan(s, s)
  BY DEF Semvers, LessThan, NoPrerelease
<1>2. LessThan(s, t) /\ LessThan(t, u) => LessThan(s, u)
  BY DEF Semvers, LessThan, NoPrerelease
<1>3. ASSUME ~LessThan(s, t), ~LessThan(t, s) PROVE s = t
  <2>1. s.major = t.major /\ s.minor = t.minor /\ s.patch = t.patch /\ s.pre = t.pre
    BY <1>3 DEF Semvers, LessThan, NoPrerelease
  <2> QED BY <2>1 DEF Semvers
<1> QED BY <1>1, <1>2, <1>3

(* CompareSemver is a strict total order on versions of three and of four   *)
(* numbers: there is one newest version, and sort.Sort has one result.      *)
THEOREM VersionsOrdered ==
  ASSUME NEW a \in Version, NEW b \in Version, NEW c \in Version
  PROVE  /\ ~CompareSemver(a, a)
         /\ CompareSemver(a, b) /\ CompareSemver(b, c) => CompareSemver(a, c)
         /\ a = b \/ CompareSemver(a, b) \/ CompareSemver(b, a)
<1>1. /\ MakeSemver(a) \in Semvers /\ MakeSemver(b) \in Semvers /\ MakeSemver(c) \in Semvers
  BY SemverType
<1>2. /\ ~CompareSemver(a, a)
      /\ CompareSemver(a, b) /\ CompareSemver(b, c) => CompareSemver(a, c)
  BY <1>1, LessThanOrder DEF CompareSemver
<1>3. a = b \/ CompareSemver(a, b) \/ CompareSemver(b, a)
  BY <1>1, LessThanOrder, SemverInjective DEF CompareSemver
<1> QED BY <1>2, <1>3

(* So is the comparison that main.go hands to WalkAndCompare, on files      *)
(* named after two versions: sort.Slice asks for a strict order.            *)
THEOREM FilesOrdered ==
  ASSUME NEW f \in Version \X Version, NEW g \in Version \X Version, NEW h \in Version \X Version
  PROVE  /\ ~FileOlder(f, f)
         /\ FileOlder(f, g) /\ FileOlder(g, h) => FileOlder(f, h)
         /\ f = g \/ FileOlder(f, g) \/ FileOlder(g, f)
<1>1. /\ f[1] \in Version /\ g[1] \in Version /\ h[1] \in Version
      /\ f[2] \in Version /\ g[2] \in Version /\ h[2] \in Version
  OBVIOUS
<1>2. ~FileOlder(f, f)
  BY <1>1, VersionsOrdered DEF FileOlder
<1>3. ASSUME FileOlder(f, g), FileOlder(g, h) PROVE FileOlder(f, h)
  <2>1. CASE f[1] = g[1]
    BY <1>1, <1>3, <2>1, VersionsOrdered DEF FileOlder
  <2>2. CASE f[1] # g[1]
    <3>1. CompareSemver(f[1], g[1]) /\ (g[1] = h[1] \/ CompareSemver(g[1], h[1]))
      BY <1>3, <2>2 DEF FileOlder
    <3>2. CompareSemver(f[1], h[1]) /\ f[1] # h[1]
      BY <1>1, <3>1, VersionsOrdered
    <3> QED BY <3>2 DEF FileOlder
  <2> QED BY <2>1, <2>2
<1>4. f = g \/ FileOlder(f, g) \/ FileOlder(g, f)
  BY <1>1, VersionsOrdered DEF FileOlder
<1> QED BY <1>2, <1>3, <1>4

(* Versions of four numbers are compared number by number.                 *)
THEOREM FourNumbersLexicographic ==
  ASSUME NEW a \in Version, NEW b \in Version, Len(a) = 4, Len(b) = 4
  PROVE  CompareSemver(a, b) <=>
           \E i \in 1 .. 4 : a[i] < b[i] /\ \A j \in 1 .. i - 1 : a[j] = b[j]
<1>1. /\ a[1] \in Nat /\ a[2] \in Nat /\ a[3] \in Nat /\ a[4] \in Nat
      /\ b[1] \in Nat /\ b[2] \in Nat /\ b[3] \in Nat /\ b[4] \in Nat
  <2>1. a \in Seq(Nat) /\ b \in Seq(Nat)
    BY DEF Version
  <2>2. 1 \in 1 .. Len(a) /\ 2 \in 1 .. Len(a) /\ 3 \in 1 .. Len(a) /\ 4 \in 1 .. Len(a)
    OBVIOUS
  <2>3. 1 \in 1 .. Len(b) /\ 2 \in 1 .. Len(b) /\ 3 \in 1 .. Len(b) /\ 4 \in 1 .. Len(b)
    OBVIOUS
  <2> QED BY <2>1, <2>2, <2>3, ElementOfSeq
<1>2. CompareSemver(a, b) <=>
        \/ a[1] < b[1]
        \/ a[1] = b[1] /\ a[2] < b[2]
        \/ a[1] = b[1] /\ a[2] = b[2] /\ a[3] < b[3]
        \/ a[1] = b[1] /\ a[2] = b[2] /\ a[3] = b[3] /\ a[4] < b[4]
  BY <1>1 DEF CompareSemver, LessThan, MakeSemver, NoPrerelease
<1>3. 1 .. 4 = {1, 2, 3, 4} /\ 1 .. 0 = {} /\ 1 .. 1 = {1} /\ 1 .. 2 = {1, 2} /\ 1 .. 3 = {1, 2, 3}
  OBVIOUS
<1>4. (\E i \in 1 .. 4 : a[i] < b[i] /\ \A j \in 1 .. i - 1 : a[j] = b[j]) <=>
        \/ a[1] < b[1]
        \/ a[2] < b[2] /\ a[1] = b[1]
        \/ a[3] < b[3] /\ a[1] = b[1] /\ a[2] = b[2]
        \/ a[4] < b[4] /\ a[1] = b[1] /\ a[2] = b[2] /\ a[3] = b[3]
  BY <1>3
<1> QED BY <1>2, <1>4

(* A version of three numbers comes after all of four that begin with it:   *)
(* GetLatestVersion prefers 8.1.307 to 8.1.307.32, whenever they appeared.  *)
THEOREM ThreeNumbersLast ==
  ASSUME NEW a \in Version, NEW b \in Version, Len(a) = 4, Len(b) = 3,
         a[1] = b[1], a[2] = b[2], a[3] = b[3]
  PROVE  CompareSemver(a, b)
  BY DEF CompareSemver, LessThan, MakeSemver, NoPrerelease, Version

-----------------------------------------------------------------------------
(* Types. *)

Buffers == {NoFile} \cup [of : Chromium \cup V8, whole : BOOLEAN]

GrabTyped ==
  /\ at \in [Grabber -> Places]
  /\ vers \in [Grabber -> SUBSET Chromium]
  /\ last \in [Grabber -> Nat] /\ majorCount \in [Grabber -> Nat] /\ minorCount \in [Grabber -> Nat]
  /\ ver \in [Grabber -> Chromium \cup {<<>>}]
  /\ v8ver \in [Grabber -> V8 \cup {<<>>}]
  /\ chromiumBuf \in [Grabber -> Buffers] /\ v8Buf \in [Grabber -> Buffers]
  /\ wrote \in [Grabber -> SUBSET Names]
  /\ \A g \in Grabber : at[g] # "idle" => g \in DOMAIN cmd

SharedTyped ==
  /\ now \in 0 .. MaxTime
  /\ cmd \in Sessions
  /\ combined \in [Names -> Contents]

(* The steps of grab.go at which it works on the version ver.              *)
Active == {"chromium", "deps", "find", "v8", "open", "write"}

(* What the buffers hold, and what has been written, at each step.          *)
GrabFilled(g) ==
  /\ at[g] \in {"idle", "refs"} => ver[g] = <<>>
  /\ ver[g] = <<>> => wrote[g] = {} /\ minorCount[g] = 0
  /\ ver[g] # <<>> => ver[g] \in vers[g] /\ ver[g][1] >= 67
  /\ at[g] \in Active \cup {"count"} => ver[g] # <<>>
  /\ at[g] \in {"v8", "open", "write"} => Numbered(v8ver[g]) /\ Revision[v8ver[g]] = Pinned[ver[g]]
  /\ at[g] \in {"deps", "find", "v8", "open", "write"} => chromiumBuf[g].of = ver[g]
  /\ at[g] \in {"open", "write"} => v8Buf[g].of = v8ver[g]
  /\ \A f \in wrote[g] : f[1] \in vers[g] /\ f[1][1] >= 67 /\ Numbered(f[2]) /\ Revision[f[2]] = Pinned[f[1]]

(* Versions come newest first, so that no file is written twice.            *)
GrabOrdered(g) ==
  /\ \A f \in wrote[g] : f[1] = ver[g] \/ CompareSemver(ver[g], f[1])
  /\ at[g] \in Active => \A f \in wrote[g] : CompareSemver(ver[g], f[1])
  /\ IsFiniteSet(wrote[g]) /\ minorCount[g] <= Cardinality(wrote[g])

GrabInv == GrabTyped /\ \A g \in Grabber : GrabFilled(g) /\ GrabOrdered(g)

-----------------------------------------------------------------------------
(* A definition file, or a part of it, is of the tag that it was asked for. *)
LEMMA FileType ==
  ASSUME NEW p, NEW dir, NEW tag, NEW file \in DefinitionFiles(p, dir, tag)
  PROVE  /\ file = [of |-> tag, whole |-> file.whole]
         /\ file.of = tag /\ file.whole \in BOOLEAN
<1>1. PICK page \in Handed(p, dir, tag) : file = [of |-> tag, whole |-> page.kind = "full"]
  BY DEF DefinitionFiles
<1>2. file.of = tag /\ file.whole = (page.kind = "full")
  BY <1>1
<1>3. file.whole \in BOOLEAN
  BY <1>2
<1> QED BY <1>1, <1>2, <1>3

LEMMA BufferType ==
  ASSUME NEW p, NEW dir, NEW tag \in Chromium \cup V8, NEW file \in DefinitionFiles(p, dir, tag)
  PROVE  file \in Buffers /\ file.of = tag
<1>1. file = [of |-> tag, whole |-> file.whole] /\ file.of = tag /\ file.whole \in BOOLEAN
  BY FileType
<1> QED BY <1>1 DEF Buffers

(* The combination of two files is named for both, or is less than that.    *)
LEMMA CombinedType ==
  ASSUME NEW a \in Buffers, NEW b \in Buffers, a.of \in Chromium, b.of \in V8
  PROVE  /\ CombineBytes(a, b) \in Contents \ {Absent}
         /\ CombineBytes(a, b).kind = "full" =>
              <<CombineBytes(a, b).chromium, CombineBytes(a, b).v8>> = <<a.of, b.of>>
<1>1. CASE a.whole /\ b.whole
  BY <1>1 DEF CombineBytes, Contents, Absent
<1>2. CASE ~(a.whole /\ b.whole)
  BY <1>2 DEF CombineBytes, Contents, Short, Absent
<1> QED BY <1>1, <1>2

(* A step of grab.go is about one invocation.                               *)
LEMMA GrabFrame ==
  ASSUME GrabTyped, NEW g \in Grabber, GrabRuns(g), NEW h \in Grabber, h # g
  PROVE  /\ at'[h] = at[h] /\ vers'[h] = vers[h] /\ ver'[h] = ver[h] /\ v8ver'[h] = v8ver[h]
         /\ last'[h] = last[h] /\ majorCount'[h] = majorCount[h] /\ minorCount'[h] = minorCount[h]
         /\ chromiumBuf'[h] = chromiumBuf[h] /\ v8Buf'[h] = v8Buf[h] /\ wrote'[h] = wrote[h]
<1> USE DEF GrabTyped, Goto, counters, buffers
<1>1. CASE Start(g) BY <1>1 DEF Start, NewRun
<1>2. CASE FindTags(g) BY <1>2 DEF FindTags
<1>3. CASE Iterate(g) BY <1>3 DEF Iterate
<1>4. CASE GetChromium(g) BY <1>4 DEF GetChromium
<1>5. CASE GetDeps(g) BY <1>5 DEF GetDeps
<1>6. CASE FindTag(g) BY <1>6 DEF FindTag
<1>7. CASE GetV8(g) BY <1>7 DEF GetV8
<1>8. CASE Open(g) BY <1>8 DEF Open
<1>9. CASE Write(g) BY <1>9 DEF Write
<1>10. CASE Count(g) BY <1>10 DEF Count
<1>11. CASE Fail(g) BY <1>11 DEF Fail
<1> QED BY <1>1, <1>2, <1>3, <1>4, <1>5, <1>6, <1>7, <1>8, <1>9, <1>10, <1>11 DEF GrabRuns, GrabStep

LEMMA TagType ==
  ASSUME NEW v \in Chromium
  PROVE  v \in Version /\ v # <<>> /\ v[1] \in Nat
<1>1. v \in Version
  BY SourceConstants DEF SourceConstants
<1> QED BY <1>1 DEF Version, IsVersion

LEMMA MajorsDescend ==
  ASSUME NEW a \in Version, NEW b \in Version, CompareSemver(a, b)
  PROVE  a[1] <= b[1]
<1>1. a[1] \in Nat /\ b[1] \in Nat
  BY DEF Version, IsVersion
<1> QED BY <1>1 DEF CompareSemver, LessThan, MakeSemver

LEMMA GrabInitially == Init => GrabInv
<1> SUFFICES ASSUME Init PROVE GrabInv
  OBVIOUS
<1> USE DEF Init, GrabInit
<1>1. GrabTyped
  BY DEF GrabTyped, Places, Buffers
<1>2. ASSUME NEW g \in Grabber PROVE GrabFilled(g) /\ GrabOrdered(g)
  BY FS_EmptySet DEF GrabFilled, GrabOrdered, Active
<1> QED BY <1>1, <1>2 DEF GrabInv

(* While a version is worked on, its files are tags that exist.             *)
LEMMA GrabAtWork ==
  ASSUME GrabInv, NEW g \in Grabber
  PROVE  /\ at[g] \in Active \cup {"count"} => ver[g] \in Chromium
         /\ at[g] \in {"v8", "open", "write"} => v8ver[g] \in V8
         /\ at[g] = "write" => Out(g) \in Names
  BY DEF GrabInv, GrabTyped, GrabFilled, Numbered, Out, Names, Active

LEMMA GrabTypedStep ==
  ASSUME GrabInv, SharedTyped, NEW g \in Grabber, GrabRuns(g)
  PROVE  GrabTyped'
<1> USE DEF GrabInv, GrabTyped, GrabRuns, Goto, counters, buffers, Places
<1>1. CASE Start(g)
  BY <1>1 DEF Start, NewRun, Buffers
<1>2. CASE FindTags(g)
  <2>1. PICK tags \in Refs(g, "refs/chromium.json", Chromium) :
          vers' = [vers EXCEPT ![g] = {t \in tags : IsVersion(t)}]
    BY <1>2 DEF FindTags
  <2>2. tags \subseteq Chromium
    BY <2>1 DEF Refs, Listed
  <2> QED BY <1>2, <2>1, <2>2 DEF FindTags
<1>3. CASE Iterate(g)
  <2>1. /\ at[g] = "loop"
        /\ \E place \in {"done", "count", "chromium"} : at' = [at EXCEPT ![g] = place]
        /\ \E v \in vers[g] \cup {ver[g]} : ver' = [ver EXCEPT ![g] = v]
        /\ UNCHANGED <<cmd, vers, counters, buffers, wrote>>
    BY <1>3 DEF Iterate, Newest
  <2> QED BY <2>1
<1>4. CASE GetChromium(g)
  <2>1. PICK file \in DefinitionFiles(g, "pdl/chromium", ver[g]) : chromiumBuf' = [chromiumBuf EXCEPT ![g] = file]
    BY <1>4 DEF GetChromium
  <2>2. file \in Buffers
    BY <1>4, FileType, GrabAtWork DEF GetChromium, Active, Buffers
  <2> QED BY <1>4, <2>1, <2>2 DEF GetChromium
<1>5. CASE GetDeps(g)
  BY <1>5 DEF GetDeps
<1>6. CASE FindTag(g)
  <2>1. /\ at[g] = "find"
        /\ \E place \in {"untagged", "v8", "loop"} : at' = [at EXCEPT ![g] = place]
        /\ \E w \in V8 \cup {v8ver[g]} : v8ver' = [v8ver EXCEPT ![g] = w]
        /\ UNCHANGED <<cmd, vers, counters, ver, chromiumBuf, v8Buf, wrote>>
    BY <1>6 DEF FindTag, TagsOf, Refs, Listed
  <2> QED BY <2>1
<1>7. CASE GetV8(g)
  <2>1. PICK file \in DefinitionFiles(g, "pdl/v8", v8ver[g]) : v8Buf' = [v8Buf EXCEPT ![g] = file]
    BY <1>7 DEF GetV8
  <2>2. file \in Buffers
    BY <1>7, FileType, GrabAtWork DEF GetV8, Buffers
  <2> QED BY <1>7, <2>1, <2>2 DEF GetV8
<1>8. CASE Open(g)
  BY <1>8 DEF Open
<1>9. CASE Write(g)
  BY <1>9, GrabAtWork DEF Write
<1>10. CASE Count(g)
  <2>1. ver[g] \in Chromium /\ ver[g][1] \in Nat
    BY <1>10, GrabAtWork, TagType DEF Count
  <2> QED BY <1>10, <2>1 DEF Count
<1>11. CASE Fail(g)
  BY <1>11 DEF Fail, Over
<1> QED BY <1>1, <1>2, <1>3, <1>4, <1>5, <1>6, <1>7, <1>8, <1>9, <1>10, <1>11 DEF GrabStep

(* How a version is passed on to: it is the first there is, or older.       *)
LEMMA IterateForward ==
  ASSUME GrabInv, NEW g \in Grabber, Iterate(g)
  PROVE  /\ at[g] = "loop" /\ UNCHANGED <<combined, vers, counters, buffers, wrote>>
         /\ \/ at' = [at EXCEPT ![g] = "done"] /\ UNCHANGED ver
            \/ /\ majorCount[g] < cmd[g].majors
               /\ \/ Skip(g) /\ at' = [at EXCEPT ![g] = "count"]
                  \/ ~Skip(g) /\ at' = [at EXCEPT ![g] = "chromium"]
               /\ \E v \in vers[g] :
                    /\ v[1] >= 67 /\ ver' = [ver EXCEPT ![g] = v]
                    /\ ver[g] = <<>> \/ CompareSemver(v, ver[g])
                    /\ \A u \in vers[g] : u = v \/ CompareSemver(u, v)
                                          \/ (ver[g] # <<>> /\ ~CompareSemver(u, ver[g]))
  BY DEF Iterate, Newest, Goto

LEMMA GrabFilledStep ==
  ASSUME GrabInv, NEW g \in Grabber, GrabRuns(g)
  PROVE  GrabFilled(g)'
<1> USE DEF GrabInv, GrabTyped, GrabFilled, Goto, counters, buffers, Active
<1>1. CASE Start(g)
  BY <1>1 DEF Start, NewRun
<1>2. CASE FindTags(g)
  BY <1>2 DEF FindTags
<1>3. CASE Iterate(g)
  <2>1. /\ at[g] = "loop" /\ UNCHANGED <<vers, counters, buffers, wrote>>
        /\ \/ at'[g] = "done" /\ ver'[g] = ver[g]
           \/ at'[g] \in {"count", "chromium"} /\ ver'[g] \in vers[g] /\ ver'[g][1] >= 67
    BY <1>3, IterateForward
  <2>2. \A v \in vers[g] : v # <<>>
    BY TagType
  <2> QED BY <2>1, <2>2
<1>4. CASE GetChromium(g)
  BY <1>4, FileType DEF GetChromium
<1>5. CASE GetDeps(g)
  BY <1>5 DEF GetDeps
<1>6. CASE FindTag(g)
  BY <1>6 DEF FindTag, TagsOf, Refs, Listed, Numbered
<1>7. CASE GetV8(g)
  BY <1>7, FileType DEF GetV8
<1>8. CASE Open(g)
  BY <1>8 DEF Open
<1>9. CASE Write(g)
  <2>1. /\ at[g] = "write" /\ at'[g] = "count"
        /\ wrote'[g] = wrote[g] \cup {<<ver[g], v8ver[g]>>}
        /\ UNCHANGED <<vers, ver, v8ver, chromiumBuf, v8Buf>>
    BY <1>9 DEF Write, Out
  <2>2. ver[g] \in vers[g] /\ ver[g][1] >= 67 /\ Numbered(v8ver[g]) /\ Revision[v8ver[g]] = Pinned[ver[g]] /\ ver[g] # <<>>
    BY <2>1
  <2>3. \A f \in wrote'[g] : f[1] \in vers[g] /\ f[1][1] >= 67 /\ Numbered(f[2]) /\ Revision[f[2]] = Pinned[f[1]]
    BY <2>1, <2>2
  <2> QED BY <2>1, <2>2, <2>3
<1>10. CASE Count(g)
  BY <1>10 DEF Count
<1>11. CASE Fail(g)
  BY <1>11 DEF Fail, Over
<1> QED BY <1>1, <1>2, <1>3, <1>4, <1>5, <1>6, <1>7, <1>8, <1>9, <1>10, <1>11 DEF GrabRuns, GrabStep

LEMMA OneMore ==
  ASSUME NEW S, NEW x, IsFiniteSet(S), x \notin S
  PROVE  IsFiniteSet(S \cup {x}) /\ Cardinality(S \cup {x}) = Cardinality(S) + 1
  BY FS_AddElement

LEMMA GrabOrderedStep ==
  ASSUME GrabInv, NEW g \in Grabber, GrabRuns(g)
  PROVE  GrabOrdered(g)'
<1> USE DEF GrabInv, GrabTyped, GrabOrdered, Goto, counters, buffers, Active
<1>1. CASE Start(g)
  <2>1. at'[g] = "refs" /\ wrote'[g] = {} /\ minorCount'[g] = 0
    BY <1>1 DEF Start, NewRun
  <2> QED BY <2>1, FS_EmptySet
<1>2. CASE FindTags(g)
  BY <1>2 DEF FindTags, GrabFilled
<1>3. CASE Iterate(g)
  <2>1. /\ at[g] = "loop" /\ UNCHANGED <<vers, counters, buffers, wrote>>
    BY <1>3, IterateForward
  <2>2. CASE at' = [at EXCEPT ![g] = "done"] /\ UNCHANGED ver
    BY <2>1, <2>2
  <2>3. CASE ~(at' = [at EXCEPT ![g] = "done"] /\ UNCHANGED ver)
    <3>1. PICK v \in vers[g] : ver'[g] = v /\ (ver[g] = <<>> \/ CompareSemver(v, ver[g]))
      BY <1>3, <2>3, IterateForward
    <3>2. \A f \in wrote[g] : CompareSemver(v, f[1])
      <4>1. SUFFICES ASSUME NEW f \in wrote[g] PROVE CompareSemver(v, f[1])
        OBVIOUS
      <4>2. ver[g] # <<>> /\ CompareSemver(v, ver[g])
        BY <3>1, <4>1 DEF GrabFilled
      <4>3. v \in Chromium /\ ver[g] \in Chromium /\ f[1] \in Chromium
        BY <4>2 DEF Names
      <4>4. v \in Version /\ ver[g] \in Version /\ f[1] \in Version
        BY <4>3, TagType
      <4> QED BY <4>2, <4>4, VersionsOrdered
    <3> QED BY <2>1, <3>1, <3>2
  <2> QED BY <2>2, <2>3
<1>4. CASE GetChromium(g)
  BY <1>4 DEF GetChromium
<1>5. CASE GetDeps(g)
  BY <1>5 DEF GetDeps
<1>6. CASE FindTag(g)
  BY <1>6 DEF FindTag
<1>7. CASE GetV8(g)
  BY <1>7 DEF GetV8
<1>8. CASE Open(g)
  BY <1>8 DEF Open
<1>9. CASE Write(g)
  <2>1. /\ at[g] = "write" /\ at'[g] = "count" /\ ver' = ver
        /\ wrote'[g] = wrote[g] \cup {Out(g)} /\ minorCount'[g] = minorCount[g] + 1
    BY <1>9 DEF Write
  <2>2. ver[g] \in Version /\ Out(g)[1] = ver[g]
    BY <2>1, GrabAtWork, TagType DEF Out
  <2>3. Out(g) \notin wrote[g]
    BY <2>1, <2>2, VersionsOrdered
  <2>4. IsFiniteSet(wrote'[g]) /\ Cardinality(wrote'[g]) = Cardinality(wrote[g]) + 1
    <3>1. IsFiniteSet(wrote[g])
      BY DEF GrabInv, GrabOrdered
    <3>2. /\ IsFiniteSet(wrote[g] \cup {Out(g)})
          /\ Cardinality(wrote[g] \cup {Out(g)}) = Cardinality(wrote[g]) + 1
      BY <2>3, <3>1, OneMore
    <3> QED BY <2>1, <3>2
  <2>5. Cardinality(wrote[g]) \in Nat
    BY FS_CardinalityType
  <2>6. \A f \in wrote'[g] : f[1] = ver'[g] \/ CompareSemver(ver'[g], f[1])
    BY <2>1, <2>2
  <2> QED BY <2>1, <2>4, <2>5, <2>6
<1>10. CASE Count(g)
  <2>1. /\ at'[g] = "loop" /\ UNCHANGED <<vers, ver, buffers, wrote>>
        /\ minorCount'[g] \in {0, minorCount[g]}
    BY <1>10 DEF Count
  <2>2. Cardinality(wrote[g]) \in Nat
    BY FS_CardinalityType
  <2> QED BY <2>1, <2>2
<1>11. CASE Fail(g)
  BY <1>11 DEF Fail
<1> QED BY <1>1, <1>2, <1>3, <1>4, <1>5, <1>6, <1>7, <1>8, <1>9, <1>10, <1>11 DEF GrabRuns, GrabStep

LEMMA GrabInvStep ==
  ASSUME GrabInv, SharedTyped, [Next]_vars
  PROVE  GrabInv'
<1>1. ASSUME NEW g \in Grabber, GrabRuns(g) PROVE GrabInv'
  <2>1. GrabTyped'
    BY <1>1, GrabTypedStep
  <2>2. ASSUME NEW h \in Grabber PROVE GrabFilled(h)' /\ GrabOrdered(h)'
    <3>1. CASE h = g
      BY <1>1, <3>1, GrabFilledStep, GrabOrderedStep
    <3>2. CASE h # g
      <4>1. GrabFilled(h) /\ GrabOrdered(h) /\ GrabTyped
        BY DEF GrabInv
      <4>2. /\ at'[h] = at[h] /\ vers'[h] = vers[h] /\ ver'[h] = ver[h] /\ v8ver'[h] = v8ver[h]
            /\ minorCount'[h] = minorCount[h] /\ wrote'[h] = wrote[h]
            /\ chromiumBuf'[h] = chromiumBuf[h] /\ v8Buf'[h] = v8Buf[h]
        BY <1>1, <3>2, <4>1, GrabFrame
      <4> QED BY <4>1, <4>2 DEF GrabFilled, GrabOrdered
    <3> QED BY <3>1, <3>2
  <2> QED BY <2>1, <2>2 DEF GrabInv
<1>2. CASE UNCHANGED <<cmd, grabVars>>
  BY <1>2 DEF GrabInv, GrabTyped, GrabFilled, GrabOrdered, grabVars, counters, buffers
<1> QED BY <1>1, <1>2 DEF Next, MainRuns, TimePasses, Tick, vars

-----------------------------------------------------------------------------
(* The directory pdl/combined. *)

CombinedNamed ==
  \A f \in Names : combined[f].kind = "full" => <<combined[f].chromium, combined[f].v8>> = f

CombinedGrows == \A f \in Names : combined[f] # Absent => combined'[f] # Absent

LEMMA OpenNamed ==
  ASSUME SharedTyped, CombinedNamed, NEW f \in Names, OpenFile(f)
  PROVE  combined' \in [Names -> Contents] /\ CombinedNamed' /\ CombinedGrows
  BY DEF SharedTyped, CombinedNamed, CombinedGrows, OpenFile, Contents, Short, Absent

LEMMA WriteNamed ==
  ASSUME SharedTyped, CombinedNamed, NEW f \in Names, NEW c \in Contents \ {Absent}, WriteFile(f, c),
         c.kind = "full" => <<c.chromium, c.v8>> = f
  PROVE  combined' \in [Names -> Contents] /\ CombinedNamed' /\ CombinedGrows /\ combined'[f] # Absent
  BY DEF SharedTyped, CombinedNamed, CombinedGrows, WriteFile

LEMMA GrabCombinedStep ==
  ASSUME GrabInv, SharedTyped, CombinedNamed, NEW g \in Grabber, GrabRuns(g)
  PROVE  SharedTyped' /\ CombinedNamed' /\ CombinedGrows
<1>0. UNCHANGED <<now, cmd>>
  BY DEF GrabRuns
<1>1. CASE UNCHANGED combined
  BY <1>0, <1>1 DEF SharedTyped, CombinedNamed, CombinedGrows
<1>2. CASE Open(g)
  <2>1. Out(g) \in Names /\ OpenFile(Out(g))
    BY <1>2 DEF Open, GrabInv, GrabTyped, GrabFilled, Numbered, Out, Names, Active
  <2> QED BY <1>0, <2>1, OpenNamed DEF SharedTyped
<1>3. CASE Write(g)
  <2>1. /\ Out(g) \in Names /\ WriteFile(Out(g), CombineBytes(chromiumBuf[g], v8Buf[g]))
        /\ chromiumBuf[g].of = ver[g] /\ v8Buf[g].of = v8ver[g]
        /\ chromiumBuf[g] \in Buffers /\ v8Buf[g] \in Buffers
        /\ ver[g] \in Chromium /\ v8ver[g] \in V8
    BY <1>3, GrabAtWork DEF Write, GrabInv, GrabTyped, GrabFilled, Active
  <2>2. /\ CombineBytes(chromiumBuf[g], v8Buf[g]) \in Contents \ {Absent}
        /\ CombineBytes(chromiumBuf[g], v8Buf[g]).kind = "full" =>
              <<CombineBytes(chromiumBuf[g], v8Buf[g]).chromium, CombineBytes(chromiumBuf[g], v8Buf[g]).v8>> = Out(g)
    BY <2>1, CombinedType DEF Out
  <2> QED BY <1>0, <2>1, <2>2, WriteNamed DEF SharedTyped
<1> QED BY <1>1, <1>2, <1>3
     DEF GrabRuns, GrabStep, Start, FindTags, Iterate, GetChromium, GetDeps, FindTag, GetV8, Count, Fail

-----------------------------------------------------------------------------
(* main.go *)

Choices == (Chromium \cup {<<>>}) \X (V8 \cup {<<>>})

ProtocolTyped ==
  /\ pc \in [Runner -> Stages]
  /\ chosen \in [Runner -> Choices]
  /\ loaded \in [Runner -> Buffers]
  /\ protoDefs \in [Runner -> Contents]
  /\ older \in [Runner -> SUBSET Names]
  /\ shown \in [Runner -> Names \cup {<<>>}]
  /\ \A r \in Runner : pc[r] # "idle" => r \in DOMAIN cmd

(* What has been chosen at each stage, and what has been loaded.            *)
ProtocolFilled(r) ==
  /\ pc[r] \in {"v8", "find"} => chosen[r][1] \in Chromium
  /\ pc[r] \in {"load", "load v8", "open", "write", "list", "compare"} => chosen[r] \in Names
  /\ pc[r] \in {"load v8", "open", "write", "list", "compare"} => cmd[r].pdl = <<>>
  /\ pc[r] = "load v8" => loaded[r].of = chosen[r][1]
  /\ pc[r] \in {"idle", "chromium", "v8", "find", "load", "load v8"} => protoDefs[r] = Absent
  /\ pc[r] \in {"open", "write"} => protoDefs[r] # Absent
  /\ protoDefs[r].kind = "full" =>
       <<protoDefs[r].chromium, protoDefs[r].v8>> = IF cmd[r].pdl # <<>> THEN cmd[r].pdl ELSE chosen[r]

(* The file that has been written is there when the others are listed.      *)
ProtocolCompares(r) ==
  /\ pc[r] = "list" => combined[chosen[r]] # Absent
  /\ pc[r] = "compare" =>
       \A f \in older[r] : Masked(f) /\ (Masked(chosen[r]) => FileOlder(f, chosen[r]))
  /\ pc[r] \in Stages \ {"generate", "failed", "untagged"} => shown[r] = <<>>
  /\ shown[r] # <<>> => Masked(shown[r]) /\ (Masked(chosen[r]) => FileOlder(shown[r], chosen[r]))

ProtocolInv == ProtocolTyped /\ \A r \in Runner : ProtocolFilled(r) /\ ProtocolCompares(r)

LEMMA ProtocolInitially == Init => SharedTyped /\ CombinedNamed /\ ProtocolInv
<1> SUFFICES ASSUME Init PROVE SharedTyped /\ CombinedNamed /\ ProtocolInv
  OBVIOUS
<1> USE DEF Init, SourceInit, ProtocolInit
<1>1. SharedTyped
  BY SourceConstants DEF SharedTyped, Contents, SourceConstants
<1>2. CombinedNamed
  BY DEF CombinedNamed, Absent
<1>3. ProtocolTyped
  BY DEF ProtocolTyped, Stages, Choices, Buffers, Contents
<1>4. ASSUME NEW r \in Runner PROVE ProtocolFilled(r) /\ ProtocolCompares(r)
  BY DEF ProtocolFilled, ProtocolCompares, Absent, Stages
<1> QED BY <1>1, <1>2, <1>3, <1>4 DEF ProtocolInv

(* A choice replaces one of the two versions.                               *)
LEMMA Chosen ==
  ASSUME chosen \in [Runner -> Choices], NEW r \in Runner, NEW v
  PROVE  /\ chosen' = [chosen EXCEPT ![r][1] = v] => chosen' = [chosen EXCEPT ![r] = <<v, chosen[r][2]>>]
         /\ chosen' = [chosen EXCEPT ![r][2] = v] => chosen' = [chosen EXCEPT ![r] = <<chosen[r][1], v>>]
<1>1. chosen[r] \in Choices
  OBVIOUS
<1>2. /\ [chosen[r] EXCEPT ![1] = v] = <<v, chosen[r][2]>>
      /\ [chosen[r] EXCEPT ![2] = v] = <<chosen[r][1], v>>
  BY <1>1 DEF Choices
<1> QED BY <1>2

LEMMA LatestType ==
  ASSUME NEW p, NEW dir, NEW tags, NEW v \in LatestVersions(p, dir, tags)
  PROVE  v \in tags
<1>1. PICK page \in Handed(p, dir, <<>>) :
        LET vs == {t \in Listed(tags, page) : IsVersion(t)}
        IN  v \in CASE page.kind = "full" -> Newest(vs) [] page.kind = "torn" -> vs [] OTHER -> {}
  BY DEF LatestVersions
<1> QED BY <1>1 DEF Newest, Listed

(* What each way to choose a version leaves behind.                         *)
LEMMA ChromiumChosen ==
  ASSUME ProtocolTyped, NEW r \in Runner, ChooseChromium(r)
  PROVE  \E v \in Chromium : chosen' = [chosen EXCEPT ![r] = <<v, chosen[r][2]>>]
<1>1. chosen \in [Runner -> Choices] /\ chosen[r] \in Choices
  BY DEF ProtocolTyped
<1>2. CASE chosen[r][1] # <<>>
  <2>1. chosen' = chosen /\ chosen[r][1] \in Chromium
    BY <1>1, <1>2 DEF ChooseChromium, Choices
  <2>2. chosen[r] = <<chosen[r][1], chosen[r][2]>>
    BY <1>1 DEF Choices
  <2> QED BY <1>1, <2>1, <2>2
<1>3. CASE chosen[r][1] = <<>>
  <2>1. PICK v \in LatestVersions(r, "html/chromium.html", Chromium) : chosen' = [chosen EXCEPT ![r][1] = v]
    BY <1>3 DEF ChooseChromium
  <2>2. v \in Chromium
    BY LatestType
  <2>3. chosen' = [chosen EXCEPT ![r] = <<v, chosen[r][2]>>]
    BY <1>1, <2>1, Chosen
  <2> QED BY <2>2, <2>3
<1> QED BY <1>2, <1>3

LEMMA V8Chosen ==
  ASSUME ProtocolTyped, NEW r \in Runner, ChooseV8(r)
  PROVE  \/ pc' = [pc EXCEPT ![r] = "load"] /\ \E w \in V8 : chosen' = [chosen EXCEPT ![r] = <<chosen[r][1], w>>]
         \/ pc' = [pc EXCEPT ![r] = "find"] /\ chosen' = chosen
<1>1. chosen \in [Runner -> Choices] /\ chosen[r] \in Choices
  BY DEF ProtocolTyped
<1>2. CASE chosen[r][2] # <<>> /\ Enter(r, "load") /\ chosen' = chosen
  <2>1. chosen[r][2] \in V8 /\ chosen[r] = <<chosen[r][1], chosen[r][2]>>
    BY <1>1, <1>2 DEF Choices
  <2> QED BY <1>1, <1>2, <2>1 DEF Enter
<1>3. CASE /\ \E w \in LatestVersions(r, "html/v8.html", V8) : chosen' = [chosen EXCEPT ![r][2] = w]
           /\ Enter(r, "load")
  <2>1. PICK w \in LatestVersions(r, "html/v8.html", V8) : chosen' = [chosen EXCEPT ![r][2] = w]
    BY <1>3
  <2>2. w \in V8
    BY LatestType
  <2>3. chosen' = [chosen EXCEPT ![r] = <<chosen[r][1], w>>]
    BY <1>1, <2>1, Chosen
  <2> QED BY <1>3, <2>2, <2>3 DEF Enter
<1>4. CASE Enter(r, "find") /\ chosen' = chosen
  BY <1>4 DEF Enter
<1> QED BY <1>2, <1>3, <1>4 DEF ChooseV8

LEMMA TagChosen ==
  ASSUME ProtocolTyped, NEW r \in Runner, ChooseTag(r)
  PROVE  \/ pc' = [pc EXCEPT ![r] = "load"] /\ \E w \in V8 : chosen' = [chosen EXCEPT ![r] = <<chosen[r][1], w>>]
         \/ pc' = [pc EXCEPT ![r] = "untagged"] /\ chosen' = chosen
<1>1. chosen \in [Runner -> Choices] /\ chosen[r] \in Choices
  BY DEF ProtocolTyped
<1>2. PICK tags \in Refs(r, "refs/v8.json", V8) :
        IF TagsOf(chosen[r][1], tags) = {}
          THEN Enter(r, "untagged") /\ UNCHANGED chosen
          ELSE /\ \E w \in TagsOf(chosen[r][1], tags) : chosen' = [chosen EXCEPT ![r][2] = w]
               /\ Enter(r, "load")
  BY DEF ChooseTag
<1>3. CASE TagsOf(chosen[r][1], tags) = {}
  BY <1>2, <1>3 DEF Enter
<1>4. CASE TagsOf(chosen[r][1], tags) # {}
  <2>1. PICK w \in TagsOf(chosen[r][1], tags) : chosen' = [chosen EXCEPT ![r][2] = w]
    BY <1>2, <1>4
  <2>2. w \in V8
    BY DEF TagsOf, Refs, Listed
  <2>3. chosen' = [chosen EXCEPT ![r] = <<chosen[r][1], w>>]
    BY <1>1, <2>1, Chosen
  <2> QED BY <1>2, <1>4, <2>2, <2>3 DEF Enter
<1> QED BY <1>3, <1>4

LEMMA CommandLine ==
  ASSUME SharedTyped, NEW r \in Runner, r \in DOMAIN cmd
  PROVE  /\ cmd[r].chromium \in Chromium \cup {<<>>} /\ cmd[r].v8 \in V8 \cup {<<>>}
         /\ cmd[r].pdl \in Names \cup {<<>>}
<1>1. cmd \in Sessions /\ r \in Runner \cap DOMAIN cmd
  BY DEF SharedTyped
<1>2. cmd[r] \in [chromium : Chromium \cup {<<>>}, v8 : V8 \cup {<<>>}, latest : BOOLEAN, pdl : Names \cup {<<>>}]
  BY <1>1, ProtocolConstants DEF ProtocolConstants
<1> QED BY <1>2

LEMMA CompareRound ==
  ASSUME NEW r \in Runner, Compare(r)
  PROVE  \/ pc' = [pc EXCEPT ![r] = "generate"] /\ UNCHANGED <<older, shown>>
         \/ \E f \in older[r] :
              \/ pc' = [pc EXCEPT ![r] = "generate"] /\ shown' = [shown EXCEPT ![r] = f] /\ UNCHANGED older
              \/ older' = [older EXCEPT ![r] = older[r] \ {f}] /\ UNCHANGED <<pc, shown>>
<1>1. CASE older[r] = {}
  BY <1>1 DEF Compare, Enter
<1>2. CASE older[r] # {}
  <2>1. PICK f \in older[r] : \E diff \in HasDiff(f, chosen[r]) :
          IF diff THEN /\ shown' = [shown EXCEPT ![r] = f]
                       /\ Enter(r, "generate") /\ UNCHANGED older
                  ELSE older' = [older EXCEPT ![r] = @ \ {f}] /\ UNCHANGED <<pc, shown>>
    BY <1>2 DEF Compare
  <2> QED BY <2>1 DEF Enter
<1> QED BY <1>1, <1>2

LEMMA ProtocolTypedStep ==
  ASSUME SharedTyped, ProtocolInv, NEW r \in Runner, MainRuns(r)
  PROVE  ProtocolTyped'
<1> USE DEF ProtocolInv, ProtocolTyped, MainRuns, Enter, Stages
<1>1. CASE Begin(r)
  <2>1. <<cmd[r].chromium, cmd[r].v8>> \in Choices
    BY <1>1, CommandLine DEF Begin, Choices
  <2> QED BY <1>1, <2>1 DEF Begin, Buffers, Contents
<1>2. CASE ChooseChromium(r)
  <2>1. PICK v \in Chromium : chosen' = [chosen EXCEPT ![r] = <<v, chosen[r][2]>>]
    BY <1>2, ChromiumChosen
  <2>2. <<v, chosen[r][2]>> \in Choices
    BY DEF Choices
  <2> QED BY <1>2, <2>1, <2>2 DEF ChooseChromium
<1>3. CASE ChooseV8(r)
  <2>1. \A w \in V8 : <<chosen[r][1], w>> \in Choices
    BY DEF Choices
  <2>2. pc[r] = "v8" /\ UNCHANGED <<cmd, loaded, protoDefs, older, shown>>
    BY <1>3 DEF ChooseV8
  <2> QED BY <1>3, <2>1, <2>2, V8Chosen
<1>4. CASE ChooseTag(r)
  <2>1. \A w \in V8 : <<chosen[r][1], w>> \in Choices
    BY DEF Choices
  <2>2. pc[r] = "find" /\ UNCHANGED <<cmd, loaded, protoDefs, older, shown>>
    BY <1>4 DEF ChooseTag
  <2>3. CASE chosen' = chosen /\ pc' = [pc EXCEPT ![r] = "untagged"]
    BY <2>2, <2>3
  <2>4. CASE pc' = [pc EXCEPT ![r] = "load"] /\ \E w \in V8 : chosen' = [chosen EXCEPT ![r] = <<chosen[r][1], w>>]
    BY <2>1, <2>2, <2>4
  <2> QED BY <1>4, <2>3, <2>4, TagChosen
<1>5. CASE LoadPdl(r)
  <2>1. combined[cmd[r].pdl] \in Contents
    BY <1>5, CommandLine DEF LoadPdl, SharedTyped
  <2> QED BY <1>5, <2>1 DEF LoadPdl
<1>6. CASE Load(r)
  <2>1. PICK file \in DefinitionFiles(r, "pdl/chromium", chosen[r][1]) : loaded' = [loaded EXCEPT ![r] = file]
    BY <1>6 DEF Load
  <2>2. chosen[r][1] \in Chromium
    BY <1>6 DEF ProtocolFilled, Load, Names
  <2>3. file \in Buffers
    <3>1. chosen[r][1] \in Chromium \cup V8
      BY <2>2
    <3> HIDE DEF ProtocolInv, ProtocolTyped, MainRuns, Enter, Stages
    <3> QED BY <3>1, BufferType
  <2> QED BY <1>6, <2>1, <2>3 DEF Load
<1>7. CASE LoadV8(r)
  <2>1. PICK file \in DefinitionFiles(r, "pdl/v8", chosen[r][2]) :
          protoDefs' = [protoDefs EXCEPT ![r] = CombineBytes(loaded[r], file)]
    BY <1>7 DEF LoadV8
  <2>2. /\ chosen[r][1] \in Chromium /\ chosen[r][2] \in V8
        /\ loaded[r].of = chosen[r][1] /\ loaded[r] \in Buffers
    BY <1>7 DEF ProtocolFilled, LoadV8, Names
  <2>3. file \in Buffers /\ file.of \in V8 /\ loaded[r].of \in Chromium
    <3>1. chosen[r][2] \in Chromium \cup V8
      BY <2>2
    <3> HIDE DEF ProtocolInv, ProtocolTyped, MainRuns, Enter, Stages
    <3>2. file \in Buffers /\ file.of = chosen[r][2]
      BY <3>1, BufferType
    <3> QED BY <2>2, <3>2
  <2>4. CombineBytes(loaded[r], file) \in Contents
    BY <2>2, <2>3, CombinedType
  <2> QED BY <1>7, <2>1, <2>4 DEF LoadV8
<1>8. CASE OpenProtoFile(r)
  BY <1>8 DEF OpenProtoFile
<1>9. CASE WriteProtoFile(r)
  BY <1>9 DEF WriteProtoFile
<1>10. CASE List(r)
  <2>1. Candidates(chosen[r]) \subseteq Names
    BY DEF Candidates
  <2> QED BY <1>10, <2>1 DEF List
<1>11. CASE Compare(r)
  <2>1. pc[r] = "compare" /\ UNCHANGED <<cmd, chosen, loaded, protoDefs>>
    BY <1>11 DEF Compare
  <2>2. \/ pc' = [pc EXCEPT ![r] = "generate"] /\ UNCHANGED <<older, shown>>
        \/ \E f \in older[r] :
             \/ pc' = [pc EXCEPT ![r] = "generate"] /\ shown' = [shown EXCEPT ![r] = f] /\ UNCHANGED older
             \/ older' = [older EXCEPT ![r] = older[r] \ {f}] /\ UNCHANGED <<pc, shown>>
    BY <1>11, CompareRound
  <2> QED BY <2>1, <2>2
<1>12. CASE Abort(r)
  BY <1>12 DEF Abort, Idle
<1> QED BY <1>1, <1>2, <1>3, <1>4, <1>5, <1>6, <1>7, <1>8, <1>9, <1>10, <1>11, <1>12 DEF ProtocolStep

(* A step of main.go is about one invocation.                               *)
LEMMA MainFrame ==
  ASSUME ProtocolTyped, NEW r \in Runner, MainRuns(r), NEW h \in Runner, h # r
  PROVE  /\ pc'[h] = pc[h] /\ chosen'[h] = chosen[h] /\ loaded'[h] = loaded[h]
         /\ protoDefs'[h] = protoDefs[h] /\ older'[h] = older[h] /\ shown'[h] = shown[h]
<1> USE DEF ProtocolTyped, Enter
<1>1. CASE Begin(r) BY <1>1 DEF Begin
<1>2. CASE ChooseChromium(r)
  <2>1. \E v \in Chromium : chosen' = [chosen EXCEPT ![r] = <<v, chosen[r][2]>>]
    BY <1>2, ChromiumChosen
  <2> QED BY <1>2, <2>1 DEF ChooseChromium
<1>3. CASE ChooseV8(r)
  <2>1. UNCHANGED <<loaded, protoDefs, older, shown>>
    BY <1>3 DEF ChooseV8
  <2> QED BY <1>3, <2>1, V8Chosen
<1>4. CASE ChooseTag(r)
  <2>1. UNCHANGED <<loaded, protoDefs, older, shown>>
    BY <1>4 DEF ChooseTag
  <2> QED BY <1>4, <2>1, TagChosen
<1>5. CASE LoadPdl(r) BY <1>5 DEF LoadPdl
<1>6. CASE Load(r) BY <1>6 DEF Load
<1>7. CASE LoadV8(r) BY <1>7 DEF LoadV8
<1>8. CASE OpenProtoFile(r) BY <1>8 DEF OpenProtoFile
<1>9. CASE WriteProtoFile(r) BY <1>9 DEF WriteProtoFile
<1>10. CASE List(r) BY <1>10 DEF List
<1>11. CASE Compare(r)
  <2>1. UNCHANGED <<chosen, loaded, protoDefs>>
    BY <1>11 DEF Compare
  <2> QED BY <1>11, <2>1, CompareRound
<1>12. CASE Abort(r) BY <1>12 DEF Abort
<1> QED BY <1>1, <1>2, <1>3, <1>4, <1>5, <1>6, <1>7, <1>8, <1>9, <1>10, <1>11, <1>12 DEF MainRuns, ProtocolStep

(* What main.go does to the directory, and that its own file is there.      *)
LEMMA MainCombinedStep ==
  ASSUME SharedTyped, CombinedNamed, ProtocolInv, NEW r \in Runner, MainRuns(r)
  PROVE  /\ SharedTyped' /\ CombinedNamed' /\ CombinedGrows
         /\ WriteProtoFile(r) => combined'[chosen[r]] # Absent
<1>0. UNCHANGED <<now, cmd>> /\ ProtocolFilled(r) /\ ProtocolTyped
  BY DEF MainRuns, ProtocolInv
<1>1. CASE UNCHANGED combined /\ ~WriteProtoFile(r)
  BY <1>0, <1>1 DEF SharedTyped, CombinedNamed, CombinedGrows
<1>2. CASE OpenProtoFile(r)
  <2>1. chosen[r] \in Names /\ OpenFile(chosen[r]) /\ ~WriteProtoFile(r)
    BY <1>0, <1>2 DEF OpenProtoFile, WriteProtoFile, ProtocolFilled
  <2> QED BY <1>0, <2>1, OpenNamed DEF SharedTyped
<1>3. CASE WriteProtoFile(r)
  <2>1. /\ chosen[r] \in Names /\ WriteFile(chosen[r], protoDefs[r]) /\ cmd[r].pdl = <<>>
        /\ protoDefs[r] \in Contents \ {Absent}
    BY <1>0, <1>3 DEF WriteProtoFile, ProtocolFilled, ProtocolTyped
  <2>2. protoDefs[r].kind = "full" => <<protoDefs[r].chromium, protoDefs[r].v8>> = chosen[r]
    BY <1>0, <2>1 DEF ProtocolFilled
  <2> QED BY <1>0, <2>1, <2>2, WriteNamed DEF SharedTyped
<1>4. UNCHANGED combined \/ OpenProtoFile(r) \/ WriteProtoFile(r)
  BY DEF MainRuns, ProtocolStep, Begin, ChooseChromium, ChooseV8, ChooseTag, LoadPdl, Load, LoadV8, List, Compare,
         Abort
<1> QED BY <1>1, <1>2, <1>3, <1>4

LEMMA ProtocolFilledStep ==
  ASSUME SharedTyped, CombinedNamed, ProtocolInv, NEW r \in Runner, MainRuns(r)
  PROVE  ProtocolFilled(r)'
<1>0. ProtocolFilled(r) /\ ProtocolTyped /\ cmd' = cmd
  BY DEF ProtocolInv, MainRuns
<1> USE <1>0 DEF ProtocolTyped, ProtocolFilled, Enter
<1>1. CASE Begin(r)
  BY <1>1 DEF Begin, Absent
<1>2. CASE ChooseChromium(r)
  <2>1. PICK v \in Chromium : chosen' = [chosen EXCEPT ![r] = <<v, chosen[r][2]>>]
    BY <1>2, ChromiumChosen
  <2>2. chosen'[r][1] \in Chromium
    BY <2>1
  <2>3. pc'[r] = "v8" /\ protoDefs'[r] = Absent
    BY <1>2 DEF ChooseChromium
  <2>4. protoDefs'[r].kind # "full"
    <3> HIDE <1>0 DEF ProtocolTyped, ProtocolFilled, Enter
    <3>1. Absent.kind = "none"
      BY DEF Absent
    <3> QED BY <2>3, <3>1
  <2> QED BY <2>2, <2>3, <2>4
<1>3. CASE ChooseV8(r)
  <2>1. pc[r] = "v8" /\ UNCHANGED <<loaded, protoDefs>> /\ protoDefs[r] = Absent /\ chosen[r][1] \in Chromium
    BY <1>3 DEF ChooseV8
  <2>2. CASE pc' = [pc EXCEPT ![r] = "load"] /\ \E w \in V8 : chosen' = [chosen EXCEPT ![r] = <<chosen[r][1], w>>]
    <3>1. chosen'[r] \in Names
      BY <2>1, <2>2 DEF Names
    <3> QED BY <2>1, <2>2, <3>1 DEF Absent
  <2>3. CASE pc' = [pc EXCEPT ![r] = "find"] /\ chosen' = chosen
    BY <2>1, <2>3 DEF Absent
  <2> QED BY <1>3, <2>2, <2>3, V8Chosen
<1>4. CASE ChooseTag(r)
  <2>1. pc[r] = "find" /\ UNCHANGED <<loaded, protoDefs>> /\ protoDefs[r] = Absent /\ chosen[r][1] \in Chromium
    BY <1>4 DEF ChooseTag
  <2>2. CASE pc' = [pc EXCEPT ![r] = "load"] /\ \E w \in V8 : chosen' = [chosen EXCEPT ![r] = <<chosen[r][1], w>>]
    <3>1. chosen'[r] \in Names
      BY <2>1, <2>2 DEF Names
    <3> QED BY <2>1, <2>2, <3>1 DEF Absent
  <2>3. CASE pc' = [pc EXCEPT ![r] = "untagged"] /\ chosen' = chosen
    BY <2>1, <2>3 DEF Absent
  <2> QED BY <1>4, <2>2, <2>3, TagChosen
<1>5. CASE LoadPdl(r)
  <2>1. cmd[r].pdl # <<>> /\ cmd[r].pdl \in Names
    BY <1>5, CommandLine DEF LoadPdl
  <2>2. /\ pc'[r] = "generate" /\ protoDefs'[r] = combined[cmd[r].pdl] /\ UNCHANGED chosen
    BY <1>5 DEF LoadPdl
  <2> QED BY <2>1, <2>2 DEF CombinedNamed
<1>6. CASE Load(r)
  <2>1. PICK file \in DefinitionFiles(r, "pdl/chromium", chosen[r][1]) : loaded' = [loaded EXCEPT ![r] = file]
    BY <1>6 DEF Load
  <2>2. file.of = chosen[r][1]
    <3> HIDE <1>0 DEF ProtocolTyped, ProtocolFilled, Enter
    <3> QED BY FileType
  <2>3. /\ pc[r] = "load" /\ pc'[r] = "load v8" /\ UNCHANGED <<chosen, protoDefs>> /\ cmd[r].pdl = <<>>
        /\ loaded'[r] = file
    BY <1>6, <2>1 DEF Load
  <2> QED BY <2>2, <2>3
<1>7. CASE LoadV8(r)
  <2>1. PICK file \in DefinitionFiles(r, "pdl/v8", chosen[r][2]) :
          protoDefs' = [protoDefs EXCEPT ![r] = CombineBytes(loaded[r], file)]
    BY <1>7 DEF LoadV8
  <2>2. /\ chosen[r][1] \in Chromium /\ chosen[r][2] \in V8 /\ chosen[r] = <<chosen[r][1], chosen[r][2]>>
        /\ loaded[r].of = chosen[r][1] /\ loaded[r] \in Buffers /\ cmd[r].pdl = <<>>
    <3>1. chosen[r] \in Names /\ loaded[r].of = chosen[r][1] /\ loaded[r] \in Buffers /\ cmd[r].pdl = <<>>
      BY <1>7 DEF LoadV8
    <3> HIDE <1>0 DEF ProtocolTyped, ProtocolFilled, Enter
    <3> QED BY <3>1 DEF Names
  <2>3. file \in Buffers /\ file.of = chosen[r][2]
    <3>1. chosen[r][2] \in Chromium \cup V8
      BY <2>2
    <3> HIDE <1>0 DEF ProtocolTyped, ProtocolFilled, Enter
    <3> QED BY <3>1, BufferType
  <2>4. /\ CombineBytes(loaded[r], file) # Absent
        /\ CombineBytes(loaded[r], file).kind = "full" =>
             <<CombineBytes(loaded[r], file).chromium, CombineBytes(loaded[r], file).v8>> = chosen[r]
    <3>1. loaded[r].of \in Chromium /\ file.of \in V8
      BY <2>2, <2>3
    <3> HIDE <1>0 DEF ProtocolTyped, ProtocolFilled, Enter
    <3> QED BY <2>2, <2>3, <3>1, CombinedType
  <2>5. /\ pc'[r] = "open" /\ UNCHANGED chosen /\ chosen[r] \in Names
        /\ protoDefs'[r] = CombineBytes(loaded[r], file)
    BY <1>7, <2>1 DEF LoadV8
  <2> QED BY <2>2, <2>4, <2>5
<1>8. CASE OpenProtoFile(r)
  BY <1>8 DEF OpenProtoFile
<1>9. CASE WriteProtoFile(r)
  BY <1>9 DEF WriteProtoFile
<1>10. CASE List(r)
  BY <1>10 DEF List
<1>11. CASE Compare(r)
  <2>1. pc[r] = "compare" /\ UNCHANGED <<chosen, loaded, protoDefs>> /\ pc'[r] \in {"compare", "generate"}
    BY <1>11, CompareRound DEF Compare
  <2> QED BY <2>1
<1>12. CASE Abort(r)
  BY <1>12 DEF Abort
<1> QED BY <1>1, <1>2, <1>3, <1>4, <1>5, <1>6, <1>7, <1>8, <1>9, <1>10, <1>11, <1>12 DEF MainRuns, ProtocolStep

LEMMA ProtocolComparesStep ==
  ASSUME SharedTyped, CombinedNamed, ProtocolInv, NEW r \in Runner, MainRuns(r)
  PROVE  ProtocolCompares(r)'
<1>0. ProtocolCompares(r) /\ ProtocolTyped
  BY DEF ProtocolInv
<1> USE <1>0 DEF ProtocolTyped, ProtocolCompares, Enter, Stages
<1>1. CASE Begin(r)
  BY <1>1 DEF Begin
<1>2. CASE ChooseChromium(r)
  BY <1>2 DEF ChooseChromium
<1>3. CASE ChooseV8(r)
  BY <1>3 DEF ChooseV8
<1>4. CASE ChooseTag(r)
  <2>1. pc[r] = "find" /\ UNCHANGED shown /\ pc'[r] \in {"load", "untagged"}
    BY <1>4, TagChosen DEF ChooseTag
  <2> QED BY <2>1
<1>5. CASE LoadPdl(r)
  BY <1>5 DEF LoadPdl
<1>6. CASE Load(r)
  BY <1>6 DEF Load
<1>7. CASE LoadV8(r)
  BY <1>7 DEF LoadV8
<1>8. CASE OpenProtoFile(r)
  BY <1>8 DEF OpenProtoFile
<1>9. CASE WriteProtoFile(r)
  BY <1>9, MainCombinedStep DEF WriteProtoFile
<1>10. CASE List(r)
  <2>1. pc[r] = "list" /\ chosen[r] \in Names /\ combined[chosen[r]] # Absent
    BY <1>10 DEF List, ProtocolInv, ProtocolFilled
  <2>2. \A f \in Candidates(chosen[r]) : Masked(f) /\ (Masked(chosen[r]) => FileOlder(f, chosen[r]))
    BY <2>1 DEF Candidates
  <2>3. /\ pc'[r] = "compare" /\ UNCHANGED <<chosen, shown>> /\ older'[r] = Candidates(chosen[r])
    BY <1>10 DEF List
  <2>4. (\A f \in older[r] : Masked(f) /\ (Masked(chosen[r]) => FileOlder(f, chosen[r])))'
    BY <2>2, <2>3 DEF Masked
  <2> QED BY <2>1, <2>3, <2>4
<1>11. CASE Compare(r)
  <2>1. pc[r] = "compare" /\ UNCHANGED chosen /\ shown[r] = <<>>
    BY <1>11 DEF Compare
  <2>2. \A f \in older[r] : Masked(f) /\ (Masked(chosen[r]) => FileOlder(f, chosen[r]))
    BY <2>1
  <2>3. CASE pc' = [pc EXCEPT ![r] = "generate"] /\ UNCHANGED <<older, shown>>
    BY <2>1, <2>3
  <2>4. ASSUME NEW f \in older[r], pc' = [pc EXCEPT ![r] = "generate"] /\ shown' = [shown EXCEPT ![r] = f]
        PROVE  ProtocolCompares(r)'
    <3>1. pc'[r] = "generate" /\ shown'[r] = f /\ chosen'[r] = chosen[r]
      BY <2>1, <2>4
    <3> QED BY <2>2, <3>1
  <2>5. ASSUME NEW f \in older[r], older' = [older EXCEPT ![r] = older[r] \ {f}] /\ UNCHANGED <<pc, shown>>
        PROVE  ProtocolCompares(r)'
    <3>1. older'[r] \subseteq older[r] /\ pc'[r] = "compare" /\ shown'[r] = <<>> /\ chosen'[r] = chosen[r]
      BY <2>1, <2>5
    <3> QED BY <2>2, <3>1
  <2> QED BY <1>11, <2>3, <2>4, <2>5, CompareRound
<1>12. CASE Abort(r)
  BY <1>12 DEF Abort, Idle
<1> QED BY <1>1, <1>2, <1>3, <1>4, <1>5, <1>6, <1>7, <1>8, <1>9, <1>10, <1>11, <1>12 DEF MainRuns, ProtocolStep

(* With -ttl=0 nothing is a part, but for what -pdl names.                  *)
ProtocolWhole(r) ==
  TTL[r] = 0 =>
    /\ pc[r] = "load v8" => loaded[r].whole
    /\ protoDefs[r] = Short => cmd[r].pdl # <<>>

LEMMA WholeFile ==
  ASSUME NEW r \in Proc, TTL[r] = 0, NEW tag, NEW dir \in {"pdl/chromium", "pdl/v8"},
         <<dir, tag>> \in Files, NEW file \in DefinitionFiles(r, dir, tag)
  PROVE  file.whole
<1>1. PICK page \in Handed(r, dir, tag) : file = [of |-> tag, whole |-> page.kind = "full"]
  BY DEF DefinitionFiles
<1>2. page.key = <<dir, tag>> /\ page.kind \in {"full", "error", "empty", "torn"} /\ MayGet(r, page)
  BY <1>1 DEF Handed
<1>3. page.kind = "full"
  BY <1>2 DEF MayGet, Complete
<1> QED BY <1>1, <1>3

LEMMA WholeCombined ==
  ASSUME NEW a, NEW b, a.whole, b.whole
  PROVE  CombineBytes(a, b) # Short
  BY DEF CombineBytes, Short

LEMMA ProtocolWholeStep ==
  ASSUME SharedTyped, ProtocolInv, NEW r \in Runner, ProtocolWhole(r), MainRuns(r)
  PROVE  ProtocolWhole(r)'
<1>0. ProtocolFilled(r) /\ ProtocolTyped /\ cmd' = cmd /\ r \in Proc
  BY ProtocolConstants DEF ProtocolInv, MainRuns, ProtocolConstants
<1> SUFFICES ASSUME TTL[r] = 0
             PROVE  (pc[r] = "load v8" => loaded[r].whole)' /\ (protoDefs[r] = Short => cmd[r].pdl # <<>>)'
  BY DEF ProtocolWhole
<1> USE <1>0 DEF ProtocolTyped, ProtocolWhole, Enter
<1>1. CASE Begin(r)
  BY <1>1 DEF Begin, Absent, Short
<1>2. CASE ChooseChromium(r)
  BY <1>2 DEF ChooseChromium
<1>3. CASE ChooseV8(r)
  BY <1>3 DEF ChooseV8
<1>4. CASE ChooseTag(r)
  <2>1. UNCHANGED protoDefs /\ pc'[r] \in {"load", "untagged"}
    BY <1>4, TagChosen DEF ChooseTag
  <2> QED BY <2>1
<1>5. CASE LoadPdl(r)
  BY <1>5 DEF LoadPdl
<1>6. CASE Load(r)
  <2>1. PICK file \in DefinitionFiles(r, "pdl/chromium", chosen[r][1]) : loaded' = [loaded EXCEPT ![r] = file]
    BY <1>6 DEF Load
  <2>2. <<"pdl/chromium", chosen[r][1]>> \in Files
    BY <1>6 DEF Load, ProtocolFilled, Names, Files
  <2>3. file.whole
    <3> HIDE <1>0 DEF ProtocolTyped, ProtocolWhole, Enter
    <3> QED BY <1>0, <2>2, WholeFile
  <2> QED BY <1>6, <2>1, <2>3 DEF Load
<1>7. CASE LoadV8(r)
  <2>1. PICK file \in DefinitionFiles(r, "pdl/v8", chosen[r][2]) :
          protoDefs' = [protoDefs EXCEPT ![r] = CombineBytes(loaded[r], file)]
    BY <1>7 DEF LoadV8
  <2>2. <<"pdl/v8", chosen[r][2]>> \in Files
    BY <1>7 DEF LoadV8, ProtocolFilled, Names, Files
  <2>3. file.whole /\ loaded[r].whole
    <3>1. loaded[r].whole
      BY <1>7 DEF LoadV8
    <3> HIDE <1>0 DEF ProtocolTyped, ProtocolWhole, Enter
    <3> QED BY <1>0, <2>2, <3>1, WholeFile
  <2>4. CombineBytes(loaded[r], file) # Short
    BY <2>3, WholeCombined
  <2>5. protoDefs'[r] = CombineBytes(loaded[r], file) /\ pc'[r] = "open"
    BY <1>7, <2>1 DEF LoadV8
  <2> QED BY <2>4, <2>5
<1>8. CASE OpenProtoFile(r)
  BY <1>8 DEF OpenProtoFile
<1>9. CASE WriteProtoFile(r)
  BY <1>9 DEF WriteProtoFile
<1>10. CASE List(r)
  BY <1>10 DEF List
<1>11. CASE Compare(r)
  <2>1. pc[r] = "compare" /\ UNCHANGED protoDefs /\ pc'[r] \in {"compare", "generate"}
    BY <1>11, CompareRound DEF Compare
  <2> QED BY <2>1
<1>12. CASE Abort(r)
  BY <1>12 DEF Abort
<1> QED BY <1>1, <1>2, <1>3, <1>4, <1>5, <1>6, <1>7, <1>8, <1>9, <1>10, <1>11, <1>12 DEF MainRuns, ProtocolStep

-----------------------------------------------------------------------------
(* The invariant of the composition.                                       *)
Inv ==
  /\ SharedTyped /\ CombinedNamed
  /\ GrabInv
  /\ ProtocolInv /\ \A r \in Runner : ProtocolWhole(r)

LEMMA Initially == Init => Inv
<1> SUFFICES ASSUME Init PROVE Inv
  OBVIOUS
<1>1. \A r \in Runner : ProtocolWhole(r)
  BY DEF Init, ProtocolInit, ProtocolWhole, Absent, Short
<1> QED BY <1>1, GrabInitially, ProtocolInitially DEF Inv

LEMMA Step ==
  ASSUME Inv, [Next]_vars
  PROVE  Inv'
<1> USE DEF Inv
<1>1. GrabInv'
  BY GrabInvStep
<1>2. ASSUME NEW g \in Grabber, GrabRuns(g) PROVE Inv'
  <2>1. SharedTyped' /\ CombinedNamed' /\ CombinedGrows
    BY <1>2, GrabCombinedStep
  <2>2. UNCHANGED <<cmd, protocolVars>>
    BY <1>2 DEF GrabRuns
  <2>3. ProtocolTyped'
    BY <2>2 DEF ProtocolInv, ProtocolTyped, protocolVars
  <2>4. ASSUME NEW r \in Runner PROVE (ProtocolFilled(r) /\ ProtocolCompares(r) /\ ProtocolWhole(r))'
    <3>1. ProtocolFilled(r) /\ ProtocolCompares(r) /\ ProtocolWhole(r)
      BY DEF ProtocolInv
    <3>2. ProtocolFilled(r)' /\ ProtocolWhole(r)'
      BY <2>2, <3>1 DEF ProtocolFilled, ProtocolWhole, protocolVars
    <3>3. (pc[r] = "list" => combined[chosen[r]] # Absent)'
      BY <2>1, <2>2, <3>1 DEF ProtocolInv, ProtocolFilled, ProtocolCompares, CombinedGrows, protocolVars
    <3>4. ProtocolCompares(r)'
      BY <2>2, <3>1, <3>3 DEF ProtocolCompares, protocolVars, Masked
    <3> QED BY <3>2, <3>4
  <2> QED BY <1>1, <2>1, <2>3, <2>4 DEF ProtocolInv
<1>3. ASSUME NEW r \in Runner, MainRuns(r) PROVE Inv'
  <2>1. SharedTyped' /\ CombinedNamed' /\ CombinedGrows
    BY <1>3, MainCombinedStep
  <2>2. ProtocolTyped'
    BY <1>3, ProtocolTypedStep
  <2>3. ASSUME NEW h \in Runner PROVE (ProtocolFilled(h) /\ ProtocolCompares(h) /\ ProtocolWhole(h))'
    <3>1. CASE h = r
      BY <1>3, <3>1, ProtocolFilledStep, ProtocolComparesStep, ProtocolWholeStep
    <3>2. CASE h # r
      <4>1. ProtocolFilled(h) /\ ProtocolCompares(h) /\ ProtocolWhole(h) /\ cmd' = cmd
        BY <1>3 DEF ProtocolInv, MainRuns
      <4>2. /\ pc'[h] = pc[h] /\ chosen'[h] = chosen[h] /\ loaded'[h] = loaded[h]
            /\ protoDefs'[h] = protoDefs[h] /\ older'[h] = older[h] /\ shown'[h] = shown[h]
        BY <1>3, <3>2, MainFrame DEF ProtocolInv
      <4>3. ProtocolFilled(h)' /\ ProtocolWhole(h)'
        BY <4>1, <4>2 DEF ProtocolFilled, ProtocolWhole
      <4>4. (pc[h] = "list" => combined[chosen[h]] # Absent)'
        BY <2>1, <4>1, <4>2 DEF ProtocolFilled, ProtocolCompares, CombinedGrows
      <4>5. ProtocolCompares(h)'
        BY <4>1, <4>2, <4>4 DEF ProtocolCompares, Masked
      <4> QED BY <4>3, <4>5
    <3> QED BY <3>1, <3>2
  <2> QED BY <1>1, <2>1, <2>2, <2>3 DEF ProtocolInv
<1>4. CASE UNCHANGED <<cmd, combined, protocolVars>> /\ now' \in 0 .. MaxTime
  <2>1. SharedTyped' /\ CombinedNamed'
    BY <1>4 DEF SharedTyped, CombinedNamed
  <2>2. ProtocolInv' /\ \A r \in Runner : ProtocolWhole(r)'
    BY <1>4 DEF ProtocolInv, ProtocolTyped, ProtocolFilled, ProtocolCompares, ProtocolWhole, protocolVars, Masked
  <2> QED BY <1>1, <2>1, <2>2
<1>5. CASE TimePasses
  <2>1. now' = now + 1 /\ now < MaxTime /\ now \in 0 .. MaxTime /\ MaxTime \in Nat
    BY <1>5, SourceConstants DEF TimePasses, Tick, SharedTyped, SourceConstants
  <2>2. now' \in 0 .. MaxTime
    BY <2>1
  <2> QED BY <1>4, <1>5, <2>2 DEF TimePasses, Tick
<1>6. CASE UNCHANGED vars
  BY <1>4, <1>6 DEF vars, SharedTyped
<1> QED BY <1>2, <1>3, <1>5, <1>6 DEF Next

LEMMA Always == Spec => []Inv
<1>1. Inv /\ [Next]_vars => Inv'
  BY Step
<1> QED BY Initially, <1>1, PTL DEF Spec

(* The types, and what the buffers hold at each step of the tools.          *)
THEOREM TypeCorrect == Spec => []TypeOK
<1>1. Inv => TypeOK
  <2> SUFFICES ASSUME Inv PROVE TypeOK
    OBVIOUS
  <2>1. ASSUME NEW g \in Grabber
        PROVE  /\ ver[g] \in vers[g] \cup {<<>>} /\ v8ver[g] \in V8 \cup {<<>>}
               /\ wrote[g] \subseteq Names /\ minorCount[g] <= Cardinality(wrote[g])
               /\ {chromiumBuf[g], v8Buf[g]} \subseteq {NoFile} \cup [of : Chromium \cup V8, whole : BOOLEAN]
    BY DEF Inv, GrabInv, GrabTyped, GrabFilled, GrabOrdered, Buffers
  <2> QED BY <2>1 DEF Inv, SharedTyped, GrabInv, GrabTyped, ProtocolInv, ProtocolTyped, TypeOK
<1> QED BY <1>1, Always, PTL

(* Whatever main.go and grab.go do side by side to pdl/combined, whoever is *)
(* killed and whatever Get hands them: a combined file is of the versions   *)
(* in its name, and so is the protocol from which main.go generates.        *)
THEOREM NamesMatch == Spec => []NamedForContents
<1>1. Inv => NamedForContents
  BY DEF Inv, CombinedNamed, ProtocolInv, ProtocolFilled, GrabInv, GrabFilled, NamedForContents
<1> QED BY <1>1, Always, PTL

(* WalkAndCompare shows main.go's differences with an older file, although  *)
(* other invocations write into the directory it lists.                     *)
THEOREM ComparesWithOlder == Spec => []ComparedWithOlder
<1>1. Inv => ComparedWithOlder
  BY DEF Inv, ProtocolInv, ProtocolCompares, ComparedWithOlder
<1> QED BY <1>1, Always, PTL

-----------------------------------------------------------------------------
(* What depends on the age of pages. *)

LEMMA Clock == SharedTyped => now \in Nat
  BY SourceConstants DEF SharedTyped, SourceConstants

(* A tag that is missing from the list is not late.                         *)
LEMMA MissingTag ==
  ASSUME SharedTyped, NEW p \in Proc, NEW c, NEW tags \in Refs(p, "refs/v8.json", V8), TagsOf(c, tags) = {},
         NEW w \in TagsOf(c, V8)
  PROVE  ~Late(p, w)
<1>1. PICK page \in Handed(p, "refs/v8.json", <<>>) : page.kind = "full" /\ tags = Listed(V8, page)
  BY DEF Refs
<1>2. page.kind = "full" /\ page.asof \in 0 .. now /\ MayGet(p, page)
  BY <1>1 DEF Handed
<1>3. w \in V8 /\ w \notin Listed(V8, page)
  BY <1>1 DEF TagsOf
<1>4. ~(Published[w] <= page.asof)
  BY <1>3 DEF Listed
<1>5. now <= page.asof + TTL[p] + 2 * Latency
  BY <1>2 DEF MayGet, Complete
<1>6. Published[w] \in Nat /\ TTL[p] \in Nat /\ Latency \in Nat /\ now \in Nat
  BY <1>3, SourceConstants, Clock DEF SourceConstants
<1> QED BY <1>2, <1>4, <1>5, <1>6 DEF Late

(* With -ttl=0, what is chosen is the newest of all that are old enough.    *)
LEMMA NewestChosen ==
  ASSUME SharedTyped, NEW p \in Proc, TTL[p] = 0,
         NEW v \in LatestVersions(p, "html/chromium.html", Chromium),
         NEW c \in Chromium, Published[c] + Latency <= now
  PROVE  ~CompareSemver(v, c)
<1> DEFINE versions(page) == {t \in Listed(Chromium, page) : IsVersion(t)}
<1>1. PICK page \in Handed(p, "html/chromium.html", <<>>) :
        v \in CASE page.kind = "full" -> Newest(versions(page))
                [] page.kind = "torn" -> versions(page)
                [] OTHER -> {}
  BY DEF LatestVersions
<1>2. page.kind \in {"full", "error", "empty", "torn"} /\ page.asof \in 0 .. now /\ MayGet(p, page)
  BY <1>1 DEF Handed
<1>3. page.kind \in {"full", "error"} /\ now <= page.asof + Latency
  BY <1>2 DEF MayGet, Complete
<1>4. v \in Newest(versions(page))
  BY <1>1, <1>3
<1>5. Published[c] \in Nat /\ Latency \in Nat /\ now \in Nat
  BY SourceConstants, Clock DEF SourceConstants
<1>6. c \in versions(page)
  <2>1. Published[c] <= page.asof
    BY <1>2, <1>3, <1>5
  <2>2. IsVersion(c)
    BY TagType DEF Version
  <2> QED BY <2>1, <2>2 DEF Listed
<1>7. c \in Version /\ v \in Version
  BY <1>4, TagType DEF Newest, Listed
<1>8. c = v \/ CompareSemver(c, v)
  BY <1>4, <1>6 DEF Newest
<1> QED BY <1>7, <1>8, VersionsOrdered

(* GetDepVersion of either tool reports that no tag has the revision only   *)
(* while all the tags that do are younger than pages may be old.            *)
THEOREM TagsAreFound == Spec => TagsFoundInTime
<1> DEFINE Found ==
      /\ \A g \in Grabber : at[g] = "find" /\ at'[g] = "untagged" =>
           \A w \in TagsOf(ver[g], V8) : ~Late(g, w)
      /\ \A r \in Runner : pc[r] = "find" /\ pc'[r] = "untagged" =>
           \A w \in TagsOf(chosen[r][1], V8) : ~Late(r, w)
<1>1. Inv /\ [Next]_vars => Found
  <2> SUFFICES ASSUME Inv, [Next]_vars PROVE Found
    OBVIOUS
  <2>1. ASSUME NEW g \in Grabber, at[g] = "find", at'[g] = "untagged", NEW w \in TagsOf(ver[g], V8)
        PROVE  ~Late(g, w)
    <3>1. PICK h \in Grabber : GrabRuns(h)
      BY <2>1 DEF Next, MainRuns, TimePasses, grabVars, vars
    <3>2. h = g
      BY <2>1, <3>1, GrabFrame DEF Inv, GrabInv
    <3>3. FindTag(g)
      BY <2>1, <3>1, <3>2 DEF GrabRuns, GrabStep, Start, FindTags, Iterate, GetChromium, GetDeps, GetV8, Open,
         Write, Count, Fail, Inv, GrabInv, GrabTyped, Goto
    <3>4. PICK tags \in Refs(g, "refs/v8.json", V8) :
            IF TagsOf(ver[g], tags) = {}
              THEN Goto(g, "untagged") /\ UNCHANGED v8ver
              ELSE \E x \in TagsOf(ver[g], tags) :
                     /\ v8ver' = [v8ver EXCEPT ![g] = x]
                     /\ Goto(g, IF IsVersion(x) THEN "v8" ELSE "loop")
      BY <3>3 DEF FindTag
    <3>5. at \in [Grabber -> Places]
      BY DEF Inv, GrabInv, GrabTyped
    <3>6. TagsOf(ver[g], tags) = {}
      BY <2>1, <3>4, <3>5 DEF Goto
    <3>7. g \in Proc
      BY GrabConstants DEF GrabConstants
    <3> QED BY <3>6, <3>7, MissingTag DEF Inv
  <2>2. ASSUME NEW r \in Runner, pc[r] = "find", pc'[r] = "untagged", NEW w \in TagsOf(chosen[r][1], V8)
        PROVE  ~Late(r, w)
    <3>0. ProtocolTyped /\ pc \in [Runner -> Stages] /\ chosen \in [Runner -> Choices]
      BY DEF Inv, ProtocolInv, ProtocolTyped
    <3>1. PICK h \in Runner : MainRuns(h)
      BY <2>2 DEF Next, GrabRuns, TimePasses, protocolVars, vars
    <3>2. h = r
      BY <2>2, <3>0, <3>1, MainFrame
    <3>3. ChooseTag(r)
      BY <2>2, <3>0, <3>1, <3>2 DEF MainRuns, ProtocolStep, Begin, ChooseChromium, ChooseV8, LoadPdl, Load, LoadV8,
         OpenProtoFile, WriteProtoFile, List, Compare, Abort, Enter, Idle
    <3>4. PICK tags \in Refs(r, "refs/v8.json", V8) :
            IF TagsOf(chosen[r][1], tags) = {}
              THEN Enter(r, "untagged") /\ UNCHANGED chosen
              ELSE /\ \E x \in TagsOf(chosen[r][1], tags) : chosen' = [chosen EXCEPT ![r][2] = x]
                   /\ Enter(r, "load")
      BY <3>3 DEF ChooseTag
    <3>5. TagsOf(chosen[r][1], tags) = {}
      BY <2>2, <3>0, <3>4 DEF Enter
    <3>6. r \in Proc
      BY ProtocolConstants DEF ProtocolConstants
    <3> QED BY <3>5, <3>6, MissingTag DEF Inv
  <2> QED BY <2>1, <2>2
<1>2. Found => [Found]_vars
  OBVIOUS
<1> QED BY <1>1, Always, PTL DEF Spec, TagsFoundInTime

(* With -ttl=0 main.go depends neither on the cache nor on pdl/combined: it *)
(* chooses the newest version and goes on with the whole protocol.          *)
THEOREM ChoosesAnew == Spec => ChosenAnew
<1> DEFINE Anew ==
      \A r \in Runner : TTL[r] = 0 =>
        /\ pc[r] = "chromium" /\ chosen[r][1] = <<>> /\ chosen'[r][1] # <<>> =>
             \A c \in Chromium : Published[c] + Latency <= now => ~CompareSemver(chosen'[r][1], c)
        /\ protoDefs'[r] = Short => cmd[r].pdl # <<>>
<1>1. Inv /\ Inv' /\ [Next]_vars => [Anew]_vars
  <2> SUFFICES ASSUME Inv, Inv', Next, NEW r \in Runner, TTL[r] = 0
               PROVE  /\ pc[r] = "chromium" /\ chosen[r][1] = <<>> /\ chosen'[r][1] # <<>> =>
                           \A c \in Chromium : Published[c] + Latency <= now => ~CompareSemver(chosen'[r][1], c)
                      /\ protoDefs'[r] = Short => cmd[r].pdl # <<>>
    OBVIOUS
  <2>1. cmd' = cmd
    BY DEF Next, GrabRuns, MainRuns, TimePasses, Tick
  <2>2. protoDefs'[r] = Short => cmd[r].pdl # <<>>
    BY <2>1 DEF Inv, ProtocolWhole
  <2>3. ASSUME pc[r] = "chromium", chosen[r][1] = <<>>, chosen'[r][1] # <<>>,
               NEW c \in Chromium, Published[c] + Latency <= now
        PROVE  ~CompareSemver(chosen'[r][1], c)
    <3>0. ProtocolTyped /\ chosen \in [Runner -> Choices] /\ chosen[r] \in Choices
      BY DEF Inv, ProtocolInv, ProtocolTyped
    <3>1. PICK h \in Runner : MainRuns(h)
      BY <2>3 DEF Next, GrabRuns, TimePasses, protocolVars
    <3>2. h = r
      BY <2>3, <3>0, <3>1, MainFrame
    <3>3. ChooseChromium(r)
      BY <2>3, <3>1, <3>2 DEF MainRuns, ProtocolStep, Begin, ChooseV8, ChooseTag, LoadPdl, Load, LoadV8,
         OpenProtoFile, WriteProtoFile, List, Compare, Abort, Idle
    <3>4. PICK v \in LatestVersions(r, "html/chromium.html", Chromium) : chosen' = [chosen EXCEPT ![r][1] = v]
      BY <2>3, <3>3 DEF ChooseChromium
    <3>5. chosen'[r][1] = v
      <4>1. chosen' = [chosen EXCEPT ![r] = <<v, chosen[r][2]>>]
        BY <3>0, <3>4, Chosen
      <4> QED BY <3>0, <4>1
    <3>6. r \in Proc
      BY ProtocolConstants DEF ProtocolConstants
    <3> QED BY <2>3, <3>5, <3>6, NewestChosen DEF Inv
  <2> QED BY <2>2, <2>3
<1> QED BY <1>1, Always, PTL DEF Spec, ChosenAnew

-----------------------------------------------------------------------------
(* The versions that are passed. *)

(* The run has been at c and is at an older version, or has ended with c.   *)
Passed(g, c) ==
  /\ c \in vers[g] /\ ver[g] # <<>>
  /\ CompareSemver(ver[g], c) \/ (at[g] = "loop" /\ c = ver[g])

Written(g, c) == \E w \in V8 : <<c, w>> \in wrote[g]

NotNewest(g, c) == \E u \in vers[g] : u[1] = c[1] /\ CompareSemver(c, u) /\ ~Unnumbered(u)

(* OnlyNewestPassedOver, of one invocation.                                 *)
PassedOver(g) ==
  \A f \in wrote[g], c \in vers[g] :
    c[1] = f[1][1] /\ CompareSemver(f[1], c) /\ ~Written(g, c) => Unnumbered(c) \/ ~NotNewest(g, c)

(* A version is passed over when the counter is full, and the counter stays *)
(* full until the major is over, unless it still counts for the one before. *)
GrabPasses(g) ==
  /\ at[g] \in Active => minorCount[g] < cmd[g].minors
  /\ at[g] = "count" => Written(g, ver[g]) \/ minorCount[g] >= cmd[g].minors
  /\ \A u \in vers[g] : Passed(g, u) /\ u[1] = ver[g][1] /\ ~Unnumbered(u) => last[g] = ver[g][1]
  /\ \A c \in vers[g] : Passed(g, c) /\ c[1] = ver[g][1] /\ ~Unnumbered(c) /\ NotNewest(g, c) /\ ~Written(g, c) =>
       minorCount[g] >= cmd[g].minors
  /\ PassedOver(g)

-----------------------------------------------------------------------------
(* The majors. *)

CountedMajors(g) == IF last[g] = 0 THEN {} ELSE {m \in MajorsOf(g) : last[g] <= m} \cup {last[g]}

(* All majors with a file have been counted, but for the one at hand.       *)
GrabMajors(g) ==
  /\ at[g] \in Active \cup {"count"} => majorCount[g] < cmd[g].majors
  /\ at[g] # "idle" => majorCount[g] <= cmd[g].majors
  /\ majorCount[g] = 0 <=> last[g] = 0
  /\ last[g] # 0 => ver[g] # <<>> /\ ver[g][1] <= last[g]
  /\ \A f \in wrote[g] :
       \/ last[g] # 0 /\ last[g] <= f[1][1]
       \/ f[1][1] = ver[g][1] /\ at[g] \in {"count", "failed"} /\ majorCount[g] < cmd[g].majors
  /\ IsFiniteSet(CountedMajors(g)) /\ Cardinality(CountedMajors(g)) <= majorCount[g]

-----------------------------------------------------------------------------
(* The files of a major. *)

Later(g, major) == IF \E m \in MajorsOf(g) : m > major THEN 1 ELSE 0

(* The first file of a later major is counted for the one before, and then  *)
(* forgotten.                                                               *)
GrabFiles(g) ==
  /\ wrote[g] # {} => cmd[g].minors >= 1
  /\ last[g] # 0 => cmd[g].minors = 0 \/ \E f \in wrote[g] : last[g] <= f[1][1]
  /\ at[g] = "count" => cmd[g].minors = 0 \/ wrote[g] # {}
  /\ at[g] = "count" /\ last[g] # ver[g][1] =>
       \/ FilesOf(g, ver[g][1]) = {}
       \/ FilesOf(g, ver[g][1]) = {Out(g)} /\ minorCount[g] >= 1
  /\ last[g] # 0 => Cardinality(FilesOf(g, last[g])) <= minorCount[g] + Later(g, last[g])
  /\ \A m \in MajorsOf(g) : Cardinality(FilesOf(g, m)) <= cmd[g].minors + Later(g, m)

GrabCounts == \A g \in Grabber : GrabPasses(g) /\ GrabMajors(g) /\ GrabFiles(g)

-----------------------------------------------------------------------------
(* The steps, apart from what they do to the buffers. *)

LEMMA Flags ==
  ASSUME SharedTyped, GrabTyped, NEW g \in Grabber, at[g] # "idle"
  PROVE  g \in DOMAIN cmd /\ cmd[g].majors \in Nat /\ cmd[g].minors \in Nat
<1>1. cmd \in Sessions /\ g \in Grabber \cap DOMAIN cmd
  BY DEF SharedTyped, GrabTyped
<1>2. cmd[g] \in [majors : Nat, minors : Nat]
  BY <1>1, GrabConstants DEF GrabConstants
<1> QED BY <1>1, <1>2

(* What the versions are, and the files that have been written.             *)
LEMMA VersionsOf ==
  ASSUME GrabInv, NEW g \in Grabber
  PROVE  /\ \A v \in vers[g] : v \in Version /\ v # <<>> /\ v[1] \in Nat
         /\ ver[g] # <<>> => ver[g] \in vers[g] /\ ver[g][1] \in Nat /\ ver[g][1] >= 67
         /\ \A f \in wrote[g] : /\ f[1] \in Version /\ f[1][1] \in Nat
                                /\ ver[g] # <<>> /\ ver[g][1] <= f[1][1]
<1>1. \A v \in vers[g] : v \in Version /\ v # <<>> /\ v[1] \in Nat
  BY TagType DEF GrabInv, GrabTyped
<1>2. ver[g] # <<>> => ver[g] \in vers[g] /\ ver[g][1] \in Nat /\ ver[g][1] >= 67
  BY <1>1 DEF GrabInv, GrabFilled
<1>3. ASSUME NEW f \in wrote[g]
      PROVE  f[1] \in Version /\ f[1][1] \in Nat /\ ver[g] # <<>> /\ ver[g][1] <= f[1][1]
  <2>1. f[1] \in vers[g] /\ ver[g] # <<>>
    BY DEF GrabInv, GrabFilled
  <2>2. f[1] = ver[g] \/ CompareSemver(ver[g], f[1])
    BY DEF GrabInv, GrabOrdered
  <2> QED BY <1>1, <1>2, <2>1, <2>2, MajorsDescend
<1> QED BY <1>1, <1>2, <1>3

(* Most steps change nothing that is counted.                               *)
Same(g) ==
  /\ vers'[g] = vers[g] /\ ver'[g] = ver[g] /\ wrote'[g] = wrote[g] /\ cmd' = cmd
  /\ last'[g] = last[g] /\ majorCount'[g] = majorCount[g] /\ minorCount'[g] = minorCount[g]
  /\ \/ at[g] \in Active /\ at'[g] \in Active
     \/ at[g] = "find" /\ at'[g] = "loop" /\ Unnumbered(ver[g])
     \/ at[g] \notin Over /\ at'[g] = "failed"
     \/ at[g] = "find" /\ at'[g] = "untagged"
     \/ at[g] = "loop" /\ at'[g] = "done"

LEMMA Kinds ==
  ASSUME GrabInv, NEW g \in Grabber, GrabRuns(g)
  PROVE  Start(g) \/ FindTags(g) \/ (Iterate(g) /\ ~Same(g)) \/ Write(g) \/ Count(g) \/ Same(g)
<1>0. at \in [Grabber -> Places] /\ cmd' = cmd
  BY DEF GrabInv, GrabTyped, GrabRuns
<1> USE <1>0 DEF Same, Goto, counters, buffers, Active
<1>1. CASE GetChromium(g)
  BY <1>1 DEF GetChromium
<1>2. CASE GetDeps(g)
  BY <1>2 DEF GetDeps
<1>3. CASE FindTag(g)
  <2>1. at[g] = "find" /\ UNCHANGED <<vers, counters, ver, wrote>>
    BY <1>3 DEF FindTag
  <2>2. PICK tags \in Refs(g, "refs/v8.json", V8) :
          IF TagsOf(ver[g], tags) = {}
            THEN Goto(g, "untagged") /\ UNCHANGED v8ver
            ELSE \E w \in TagsOf(ver[g], tags) :
                   /\ v8ver' = [v8ver EXCEPT ![g] = w]
                   /\ Goto(g, IF IsVersion(w) THEN "v8" ELSE "loop")
    BY <1>3 DEF FindTag
  <2>3. CASE TagsOf(ver[g], tags) = {}
    BY <2>1, <2>2, <2>3
  <2>4. CASE TagsOf(ver[g], tags) # {}
    <3>1. PICK w \in TagsOf(ver[g], tags) : Goto(g, IF IsVersion(w) THEN "v8" ELSE "loop")
      BY <2>2, <2>4
    <3>2. w \in TagsOf(ver[g], V8)
      BY DEF TagsOf, Refs, Listed
    <3>3. ~IsVersion(w) => Unnumbered(ver[g])
      BY <3>2 DEF Unnumbered, Numbered
    <3> QED BY <2>1, <3>1, <3>3
  <2> QED BY <2>3, <2>4
<1>4. CASE GetV8(g)
  BY <1>4 DEF GetV8
<1>5. CASE Open(g)
  BY <1>5 DEF Open
<1>6. CASE Fail(g)
  BY <1>6 DEF Fail, Over
<1> QED BY <1>1, <1>2, <1>3, <1>4, <1>5, <1>6 DEF GrabRuns, GrabStep

(* The next version, v, and the ones before it.                             *)
LEMMA NextVersion ==
  ASSUME GrabInv, NEW g \in Grabber, Iterate(g), cmd' = cmd, ~Same(g)
  PROVE  /\ at[g] = "loop" /\ majorCount[g] < cmd[g].majors
         /\ vers'[g] = vers[g] /\ wrote'[g] = wrote[g]
         /\ last'[g] = last[g] /\ majorCount'[g] = majorCount[g] /\ minorCount'[g] = minorCount[g]
         /\ \/ at'[g] = "count" /\ minorCount[g] >= cmd[g].minors
            \/ at'[g] = "chromium" /\ ~(minorCount[g] >= cmd[g].minors)
         /\ ver'[g] \in vers[g]
         /\ ver[g] # <<>> => CompareSemver(ver'[g], ver[g]) /\ ver'[g][1] <= ver[g][1]
         /\ \A u \in vers[g] : CompareSemver(ver'[g], u) => Passed(g, u)
<1>0. at \in [Grabber -> Places] /\ ver \in [Grabber -> Chromium \cup {<<>>}]
  BY DEF GrabInv, GrabTyped
<1>1. at[g] = "loop" /\ UNCHANGED <<vers, counters, wrote>>
  BY IterateForward
<1>2. ~(at' = [at EXCEPT ![g] = "done"] /\ UNCHANGED ver)
  BY <1>0, <1>1 DEF Same, counters
<1>3. /\ majorCount[g] < cmd[g].majors
      /\ \/ Skip(g) /\ at' = [at EXCEPT ![g] = "count"]
         \/ ~Skip(g) /\ at' = [at EXCEPT ![g] = "chromium"]
  BY <1>2, IterateForward
<1>4. PICK v \in vers[g] :
        /\ ver' = [ver EXCEPT ![g] = v]
        /\ ver[g] = <<>> \/ CompareSemver(v, ver[g])
        /\ \A u \in vers[g] : u = v \/ CompareSemver(u, v) \/ (ver[g] # <<>> /\ ~CompareSemver(u, ver[g]))
  BY <1>2, IterateForward
<1>5. ver'[g] = v
  BY <1>0, <1>4
<1>6. v \in Version /\ (ver[g] # <<>> => ver[g] \in Version)
  BY VersionsOf
<1>7. ver[g] # <<>> => CompareSemver(v, ver[g]) /\ v[1] <= ver[g][1]
  BY <1>4, <1>6, MajorsDescend
<1>8. ASSUME NEW u \in vers[g], CompareSemver(v, u) PROVE Passed(g, u)
  <2>1. u \in Version
    BY VersionsOf
  <2>2. u # v /\ ~CompareSemver(u, v)
    BY <1>6, <1>8, <2>1, VersionsOrdered
  <2>3. ver[g] # <<>> /\ ~CompareSemver(u, ver[g])
    BY <1>4, <2>2
  <2>4. u = ver[g] \/ CompareSemver(ver[g], u)
    BY <1>6, <2>1, <2>3, VersionsOrdered
  <2> QED BY <1>1, <2>3, <2>4 DEF Passed
<1> QED BY <1>0, <1>1, <1>3, <1>5, <1>7, <1>8 DEF Skip, counters

(* The end of the loop makes the major at hand the last.                    *)
LEMMA Counting ==
  ASSUME GrabInv, NEW g \in Grabber, Count(g)
  PROVE  /\ at[g] = "count" /\ at'[g] = "loop"
         /\ vers'[g] = vers[g] /\ ver'[g] = ver[g] /\ wrote'[g] = wrote[g] /\ last'[g] = ver[g][1]
         /\ \/ last[g] = ver[g][1] /\ majorCount'[g] = majorCount[g] /\ minorCount'[g] = minorCount[g]
            \/ /\ last[g] # ver[g][1] /\ majorCount'[g] = majorCount[g] + 1
               /\ minorCount'[g] = IF majorCount[g] # 0 THEN 0 ELSE minorCount[g]
         /\ ver[g] # <<>> /\ ver[g] \in vers[g] /\ ver[g][1] \in Nat /\ ver[g][1] >= 67
<1>1. at[g] = "count" /\ ver[g] # <<>>
  BY DEF Count, GrabInv, GrabFilled
<1> QED BY <1>1, VersionsOf DEF Count, Goto, counters, buffers, GrabInv, GrabTyped

(* A file is written, while the counter is not full.                        *)
LEMMA Writing ==
  ASSUME GrabInv, NEW g \in Grabber, Write(g)
  PROVE  /\ at[g] = "write" /\ at'[g] = "count"
         /\ vers'[g] = vers[g] /\ ver'[g] = ver[g] /\ v8ver'[g] = v8ver[g]
         /\ wrote'[g] = wrote[g] \cup {Out(g)}
         /\ last'[g] = last[g] /\ majorCount'[g] = majorCount[g] /\ minorCount'[g] = minorCount[g] + 1
         /\ ver[g] # <<>> /\ ver[g] \in vers[g] /\ ver[g][1] \in Nat /\ ver[g][1] >= 67
         /\ v8ver[g] \in V8 /\ Out(g) = <<ver[g], v8ver[g]>>
<1>1. at[g] = "write" /\ ver[g] # <<>> /\ v8ver[g] \in V8
  BY GrabAtWork DEF Write, GrabInv, GrabFilled, Active
<1> QED BY <1>1, VersionsOf DEF Write, Goto, Out, buffers, GrabInv, GrabTyped

(* A run begins with nothing.                                              *)
LEMMA Beginning ==
  ASSUME GrabInv, NEW g \in Grabber, Start(g) \/ FindTags(g), last[g] # 0 => ver[g] # <<>>
  PROVE  /\ at'[g] \in {"refs", "loop"} /\ ver'[g] = <<>> /\ wrote'[g] = {}
         /\ last'[g] = 0 /\ minorCount'[g] = 0
         /\ Start(g) => majorCount'[g] = 0
         /\ FindTags(g) => majorCount'[g] = majorCount[g] /\ at[g] = "refs"
<1>1. CASE Start(g)
  BY <1>1 DEF Start, FindTags, NewRun, Goto, GrabInv, GrabTyped, Over
<1>2. CASE FindTags(g)
  BY <1>2 DEF Start, FindTags, Goto, counters, GrabInv, GrabTyped, GrabFilled, Over
<1> QED BY <1>1, <1>2

-----------------------------------------------------------------------------
LEMMA PassesStep ==
  ASSUME SharedTyped, GrabInv, NEW g \in Grabber, GrabPasses(g), last[g] # 0 => ver[g] # <<>>, GrabRuns(g)
  PROVE  GrabPasses(g)'
<1>0. cmd' = cmd /\ minorCount[g] \in Nat
  BY DEF GrabRuns, GrabInv, GrabTyped
<1>1. CASE Start(g) \/ FindTags(g)
  <2>1. at'[g] \in {"refs", "loop"} /\ ver'[g] = <<>> /\ wrote'[g] = {}
    BY <1>1, Beginning
  <2> QED BY <2>1 DEF GrabPasses, Passed, PassedOver, Active
<1>2. CASE Iterate(g) /\ ~Same(g)
  <2>0. at[g] = "loop" /\ cmd[g].minors \in Nat
    BY <1>0, <1>2, NextVersion, Flags DEF GrabInv
  <2> DEFINE v == ver'[g]
  <2>1. /\ vers'[g] = vers[g] /\ wrote'[g] = wrote[g] /\ last'[g] = last[g] /\ minorCount'[g] = minorCount[g]
        /\ \/ at'[g] = "count" /\ minorCount[g] >= cmd[g].minors
           \/ at'[g] = "chromium" /\ ~(minorCount[g] >= cmd[g].minors)
        /\ v \in vers[g]
        /\ ver[g] # <<>> => CompareSemver(v, ver[g]) /\ v[1] <= ver[g][1]
        /\ \A u \in vers[g] : CompareSemver(v, u) => Passed(g, u)
    BY <1>0, <1>2, NextVersion
  <2>2. ASSUME NEW u \in vers[g], Passed(g, u)', u[1] = v[1] PROVE Passed(g, u) /\ ver[g][1] = v[1] /\ u[1] = ver[g][1]
    <3>1. CompareSemver(v, u)
      BY <2>1, <2>2 DEF Passed
    <3>2. Passed(g, u) /\ ver[g] # <<>> /\ (CompareSemver(ver[g], u) \/ u = ver[g])
      BY <2>1, <3>1 DEF Passed
    <3>3. v \in Version /\ u \in Version /\ ver[g] \in Version /\ v[1] \in Nat /\ u[1] \in Nat /\ ver[g][1] \in Nat
      BY <2>1, <3>2, VersionsOf
    <3>4. v[1] <= ver[g][1] /\ ver[g][1] <= u[1]
      BY <2>1, <3>2, <3>3, MajorsDescend
    <3> QED BY <2>2, <3>2, <3>3, <3>4
  <2> HIDE DEF v
  <2>3. (at[g] \in Active => minorCount[g] < cmd[g].minors)'
    BY <1>0, <2>0, <2>1 DEF Active
  <2>4. (at[g] = "count" => Written(g, ver[g]) \/ minorCount[g] >= cmd[g].minors)'
    BY <1>0, <2>1
  <2>5. (\A u \in vers[g] : Passed(g, u) /\ u[1] = ver[g][1] /\ ~Unnumbered(u) => last[g] = ver[g][1])'
    BY <2>1, <2>2 DEF GrabPasses, v
  <2>6. (\A c \in vers[g] : Passed(g, c) /\ c[1] = ver[g][1] /\ ~Unnumbered(c) /\ NotNewest(g, c) /\ ~Written(g, c) =>
           minorCount[g] >= cmd[g].minors)'
    BY <1>0, <2>1, <2>2 DEF GrabPasses, NotNewest, Written, v
  <2>7. PassedOver(g)'
    BY <2>1 DEF GrabPasses, PassedOver, NotNewest, Written
  <2> QED BY <2>3, <2>4, <2>5, <2>6, <2>7 DEF GrabPasses
<1>3. CASE Write(g)
  <2>1. /\ at[g] = "write" /\ at'[g] = "count" /\ vers'[g] = vers[g] /\ ver'[g] = ver[g]
        /\ wrote'[g] = wrote[g] \cup {<<ver[g], v8ver[g]>>} /\ last'[g] = last[g]
        /\ minorCount'[g] = minorCount[g] + 1 /\ v8ver[g] \in V8 /\ ver[g] # <<>>
    BY <1>3, Writing
  <2>2. cmd[g].minors \in Nat /\ minorCount[g] < cmd[g].minors
    BY <2>1, Flags DEF GrabInv, GrabPasses, Active
  <2>3. \A c : Passed(g, c)' => Passed(g, c)
    BY <2>1 DEF Passed
  <2>4. \A c : Written(g, c) => Written(g, c)'
    BY <2>1 DEF Written
  <2>5. \A c : NotNewest(g, c)' => NotNewest(g, c)
    BY <2>1 DEF NotNewest
  <2>6. Written(g, ver[g])'
    BY <2>1 DEF Written
  <2>7. (\A u \in vers[g] : Passed(g, u) /\ u[1] = ver[g][1] /\ ~Unnumbered(u) => last[g] = ver[g][1])'
    BY <2>1, <2>3 DEF GrabPasses
  <2>8. (\A c \in vers[g] : Passed(g, c) /\ c[1] = ver[g][1] /\ ~Unnumbered(c) /\ NotNewest(g, c) /\ ~Written(g, c) =>
           minorCount[g] >= cmd[g].minors)'
    BY <1>0, <2>1, <2>2, <2>3, <2>4, <2>5 DEF GrabPasses
  <2>9. PassedOver(g)'
    <3>1. SUFFICES ASSUME NEW f \in wrote'[g], NEW c \in vers[g],
                          c[1] = f[1][1], CompareSemver(f[1], c), ~Written(g, c)', NotNewest(g, c)'
                   PROVE  Unnumbered(c)
      BY <2>1 DEF PassedOver
    <3>2. ~Written(g, c) /\ NotNewest(g, c)
      BY <2>4, <2>5, <3>1
    <3>3. CASE f \in wrote[g]
      BY <3>1, <3>2, <3>3 DEF GrabPasses, PassedOver
    <3>4. CASE f = <<ver[g], v8ver[g]>>
      <4>1. c[1] = ver[g][1] /\ Passed(g, c)
        BY <2>1, <3>1, <3>4 DEF Passed
      <4> QED BY <1>0, <2>2, <3>2, <4>1 DEF GrabPasses
    <3> QED BY <2>1, <3>3, <3>4
  <2> QED BY <2>1, <2>6, <2>7, <2>8, <2>9 DEF GrabPasses, Active
<1>4. CASE Count(g)
  <2>1. /\ at[g] = "count" /\ at'[g] = "loop" /\ vers'[g] = vers[g] /\ ver'[g] = ver[g] /\ wrote'[g] = wrote[g]
        /\ last'[g] = ver[g][1] /\ (last[g] = ver[g][1] => minorCount'[g] = minorCount[g])
        /\ ver[g] # <<>> /\ ver[g] \in vers[g]
    BY <1>4, Counting
  <2>2. ASSUME NEW c \in vers[g], Passed(g, c)', c[1] = ver[g][1], ~Unnumbered(c), NotNewest(g, c)', ~Written(g, c)'
        PROVE  minorCount'[g] >= cmd[g].minors
    <3>1. c = ver[g] \/ CompareSemver(ver[g], c)
      BY <2>1, <2>2 DEF Passed
    <3>2. NotNewest(g, c) /\ ~Written(g, c)
      BY <2>1, <2>2 DEF NotNewest, Written
    <3>3. PICK u \in vers[g] : u[1] = c[1] /\ CompareSemver(c, u) /\ ~Unnumbered(u)
      BY <3>2 DEF NotNewest
    <3>4. c \in Version /\ u \in Version /\ ver[g] \in Version
      BY <2>1, VersionsOf
    <3>5. CompareSemver(ver[g], u)
      BY <3>1, <3>3, <3>4, VersionsOrdered
    <3>6. last[g] = ver[g][1]
      BY <2>1, <2>2, <3>3, <3>5 DEF Passed, GrabPasses
    <3>7. CASE c = ver[g]
      BY <2>1, <3>2, <3>6, <3>7 DEF GrabPasses
    <3>8. CASE CompareSemver(ver[g], c)
      BY <2>1, <2>2, <3>2, <3>6, <3>8 DEF GrabPasses, Passed
    <3> QED BY <3>1, <3>7, <3>8
  <2>3. PassedOver(g)'
    BY <2>1 DEF GrabPasses, PassedOver, NotNewest, Written
  <2> QED BY <1>0, <2>1, <2>2, <2>3 DEF GrabPasses, Active
<1>5. CASE Same(g)
  <2>1. /\ vers'[g] = vers[g] /\ ver'[g] = ver[g] /\ wrote'[g] = wrote[g] /\ minorCount'[g] = minorCount[g]
        /\ last'[g] = last[g] /\ at'[g] # "count" /\ (at'[g] \in Active => at[g] \in Active)
        /\ at'[g] = "loop" => Unnumbered(ver[g])
    BY <1>5 DEF Same, Active
  <2>2. \A c : Passed(g, c)' => Passed(g, c) \/ Unnumbered(c)
    BY <2>1 DEF Passed
  <2>3. PassedOver(g)'
    BY <2>1 DEF GrabPasses, PassedOver, NotNewest, Written
  <2>4. \A c : (NotNewest(g, c)' <=> NotNewest(g, c)) /\ (Written(g, c)' <=> Written(g, c))
    BY <2>1 DEF NotNewest, Written
  <2> QED BY <1>0, <2>1, <2>2, <2>3, <2>4 DEF GrabPasses
<1> QED BY <1>1, <1>2, <1>3, <1>4, <1>5, Kinds

-----------------------------------------------------------------------------
LEMMA AtMostOneMore ==
  ASSUME NEW S, NEW x, IsFiniteSet(S)
  PROVE  /\ IsFiniteSet(S \cup {x}) /\ Cardinality(S) \in Nat /\ Cardinality(S \cup {x}) \in Nat
         /\ Cardinality(S \cup {x}) <= Cardinality(S) + 1
<1>1. CASE x \in S
  <2>1. S \cup {x} = S
    BY <1>1
  <2>2. Cardinality(S) \in Nat
    BY FS_CardinalityType
  <2>3. Cardinality(S) <= Cardinality(S) + 1
    BY <2>2
  <2> QED BY <2>1, <2>2, <2>3, Zenon
<1>2. CASE x \notin S
  BY <1>2, OneMore, FS_CardinalityType
<1> QED BY <1>1, <1>2

LEMMA MajorsStep ==
  ASSUME SharedTyped, GrabInv, NEW g \in Grabber, GrabMajors(g), GrabRuns(g)
  PROVE  GrabMajors(g)'
<1>0. /\ cmd' = cmd /\ last[g] \in Nat /\ majorCount[g] \in Nat /\ (last[g] # 0 => ver[g] # <<>>)
      /\ at[g] # "idle" => cmd[g].majors \in Nat
  BY Flags DEF GrabRuns, GrabInv, GrabTyped, GrabMajors
<1>1. CASE Start(g) \/ FindTags(g)
  <2>1. /\ at'[g] \in {"refs", "loop"} /\ wrote'[g] = {} /\ last'[g] = 0
        /\ majorCount'[g] = 0 \/ (majorCount'[g] = majorCount[g] /\ at[g] = "refs")
    BY <1>0, <1>1, Beginning
  <2>2. majorCount'[g] = 0
    BY <1>0, <1>1, <2>1 DEF GrabMajors, GrabInv, GrabFilled
  <2>3. 0 <= cmd[g].majors
    <3>1. g \in DOMAIN cmd /\ cmd \in Sessions
      BY <1>1 DEF Start, FindTags, SharedTyped, GrabInv, GrabTyped
    <3>2. cmd[g] \in [majors : Nat, minors : Nat]
      BY <3>1, GrabConstants DEF GrabConstants
    <3> QED BY <3>2
  <2>4. CountedMajors(g)' = {}
    BY <2>1 DEF CountedMajors
  <2>5. IsFiniteSet(CountedMajors(g)') /\ Cardinality(CountedMajors(g)') = 0
    BY <2>4, FS_EmptySet
  <2>6. majorCount'[g] <= cmd'[g].majors
    BY <1>0, <2>2, <2>3
  <2>7. Cardinality(CountedMajors(g)') <= majorCount'[g]
    BY <2>2, <2>5
  <2>8. at'[g] \notin Active \cup {"count"}
    BY <2>1 DEF Active
  <2> QED BY <2>1, <2>2, <2>5, <2>6, <2>7, <2>8 DEF GrabMajors
<1>2. CASE Iterate(g) /\ ~Same(g)
  <2>1. /\ at[g] = "loop" /\ majorCount[g] < cmd[g].majors /\ wrote'[g] = wrote[g]
        /\ last'[g] = last[g] /\ majorCount'[g] = majorCount[g] /\ at'[g] \in {"count", "chromium"}
        /\ ver'[g] \in vers[g] /\ (ver[g] # <<>> => ver'[g][1] <= ver[g][1])
    BY <1>0, <1>2, NextVersion
  <2>2. ver'[g] # <<>> /\ ver'[g][1] \in Nat /\ (ver[g] # <<>> => ver[g][1] \in Nat)
    BY <2>1, VersionsOf
  <2>3. last[g] # 0 => ver'[g][1] <= last[g]
    BY <1>0, <2>1, <2>2 DEF GrabMajors
  <2>4. CountedMajors(g)' = CountedMajors(g)
    BY <2>1 DEF CountedMajors, MajorsOf
  <2>5. \A f \in wrote[g] : last[g] # 0 /\ last[g] <= f[1][1]
    BY <2>1 DEF GrabMajors
  <2> QED BY <1>0, <2>1, <2>2, <2>3, <2>4, <2>5 DEF GrabMajors, Active
<1>3. CASE Write(g)
  <2>1. /\ at[g] = "write" /\ at'[g] = "count" /\ ver'[g] = ver[g] /\ wrote'[g] = wrote[g] \cup {Out(g)}
        /\ last'[g] = last[g] /\ majorCount'[g] = majorCount[g] /\ ver[g] # <<>> /\ ver[g][1] \in Nat
        /\ Out(g)[1][1] = ver[g][1]
    BY <1>3, Writing
  <2>2. majorCount[g] < cmd[g].majors
    BY <2>1 DEF GrabMajors, Active
  <2>3. CountedMajors(g)' = CountedMajors(g)
    <3>1. MajorsOf(g)' = MajorsOf(g) \cup {ver[g][1]}
      BY <2>1 DEF MajorsOf
    <3>2. CASE last[g] = 0
      BY <2>1, <3>2 DEF CountedMajors
    <3>3. CASE last[g] # 0
      <4>1. ver[g][1] <= last[g]
        BY <3>3 DEF GrabMajors
      <4>2. last[g] <= ver[g][1] => last[g] = ver[g][1]
        BY <1>0, <2>1, <4>1
      <4> QED BY <2>1, <3>1, <3>3, <4>2 DEF CountedMajors
    <3> QED BY <3>2, <3>3
  <2>4. \A f \in wrote'[g] : \/ last[g] # 0 /\ last[g] <= f[1][1]
                             \/ f[1][1] = ver[g][1]
    BY <2>1 DEF GrabMajors
  <2> QED BY <1>0, <2>1, <2>2, <2>3, <2>4 DEF GrabMajors, Active
<1>4. CASE Count(g)
  <2>1. /\ at[g] = "count" /\ at'[g] = "loop" /\ ver'[g] = ver[g] /\ wrote'[g] = wrote[g] /\ last'[g] = ver[g][1]
        /\ \/ last[g] = ver[g][1] /\ majorCount'[g] = majorCount[g]
           \/ last[g] # ver[g][1] /\ majorCount'[g] = majorCount[g] + 1
        /\ ver[g] # <<>> /\ ver[g][1] \in Nat /\ ver[g][1] >= 67
    BY <1>4, Counting
  <2>2. majorCount[g] < cmd[g].majors /\ cmd[g].majors \in Nat
    BY <1>0, <2>1 DEF GrabMajors
  <2>3. \A f \in wrote[g] : ver[g][1] <= f[1][1]
    BY VersionsOf
  <2>4. IsFiniteSet(CountedMajors(g)') /\ Cardinality(CountedMajors(g)') <= majorCount'[g]
    <3>1. CASE last[g] = ver[g][1]
      <4>1. CountedMajors(g)' = CountedMajors(g) /\ majorCount'[g] = majorCount[g]
        BY <2>1, <3>1 DEF CountedMajors, MajorsOf
      <4> QED BY <4>1 DEF GrabMajors
    <3>2. CASE last[g] # ver[g][1]
      <4>1. CountedMajors(g)' \subseteq CountedMajors(g) \cup {ver[g][1]}
        <5>1. CountedMajors(g)' \subseteq MajorsOf(g) \cup {ver[g][1]}
          BY <2>1 DEF CountedMajors, MajorsOf
        <5>2. \A m \in MajorsOf(g) : (last[g] # 0 /\ last[g] <= m) \/ m = ver[g][1]
          BY DEF GrabMajors, MajorsOf
        <5> QED BY <5>1, <5>2 DEF CountedMajors
      <4>2. /\ IsFiniteSet(CountedMajors(g) \cup {ver[g][1]})
            /\ Cardinality(CountedMajors(g) \cup {ver[g][1]}) <= Cardinality(CountedMajors(g)) + 1
            /\ Cardinality(CountedMajors(g)) \in Nat /\ Cardinality(CountedMajors(g) \cup {ver[g][1]}) \in Nat
        BY AtMostOneMore DEF GrabMajors
      <4>3. /\ IsFiniteSet(CountedMajors(g)')
            /\ Cardinality(CountedMajors(g)') <= Cardinality(CountedMajors(g) \cup {ver[g][1]})
            /\ Cardinality(CountedMajors(g)') \in Nat
        BY <4>1, <4>2, FS_Subset, FS_CardinalityType
      <4>4. Cardinality(CountedMajors(g)) <= majorCount[g] /\ majorCount'[g] = majorCount[g] + 1
        BY <2>1, <3>2 DEF GrabMajors
      <4> QED BY <1>0, <4>2, <4>3, <4>4
    <3> QED BY <3>1, <3>2
  <2>5. majorCount'[g] \in Nat /\ majorCount'[g] # 0 /\ majorCount'[g] <= cmd[g].majors
    BY <1>0, <2>1, <2>2 DEF GrabMajors
  <2> QED BY <1>0, <2>1, <2>3, <2>4, <2>5 DEF GrabMajors, Active
<1>5. CASE Same(g)
  <2>1. /\ ver'[g] = ver[g] /\ wrote'[g] = wrote[g] /\ last'[g] = last[g] /\ majorCount'[g] = majorCount[g]
        /\ at[g] \notin {"idle", "failed"} /\ (at'[g] \in Active \cup {"count"} => at[g] \in Active)
        /\ (at[g] = "count" => at'[g] = "failed")
    BY <1>5 DEF Same, Active, Over
  <2>2. CountedMajors(g)' = CountedMajors(g)
    BY <2>1 DEF CountedMajors, MajorsOf
  <2> QED BY <1>0, <2>1, <2>2 DEF GrabMajors
<1> QED BY <1>1, <1>2, <1>3, <1>4, <1>5, Kinds

-----------------------------------------------------------------------------
LEMMA FilesFinite ==
  ASSUME GrabInv, NEW g \in Grabber, NEW m
  PROVE  IsFiniteSet(FilesOf(g, m)) /\ Cardinality(FilesOf(g, m)) \in Nat
<1>1. IsFiniteSet(wrote[g]) /\ FilesOf(g, m) \subseteq wrote[g]
  BY DEF GrabInv, GrabOrdered, FilesOf
<1> QED BY <1>1, FS_Subset, FS_CardinalityType

(* While a version is worked on, a new major has no files yet.              *)
LEMMA NewMajorEmpty ==
  ASSUME GrabInv, NEW g \in Grabber, GrabMajors(g), NEW v \in Nat,
         at[g] \notin {"count", "failed"}, last[g] # v, last[g] # 0 => v <= last[g]
  PROVE  FilesOf(g, v) = {}
<1>1. \A f \in wrote[g] : last[g] # 0 /\ last[g] <= f[1][1]
  BY DEF GrabMajors
<1>2. last[g] \in Nat
  BY DEF GrabInv, GrabTyped
<1>3. \A f \in wrote[g] : f[1][1] # v
  BY <1>1, <1>2
<1> QED BY <1>3 DEF FilesOf

LEMMA FilesStep ==
  ASSUME SharedTyped, GrabInv, NEW g \in Grabber, GrabPasses(g), GrabMajors(g), GrabFiles(g), GrabRuns(g)
  PROVE  GrabFiles(g)'
<1>0. /\ cmd' = cmd /\ last[g] \in Nat /\ majorCount[g] \in Nat /\ minorCount[g] \in Nat
      /\ at[g] # "idle" => cmd[g].minors \in Nat
      /\ (last[g] # 0 => ver[g] # <<>> /\ ver[g][1] <= last[g])
  BY Flags DEF GrabRuns, GrabInv, GrabTyped, GrabMajors
<1>1. CASE Start(g) \/ FindTags(g)
  <2>1. at'[g] \in {"refs", "loop"} /\ wrote'[g] = {} /\ last'[g] = 0
    BY <1>0, <1>1, Beginning
  <2> QED BY <2>1 DEF GrabFiles, MajorsOf
<1>2. CASE Iterate(g) /\ ~Same(g)
  <2>1. /\ at[g] = "loop" /\ wrote'[g] = wrote[g] /\ last'[g] = last[g] /\ minorCount'[g] = minorCount[g]
        /\ at'[g] = "count" => minorCount[g] >= cmd[g].minors
        /\ ver'[g] \in vers[g] /\ (ver[g] # <<>> => ver'[g][1] <= ver[g][1])
    BY <1>0, <1>2, NextVersion
  <2>2. ver'[g][1] \in Nat /\ (ver[g] # <<>> => ver[g][1] \in Nat)
    BY <2>1, VersionsOf
  <2>3. last[g] # 0 => ver'[g][1] <= last[g]
    BY <1>0, <2>1, <2>2
  <2>4. last[g] # ver'[g][1] => FilesOf(g, ver'[g][1]) = {}
    BY <2>1, <2>2, <2>3, NewMajorEmpty
  <2>5. at'[g] = "count" => cmd[g].minors = 0 \/ wrote[g] # {}
    <3>1. SUFFICES ASSUME at'[g] = "count", wrote[g] = {} PROVE cmd[g].minors = 0
      OBVIOUS
    <3>2. minorCount[g] <= 0
      BY <3>1, FS_EmptySet DEF GrabInv, GrabOrdered
    <3> QED BY <1>0, <2>1, <3>1, <3>2
  <2>6. \A m : FilesOf(g, m)' = FilesOf(g, m) /\ Later(g, m)' = Later(g, m)
    BY <2>1 DEF FilesOf, Later, MajorsOf
  <2>7. (at[g] = "count" /\ last[g] # ver[g][1] => FilesOf(g, ver[g][1]) = {})'
    BY <2>1, <2>4 DEF FilesOf
  <2>8. (last[g] # 0 => Cardinality(FilesOf(g, last[g])) <= minorCount[g] + Later(g, last[g]))'
    BY <2>1 DEF GrabFiles, FilesOf, Later, MajorsOf
  <2>9. (\A m \in MajorsOf(g) : Cardinality(FilesOf(g, m)) <= cmd[g].minors + Later(g, m))'
    BY <1>0, <2>1 DEF GrabFiles, FilesOf, Later, MajorsOf
  <2>10. /\ (wrote[g] # {} => cmd[g].minors >= 1)'
         /\ (last[g] # 0 => cmd[g].minors = 0 \/ \E f \in wrote[g] : last[g] <= f[1][1])'
         /\ (at[g] = "count" => cmd[g].minors = 0 \/ wrote[g] # {})'
    BY <1>0, <2>1, <2>5 DEF GrabFiles
  <2> QED BY <2>7, <2>8, <2>9, <2>10 DEF GrabFiles
<1>3. CASE Write(g)
  <2>1. /\ at[g] = "write" /\ at'[g] = "count" /\ ver'[g] = ver[g] /\ v8ver'[g] = v8ver[g]
        /\ wrote'[g] = wrote[g] \cup {Out(g)}
        /\ last'[g] = last[g] /\ minorCount'[g] = minorCount[g] + 1
        /\ ver[g] # <<>> /\ ver[g][1] \in Nat /\ ver[g][1] >= 67 /\ Out(g) = <<ver[g], v8ver[g]>>
    BY <1>3, Writing
  <2>2. Out(g)[1][1] = ver[g][1] /\ Out(g)' = Out(g)
    BY <2>1 DEF Out
  <2>3. cmd[g].minors \in Nat /\ minorCount[g] < cmd[g].minors
    BY <1>0, <2>1 DEF GrabPasses, Active
  <2>4. \A m : FilesOf(g, m)' = IF m = ver[g][1] THEN FilesOf(g, m) \cup {Out(g)} ELSE FilesOf(g, m)
    BY <2>1, <2>2 DEF FilesOf
  <2>5. MajorsOf(g)' = MajorsOf(g) \cup {ver[g][1]}
    BY <2>1, <2>2 DEF MajorsOf
  <2>6. \A m : Later(g, m) \in Nat /\ Later(g, m)' \in Nat /\ Later(g, m) <= Later(g, m)'
    BY <2>5 DEF Later
  <2>7. \A m : m = ver[g][1] /\ last[g] # m => FilesOf(g, m)' = {Out(g)}
    BY <1>0, <2>1, <2>4, NewMajorEmpty
  <2>8. \A m : Cardinality(FilesOf(g, m)) \in Nat
    BY FilesFinite
  <2>9. \A m : /\ Cardinality(FilesOf(g, m) \cup {Out(g)}) \in Nat
              /\ Cardinality(FilesOf(g, m) \cup {Out(g)}) <= Cardinality(FilesOf(g, m)) + 1
    BY FilesFinite, AtMostOneMore
  <2>10. last[g] # 0 => Cardinality(FilesOf(g, last[g])') <= minorCount'[g] + Later(g, last[g])'
    <3>1. SUFFICES ASSUME last[g] # 0 PROVE Cardinality(FilesOf(g, last[g])') <= minorCount'[g] + Later(g, last[g])'
      OBVIOUS
    <3>2. Cardinality(FilesOf(g, last[g])) <= minorCount[g] + Later(g, last[g])
      BY <3>1 DEF GrabFiles
    <3>3. FilesOf(g, last[g])' = IF last[g] = ver[g][1] THEN FilesOf(g, last[g]) \cup {Out(g)} ELSE FilesOf(g, last[g])
      BY <2>1, <2>2 DEF FilesOf
    <3>4. /\ Cardinality(FilesOf(g, last[g])') \in Nat
          /\ Cardinality(FilesOf(g, last[g])') <= Cardinality(FilesOf(g, last[g])) + 1
      <4>1. CASE last[g] = ver[g][1]
        BY <2>9, <3>3, <4>1
      <4>2. CASE last[g] # ver[g][1]
        BY <2>8, <3>3, <4>2
      <4> QED BY <4>1, <4>2
    <3> QED BY <1>0, <2>1, <2>6, <2>8, <3>2, <3>4
  <2>11. ASSUME NEW m \in MajorsOf(g)' PROVE Cardinality(FilesOf(g, m)') <= cmd[g].minors + Later(g, m)'
    <3>1. CASE m # ver[g][1]
      <4>1. m \in MajorsOf(g) /\ FilesOf(g, m)' = FilesOf(g, m)
        BY <2>4, <2>5, <3>1
      <4>2. Cardinality(FilesOf(g, m)) <= cmd[g].minors + Later(g, m)
        BY <4>1 DEF GrabFiles
      <4> QED BY <2>3, <2>6, <2>8, <4>1, <4>2
    <3>2. CASE m = ver[g][1] /\ last[g] = ver[g][1]
      <4>1. Cardinality(FilesOf(g, m)) <= minorCount[g] + Later(g, m)
        BY <2>1, <3>2 DEF GrabFiles
      <4>2. /\ Cardinality(FilesOf(g, m)') \in Nat
            /\ Cardinality(FilesOf(g, m)') <= Cardinality(FilesOf(g, m)) + 1
        BY <2>4, <2>9, <3>2
      <4> QED BY <1>0, <2>3, <2>6, <2>8, <4>1, <4>2
    <3>3. CASE m = ver[g][1] /\ last[g] # ver[g][1]
      <4>1. Cardinality(FilesOf(g, m)') = 1
        BY <2>7, <3>3, FS_Singleton
      <4>2. cmd[g].minors >= 1
        BY <1>0, <2>3
      <4> QED BY <2>3, <2>6, <4>1, <4>2
    <3> QED BY <3>1, <3>2, <3>3
  <2>12. (at[g] = "count" /\ last[g] # ver[g][1] =>
           \/ FilesOf(g, ver[g][1]) = {}
           \/ FilesOf(g, ver[g][1]) = {Out(g)} /\ minorCount[g] >= 1)'
    <3>1. minorCount'[g] >= 1
      BY <1>0, <2>1
    <3>2. last[g] # ver[g][1] => {f \in wrote'[g] : f[1][1] = ver[g][1]} = {Out(g)}
      <4>1. \A m : m = ver[g][1] /\ last[g] # m => {f \in wrote'[g] : f[1][1] = m} = {Out(g)}
        BY <2>7 DEF FilesOf
      <4> QED BY <4>1
    <3> QED BY <2>1, <2>2, <3>1, <3>2 DEF FilesOf
  <2>13. (last[g] # 0 => Cardinality(FilesOf(g, last[g])) <= minorCount[g] + Later(g, last[g]))'
    BY <2>1, <2>10 DEF FilesOf, Later, MajorsOf
  <2>14. (\A m \in MajorsOf(g) : Cardinality(FilesOf(g, m)) <= cmd[g].minors + Later(g, m))'
    BY <1>0, <2>11
  <2>15. /\ (wrote[g] # {} => cmd[g].minors >= 1)'
         /\ (last[g] # 0 => cmd[g].minors = 0 \/ \E f \in wrote[g] : last[g] <= f[1][1])'
         /\ (at[g] = "count" => cmd[g].minors = 0 \/ wrote[g] # {})'
    BY <1>0, <2>1, <2>3 DEF GrabFiles
  <2> QED BY <2>12, <2>13, <2>14, <2>15 DEF GrabFiles
<1>4. CASE Count(g)
  <2>1. /\ at[g] = "count" /\ at'[g] = "loop" /\ ver'[g] = ver[g] /\ wrote'[g] = wrote[g] /\ last'[g] = ver[g][1]
        /\ \/ last[g] = ver[g][1] /\ minorCount'[g] = minorCount[g]
           \/ last[g] # ver[g][1] /\ minorCount'[g] = IF majorCount[g] # 0 THEN 0 ELSE minorCount[g]
        /\ ver[g][1] \in Nat /\ ver[g][1] >= 67
    BY <1>4, Counting
  <2>2. cmd[g].minors = 0 \/ \E f \in wrote[g] : ver[g][1] <= f[1][1]
    <3>1. cmd[g].minors = 0 \/ wrote[g] # {}
      BY <2>1 DEF GrabFiles
    <3> QED BY <3>1, VersionsOf
  <2>3. \A m : FilesOf(g, m)' = FilesOf(g, m) /\ Later(g, m)' = Later(g, m) /\ Later(g, m) \in {0, 1}
    BY <2>1 DEF FilesOf, Later, MajorsOf
  <2>4. Cardinality(FilesOf(g, ver[g][1])) <= minorCount'[g] + Later(g, ver[g][1])
    <3>1. CASE last[g] = ver[g][1]
      <4>1. last[g] # 0 /\ minorCount'[g] = minorCount[g]
        BY <2>1, <3>1
      <4> QED BY <3>1, <4>1 DEF GrabFiles
    <3>2. CASE last[g] # ver[g][1] /\ FilesOf(g, ver[g][1]) = {}
      <4>1. Cardinality(FilesOf(g, ver[g][1])) = 0 /\ minorCount'[g] \in Nat
        BY <1>0, <2>1, <3>2, FS_EmptySet
      <4> QED BY <2>3, <4>1
    <3>3. CASE last[g] # ver[g][1] /\ FilesOf(g, ver[g][1]) # {}
      <4>1. FilesOf(g, ver[g][1]) = {Out(g)} /\ minorCount[g] >= 1
        BY <2>1, <3>3 DEF GrabFiles
      <4>2. Cardinality(FilesOf(g, ver[g][1])) = 1
        BY <4>1, FS_Singleton
      <4>3. CASE majorCount[g] = 0
        <5>1. minorCount'[g] = minorCount[g]
          BY <2>1, <3>3, <4>3
        <5> QED BY <1>0, <2>3, <4>1, <4>2, <5>1
      <4>4. CASE majorCount[g] # 0
        <5>1. last[g] # 0 /\ cmd[g].minors # 0
          <6>1. last[g] # 0
            BY <4>4 DEF GrabMajors
          <6>2. wrote[g] # {}
            BY <4>1 DEF FilesOf
          <6>3. cmd[g].minors >= 1 /\ cmd[g].minors \in Nat
            BY <1>0, <2>1, <6>2 DEF GrabFiles
          <6> QED BY <6>1, <6>3
        <5>2. PICK f \in wrote[g] : last[g] <= f[1][1]
          BY <5>1 DEF GrabFiles
        <5>3. f[1][1] > ver[g][1]
          BY <1>0, <2>1, <3>3, <5>1, <5>2, VersionsOf
        <5>4. Later(g, ver[g][1]) = 1
          BY <5>3 DEF Later, MajorsOf
        <5>5. minorCount'[g] \in Nat
          BY <1>0, <2>1
        <5> QED BY <4>2, <5>4, <5>5
      <4> QED BY <4>3, <4>4
    <3> QED BY <3>1, <3>2, <3>3
  <2>5. (last[g] # 0 => Cardinality(FilesOf(g, last[g])) <= minorCount[g] + Later(g, last[g]))'
    BY <2>1, <2>4 DEF FilesOf, Later, MajorsOf
  <2>6. (\A m \in MajorsOf(g) : Cardinality(FilesOf(g, m)) <= cmd[g].minors + Later(g, m))'
    BY <1>0, <2>1 DEF GrabFiles, FilesOf, Later, MajorsOf
  <2> QED BY <1>0, <2>1, <2>2, <2>5, <2>6 DEF GrabFiles
<1>5. CASE Same(g)
  <2>1. /\ wrote'[g] = wrote[g] /\ last'[g] = last[g] /\ minorCount'[g] = minorCount[g] /\ at'[g] # "count"
    BY <1>5 DEF Same, Active
  <2>2. (\A m \in MajorsOf(g) : Cardinality(FilesOf(g, m)) <= cmd[g].minors + Later(g, m))'
    BY <1>0, <2>1 DEF GrabFiles, FilesOf, Later, MajorsOf
  <2>3. (last[g] # 0 => Cardinality(FilesOf(g, last[g])) <= minorCount[g] + Later(g, last[g]))'
    BY <2>1 DEF GrabFiles, FilesOf, Later, MajorsOf
  <2> QED BY <1>0, <2>1, <2>2, <2>3 DEF GrabFiles
<1> QED BY <1>1, <1>2, <1>3, <1>4, <1>5, Kinds

-----------------------------------------------------------------------------
LEMMA CountsInitially == Init => GrabCounts
<1> SUFFICES ASSUME Init, NEW g \in Grabber PROVE GrabPasses(g) /\ GrabMajors(g) /\ GrabFiles(g)
  BY DEF GrabCounts
<1>1. at[g] = "idle" /\ ver[g] = <<>> /\ wrote[g] = {} /\ last[g] = 0 /\ majorCount[g] = 0
  BY DEF Init, GrabInit
<1>2. CountedMajors(g) = {} /\ IsFiniteSet({}) /\ Cardinality({}) = 0
  BY <1>1, FS_EmptySet DEF CountedMajors
<1> QED BY <1>1, <1>2 DEF GrabPasses, Passed, PassedOver, GrabMajors, GrabFiles, MajorsOf, Active

(* Nothing but the run itself touches what it counts.                       *)
LEMMA CountsStep ==
  ASSUME Inv, GrabCounts, [Next]_vars
  PROVE  GrabCounts'
<1> SUFFICES ASSUME NEW g \in Grabber PROVE (GrabPasses(g) /\ GrabMajors(g) /\ GrabFiles(g))'
  BY DEF GrabCounts
<1>1. GrabPasses(g) /\ GrabMajors(g) /\ GrabFiles(g) /\ SharedTyped /\ GrabInv /\ GrabTyped
  BY DEF GrabCounts, Inv, GrabInv
<1>2. CASE GrabRuns(g)
  <2>1. last[g] # 0 => ver[g] # <<>>
    BY <1>1 DEF GrabMajors
  <2> QED BY <1>1, <1>2, <2>1, PassesStep, MajorsStep, FilesStep
<1>3. CASE ~GrabRuns(g)
  <2>1. /\ at'[g] = at[g] /\ vers'[g] = vers[g] /\ ver'[g] = ver[g] /\ v8ver'[g] = v8ver[g] /\ wrote'[g] = wrote[g]
        /\ last'[g] = last[g] /\ majorCount'[g] = majorCount[g] /\ minorCount'[g] = minorCount[g] /\ cmd' = cmd
    <3>1. CASE UNCHANGED <<cmd, grabVars>>
      BY <3>1 DEF grabVars, counters, buffers
    <3>2. ASSUME NEW h \in Grabber, GrabRuns(h)
          PROVE  /\ at'[g] = at[g] /\ vers'[g] = vers[g] /\ ver'[g] = ver[g] /\ v8ver'[g] = v8ver[g]
                 /\ wrote'[g] = wrote[g] /\ last'[g] = last[g] /\ majorCount'[g] = majorCount[g]
                 /\ minorCount'[g] = minorCount[g] /\ cmd' = cmd
      <4>1. g # h /\ cmd' = cmd
        BY <1>3, <3>2 DEF GrabRuns
      <4> QED BY <1>1, <3>2, <4>1, GrabFrame
    <3> QED BY <3>1, <3>2 DEF Next, MainRuns, TimePasses, Tick, vars
  <2>2. GrabPasses(g)'
    BY <1>1, <2>1 DEF GrabPasses, Passed, PassedOver, NotNewest, Written
  <2>3. GrabMajors(g)'
    BY <1>1, <2>1 DEF GrabMajors, CountedMajors, MajorsOf
  <2>4. GrabFiles(g)'
    BY <1>1, <2>1 DEF GrabFiles, FilesOf, MajorsOf, Later, Out
  <2> QED BY <2>2, <2>3, <2>4
<1> QED BY <1>2, <1>3

LEMMA CountsAlways == Spec => [](Inv /\ GrabCounts)
<1>1. Init => Inv /\ GrabCounts
  BY Initially, CountsInitially
<1>2. Inv /\ GrabCounts /\ [Next]_vars => Inv' /\ GrabCounts'
  BY Step, CountsStep
<1> QED BY <1>1, <1>2, PTL DEF Spec

(* What grab.go passes over while it writes older versions of the major is  *)
(* the newest one, or has a word as the tag of its V8.                      *)
THEOREM NewestPassedOver == Spec => []OnlyNewestPassedOver
<1>1. Inv /\ GrabCounts => OnlyNewestPassedOver
  <2> SUFFICES ASSUME Inv, GrabCounts, NEW g \in Grabber, NEW f \in wrote[g], NEW c \in vers[g],
                      c[1] = f[1][1], CompareSemver(f[1], c), \A w \in V8 : <<c, w>> \notin wrote[g],
                      ~Unnumbered(c), NEW u \in vers[g], u[1] = c[1], CompareSemver(c, u)
               PROVE  Unnumbered(u)
    BY DEF OnlyNewestPassedOver
  <2>1. PassedOver(g)
    BY DEF GrabCounts, GrabPasses
  <2>2. ~NotNewest(g, c)
    BY <2>1 DEF PassedOver, Written
  <2> QED BY <2>2 DEF NotNewest
<1> QED BY <1>1, CountsAlways, PTL

(* There are files of no more majors than -major-count says, and of each no *)
(* more than -minor-count says, but for the one that counted for the major  *)
(* before.                                                                  *)
THEOREM CountsAreBounded == Spec => []CountsBounded
<1>1. Inv /\ GrabCounts => CountsBounded
  <2> SUFFICES ASSUME Inv, GrabCounts, NEW g \in Grabber \cap DOMAIN cmd
               PROVE  /\ Cardinality(MajorsOf(g)) <= cmd[g].majors
                      /\ \A m \in MajorsOf(g) : Cardinality(FilesOf(g, m)) <= cmd[g].minors + Later(g, m)
    BY DEF CountsBounded, Later
  <2>1. GrabMajors(g) /\ GrabFiles(g) /\ GrabInv /\ SharedTyped
    BY DEF GrabCounts, Inv
  <2>2. cmd[g] \in [majors : Nat, minors : Nat]
    BY <2>1, GrabConstants DEF SharedTyped, GrabConstants
  <2>3. majorCount[g] \in Nat /\ last[g] \in Nat
    BY <2>1 DEF GrabInv, GrabTyped
  <2>4. CASE at[g] = "idle"
    <3>1. MajorsOf(g) = {}
      BY <2>1, <2>4 DEF GrabInv, GrabFilled, MajorsOf
    <3> QED BY <2>1, <2>2, <3>1, FS_EmptySet DEF GrabFiles
  <2>5. CASE at[g] # "idle" /\ MajorsOf(g) \subseteq CountedMajors(g)
    <3>1. /\ Cardinality(MajorsOf(g)) <= Cardinality(CountedMajors(g))
          /\ Cardinality(MajorsOf(g)) \in Nat /\ Cardinality(CountedMajors(g)) \in Nat
      BY <2>1, <2>5, FS_Subset, FS_CardinalityType DEF GrabMajors
    <3> QED BY <2>1, <2>2, <2>3, <2>5, <3>1 DEF GrabMajors, GrabFiles
  <2>6. CASE at[g] # "idle" /\ ~(MajorsOf(g) \subseteq CountedMajors(g))
    <3>1. \A m \in MajorsOf(g) :
            m \in CountedMajors(g) \/ (m = ver[g][1] /\ majorCount[g] < cmd[g].majors)
      BY <2>1 DEF GrabMajors, MajorsOf, CountedMajors
    <3>2. MajorsOf(g) \subseteq CountedMajors(g) \cup {ver[g][1]} /\ majorCount[g] < cmd[g].majors
      BY <2>6, <3>1
    <3>3. /\ IsFiniteSet(CountedMajors(g) \cup {ver[g][1]})
          /\ Cardinality(CountedMajors(g) \cup {ver[g][1]}) <= Cardinality(CountedMajors(g)) + 1
          /\ Cardinality(CountedMajors(g)) \in Nat /\ Cardinality(CountedMajors(g) \cup {ver[g][1]}) \in Nat
      BY <2>1, AtMostOneMore DEF GrabMajors
    <3>4. /\ Cardinality(MajorsOf(g)) <= Cardinality(CountedMajors(g) \cup {ver[g][1]})
          /\ Cardinality(MajorsOf(g)) \in Nat
      BY <3>2, <3>3, FS_Subset, FS_CardinalityType
    <3>5. Cardinality(CountedMajors(g)) <= majorCount[g]
      BY <2>1 DEF GrabMajors
    <3>6. Cardinality(MajorsOf(g)) <= cmd[g].majors
      BY <2>2, <2>3, <3>2, <3>3, <3>4, <3>5
    <3> QED BY <2>1, <3>6 DEF GrabFiles
  <2> QED BY <2>4, <2>5, <2>6
<1> QED BY <1>1, CountsAlways, PTL

===============================================================================
