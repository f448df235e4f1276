------------------------------- MODULE Semver -------------------------------
(***************************************************************************)
(* Version numbers and their order: util/semver.go on top of the semver    *)
(* library, and the order of combined files in main.go.                    *)
(*                                                                         *)
(* A tag is the sequence of its numbers; one that is a word stands as a    *)
(* sequence of a single number.                                            *)
(***************************************************************************)
EXTENDS Integers, Sequences

(* VerRE: three numbers or four. *)
IsVersion(tag) == Len(tag) \in {3, 4}

Version == {v \in Seq(Nat) : IsVersion(v)}

NoPrerelease == -1

(* The last of four numbers becomes a prerelease of the first three. *)
MakeSemver(v) ==
  [major |-> v[1], minor |-> v[2], patch |-> v[3],
   pre |-> IF Len(v) = 4 THEN v[4] ELSE NoPrerelease]

(* The order of the library: a prerelease comes before what it leads to. *)
LessThan(s, t) ==
  \/ s.major < t.major
  \/ s.major = t.major /\ s.minor < t.minor
  \/ s.major = t.major /\ s.minor = t.minor /\ s.patch < t.patch
  \/ /\ s.major = t.major /\ s.minor = t.minor /\ s.patch = t.patch
     /\ s.pre # NoPrerelease
     /\ t.pre = NoPrerelease \/ s.pre < t.pre

CompareSemver(a, b) == LessThan(MakeSemver(a), MakeSemver(b))

(* The last of the versions, sorted, if there are any. *)
Newest(vers) == {v \in vers : \A u \in vers \ {v} : CompareSemver(u, v)}

(* The order in which WalkAndCompare sorts the files <<chromium, v8>>. *)
FileOlder(f, g) == IF f[1] = g[1] THEN CompareSemver(f[2], g[2]) ELSE CompareSemver(f[1], g[1])

=============================================================================
