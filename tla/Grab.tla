-------------------------------- MODULE Grab --------------------------------
(***************************************************************************)
(* grab.go: it writes the combined files of the newest versions of the     *)
(* last majors, newest first, and keeps two counters on the way.           *)
(***************************************************************************)
EXTENDS Sources

CONSTANT Grabber  \* the invocations of grab.go

(* -major-count and -minor-count. *)
ASSUME GrabConstants ==
  /\ Grabber \subseteq Proc
  /\ \A s \in Sessions : \A g \in Grabber \cap DOMAIN s : s[g] \in [majors : Nat, minors : Nat]

VARIABLES
  at,        \* where each invocation is in run
  vers,      \* the versions it has found
  last, majorCount, minorCount,
  ver,       \* the version it is at, vers[i]
  v8ver,     \* the tag of V8 it has found for it
  chromiumBuf, v8Buf,
  wrote      \* the files it has written

counters == <<last, majorCount, minorCount>>
buffers == <<v8ver, chromiumBuf, v8Buf>>
grabVars == <<at, vers, counters, ver, buffers, wrote>>

Places == {"idle", "refs", "loop", "chromium", "deps", "find", "v8", "open", "write", "count",
           "done", "failed", "untagged"}

Over == {"idle", "done", "failed", "untagged"}

Out(g) == <<ver[g], v8ver[g]>>

NewRun(g) ==
  /\ vers' = [vers EXCEPT ![g] = {}]
  /\ last' = [last EXCEPT ![g] = 0]
  /\ majorCount' = [majorCount EXCEPT ![g] = 0]
  /\ minorCount' = [minorCount EXCEPT ![g] = 0]
  /\ ver' = [ver EXCEPT ![g] = <<>>]
  /\ v8ver' = [v8ver EXCEPT ![g] = <<>>]
  /\ chromiumBuf' = [chromiumBuf EXCEPT ![g] = NoFile]
  /\ v8Buf' = [v8Buf EXCEPT ![g] = NoFile]
  /\ wrote' = [wrote EXCEPT ![g] = {}]

GrabInit ==
  /\ at = [g \in Grabber |-> "idle"]
  /\ vers = [g \in Grabber |-> {}]
  /\ last = [g \in Grabber |-> 0]
  /\ majorCount = [g \in Grabber |-> 0]
  /\ minorCount = [g \in Grabber |-> 0]
  /\ ver = [g \in Grabber |-> <<>>]
  /\ v8ver = [g \in Grabber |-> <<>>]
  /\ chromiumBuf = [g \in Grabber |-> NoFile]
  /\ v8Buf = [g \in Grabber |-> NoFile]
  /\ wrote = [g \in Grabber |-> {}]

-----------------------------------------------------------------------------
Goto(g, place) == at' = [at EXCEPT ![g] = place]

(* A run begins, the first or after another. *)
Start(g) ==
  /\ g \in DOMAIN cmd /\ at[g] \in Over
  /\ Goto(g, "refs")
  /\ NewRun(g)
  /\ UNCHANGED combined

(* Faulty variant of Fail: the run begins again by itself. *)
FailAgain(g) ==
  /\ at[g] \in {"chromium", "deps", "find", "v8", "open"}
  /\ Goto(g, "refs")
  /\ NewRun(g)
  /\ UNCHANGED combined

(* Faulty variant of Fail: an error ends only the work on this version. *)
FailSkips(g) ==
  /\ at[g] \in {"chromium", "deps", "find", "v8", "open"}
  /\ Goto(g, "count")
  /\ UNCHANGED <<combined, vers, counters, ver, buffers, wrote>>

(* An error ends the run, or a kill: what is on disk stays. *)
Fail(g) ==
  /\ at[g] \in {"refs", "chromium", "deps", "find", "v8", "open"} \/ (g \in Faulty /\ at[g] \notin Over)
  /\ Goto(g, "failed")
  /\ UNCHANGED <<combined, vers, counters, ver, buffers, wrote>>

(* GetRefs, and the versions among the tags. *)
FindTags(g) ==
  /\ at[g] = "refs"
  /\ \E tags \in Refs(g, "refs/chromium.json", Chromium) :
       vers' = [vers EXCEPT ![g] = {t \in tags : IsVersion(t)}]
  /\ Goto(g, "loop")
  /\ UNCHANGED <<combined, counters, ver, buffers, wrote>>

(* Faulty variant of Skip: one file more. *)
SkipLate(g) == minorCount[g] > cmd[g].minors

Skip(g) == minorCount[g] >= cmd[g].minors

(* The head of the loop: the newest version of those that are left. *)
Iterate(g) ==
  /\ at[g] = "loop"
  /\ LET left == {v \in vers[g] : ver[g] = <<>> \/ CompareSemver(v, ver[g])}
     IN  \/ /\ left = {} \/ majorCount[g] >= cmd[g].majors \/ \E v \in Newest(left) : v[1] < 67
            /\ Goto(g, "done") /\ UNCHANGED ver
         \/ /\ majorCount[g] < cmd[g].majors
            /\ \E v \in Newest(left) : v[1] >= 67 /\ ver' = [ver EXCEPT ![g] = v]
            /\ Goto(g, IF Skip(g) THEN "count" ELSE "chromium")
  /\ UNCHANGED <<combined, vers, counters, buffers, wrote>>

GetChromium(g) ==
  /\ at[g] = "chromium"
  /\ \E file \in DefinitionFiles(g, "pdl/chromium", ver[g]) :
       chromiumBuf' = [chromiumBuf EXCEPT ![g] = file]
  /\ Goto(g, "deps")
  /\ UNCHANGED <<combined, vers, counters, ver, v8ver, v8Buf, wrote>>

GetDeps(g) ==
  /\ at[g] = "deps"
  /\ HasRevision(g, ver[g])
  /\ Goto(g, "find")
  /\ UNCHANGED <<combined, vers, counters, ver, buffers, wrote>>

(* No tag has the revision; or one has, and it is a number or a word. *)
FindTag(g) ==
  /\ at[g] = "find"
  /\ \E tags \in Refs(g, "refs/v8.json", V8) :
       IF TagsOf(ver[g], tags) = {}
         THEN Goto(g, "untagged") /\ UNCHANGED v8ver
         ELSE \E w \in TagsOf(ver[g], tags) :
                /\ v8ver' = [v8ver EXCEPT ![g] = w]
                /\ Goto(g, IF IsVersion(w) THEN "v8" ELSE "loop")
  /\ UNCHANGED <<combined, vers, counters, ver, chromiumBuf, v8Buf, wrote>>

(* Faulty variant of GetV8: what was retrieved before is used again. *)
GetV8Once(g) ==
  /\ at[g] = "v8"
  /\ \E file \in IF v8Buf[g] # NoFile THEN {v8Buf[g]} ELSE DefinitionFiles(g, "pdl/v8", v8ver[g]) :
       v8Buf' = [v8Buf EXCEPT ![g] = file]
  /\ Goto(g, "open")
  /\ UNCHANGED <<combined, vers, counters, ver, v8ver, chromiumBuf, wrote>>

GetV8(g) ==
  /\ at[g] = "v8"
  /\ \E file \in DefinitionFiles(g, "pdl/v8", v8ver[g]) : v8Buf' = [v8Buf EXCEPT ![g] = file]
  /\ Goto(g, "open")
  /\ UNCHANGED <<combined, vers, counters, ver, v8ver, chromiumBuf, wrote>>

Open(g) ==
  /\ at[g] = "open"
  /\ OpenFile(Out(g))
  /\ Goto(g, "write")
  /\ UNCHANGED <<vers, counters, ver, buffers, wrote>>

Write(g) ==
  /\ at[g] = "write"
  /\ WriteFile(Out(g), CombineBytes(chromiumBuf[g], v8Buf[g]))
  /\ wrote' = [wrote EXCEPT ![g] = @ \cup {Out(g)}]
  /\ minorCount' = [minorCount EXCEPT ![g] = @ + 1]
  /\ Goto(g, "count")
  /\ UNCHANGED <<vers, last, majorCount, ver, buffers>>

(* Faulty variant of Count: a version that is skipped counts too. *)
CountSkipped(g) ==
  /\ at[g] = "count"
  /\ IF last[g] = ver[g][1]
       THEN minorCount' = [minorCount EXCEPT ![g] = @ + 1] /\ UNCHANGED <<last, majorCount>>
     ELSE /\ last' = [last EXCEPT ![g] = ver[g][1]]
          /\ minorCount' = [minorCount EXCEPT ![g] = IF majorCount[g] # 0 THEN 0 ELSE @]
          /\ majorCount' = [majorCount EXCEPT ![g] = @ + 1]
  /\ Goto(g, "loop")
  /\ UNCHANGED <<combined, vers, ver, buffers, wrote>>

(* The end of the loop: the version may be the first of a major. *)
Count(g) ==
  /\ at[g] = "count"
  /\ IF last[g] = ver[g][1] THEN UNCHANGED counters
     ELSE /\ last' = [last EXCEPT ![g] = ver[g][1]]
          /\ minorCount' = [minorCount EXCEPT ![g] = IF majorCount[g] # 0 THEN 0 ELSE @]
          /\ majorCount' = [majorCount EXCEPT ![g] = @ + 1]
  /\ Goto(g, "loop")
  /\ UNCHANGED <<combined, vers, ver, buffers, wrote>>

GrabStep(g) ==
  \/ Start(g) \/ FindTags(g) \/ Iterate(g) \/ GetChromium(g) \/ GetDeps(g) \/ FindTag(g)
  \/ GetV8(g) \/ Open(g) \/ Write(g) \/ Count(g) \/ Fail(g)

=============================================================================
