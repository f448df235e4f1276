------------------------------ MODULE Sources ------------------------------
(***************************************************************************)
(* What the retrievals of main.go and grab.go have in common: the tags of  *)
(* Chromium and of V8 and the pages about them, the functions of           *)
(* util/util.go that read these pages, and the directory pdl/combined.     *)
(*                                                                         *)
(* Get may always fail; a page that a function cannot use is one of the    *)
(* ways, and so is the panic of GetRefs on a page without a line break.    *)
(***************************************************************************)
EXTENDS Semver, FiniteSets

CONSTANTS
  Proc,       \* the invocations, all with one cache directory
  Sessions,   \* command lines: the flags of the invocations that are made
  Chromium,   \* the tags of Chromium
  V8,         \* the tags of V8
  Published,  \* Published[t]: when tag t appears in the lists
  Revision,   \* Revision[w]: the revision of V8 that tag w is for
  Pinned,     \* Pinned[c]: the revision of V8 in the file DEPS of c
  TTL,        \* TTL[p]: the flag -ttl
  Latency,    \* how long a call of Get may take
  MaxTime,    \* bound on the clock
  Faulty      \* the invocations that may be killed

ASSUME SourceConstants ==
  /\ Chromium \subseteq Version
  /\ V8 \subseteq Seq(Nat)
  /\ Published \in [Chromium \cup V8 -> Nat]
  /\ Revision \in [V8 -> Nat]
  /\ Pinned \in [Chromium -> Nat]
  /\ TTL \in [Proc -> Nat]
  /\ Latency \in Nat
  /\ MaxTime \in Nat
  /\ Faulty \subseteq Proc
  /\ \A s \in Sessions : DOMAIN s \subseteq Proc

VARIABLES
  now,      \* the clock
  cmd,      \* the command lines
  combined  \* the files <<c, w>> of pdl/combined, for c_w.pdl

-----------------------------------------------------------------------------
(* Cache entries: a directory or a file, and a tag where there are several. *)
Lists == {"refs/chromium.json", "refs/v8.json", "html/chromium.html", "html/v8.html"}

Files == ({"deps/chromium", "pdl/chromium"} \X Chromium) \cup ({"pdl/v8"} \X V8)

INSTANCE Pages WITH Key <- (Lists \X {<<>>}) \cup Files, Decoded <- Files, Alone <- {}

(* What Get may hand p for an entry: a file only when its tag exists. *)
Handed(p, dir, tag) ==
  {page \in [key : {<<dir, tag>>}, kind : {"full", "error", "empty", "torn"}, asof : 0 .. now] :
     /\ MayGet(p, page)
     /\ page.kind = "full" /\ tag # <<>> => Published[tag] <= page.asof}

Listed(tags, page) == {t \in tags : Published[t] <= page.asof}

(* GetLatestVersion: a page cut short is still a list, of fewer tags. *)
LatestVersions(p, dir, tags) ==
  UNION {LET vers == {t \in Listed(tags, page) : IsVersion(t)}
         IN  CASE page.kind = "full" -> Newest(vers)
               [] page.kind = "torn" -> vers
               [] OTHER -> {} : page \in Handed(p, dir, <<>>)}

(* Faulty variant of Refs: the page is kept for ever. *)
RefsKept(p, dir, tags) == {Listed(tags, [asof |-> time]) : time \in 0 .. now}

(* GetRefs: the tags of the page. *)
Refs(p, dir, tags) ==
  {Listed(tags, page) : page \in {page \in Handed(p, dir, <<>>) : page.kind = "full"}}

(* GetDepVersion, first half: the page with the revision can be used. *)
HasRevision(p, c) == \E page \in Handed(p, "deps/chromium", c) : page.kind \in {"full", "torn"}

(* GetDepVersion, second half: any of the tags that have the revision. *)
TagsOf(c, tags) == {w \in tags : Revision[w] = Pinned[c]}

(* A definition file, or a part of one, of some version. *)
NoFile == [of |-> <<>>, whole |-> FALSE]

DefinitionFiles(p, dir, tag) == {[of |-> tag, whole |-> page.kind = "full"] : page \in Handed(p, dir, tag)}

-----------------------------------------------------------------------------
(* The directory pdl/combined, and what is written there. *)
Names == Chromium \X V8

(* The combination of two definition files; "short" is less than that.  A   *)
(* part of a file may parse.                                                *)
Absent == [kind |-> "none", chromium |-> <<>>, v8 |-> <<>>]
Short == [kind |-> "short", chromium |-> <<>>, v8 |-> <<>>]

CombineBytes(chromium, v8) ==
  IF chromium.whole /\ v8.whole THEN [kind |-> "full", chromium |-> chromium.of, v8 |-> v8.of] ELSE Short

Contents == {Absent, Short} \cup [kind : {"full"}, chromium : Chromium, v8 : V8]

SourceInit ==
  /\ now = 0
  /\ cmd \in Sessions
  /\ combined = [f \in Names |-> Absent]

(* ioutil.WriteFile: the file is truncated, and then written. *)
OpenFile(f) == combined' = [combined EXCEPT ![f] = Short]

WriteFile(f, contents) == combined' = [combined EXCEPT ![f] = contents]

Tick == now < MaxTime /\ now' = now + 1 /\ UNCHANGED <<cmd, combined>>

=============================================================================
