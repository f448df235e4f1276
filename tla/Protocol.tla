------------------------------ MODULE Protocol ------------------------------
(***************************************************************************)
(* The first half of run in main.go: it chooses the versions, loads the    *)
(* protocol, writes the combined file, and shows how that differs from the *)
(* one before (diff/diff.go).  What follows is in Generate and Output.     *)
(***************************************************************************)
EXTENDS Sources

CONSTANTS
  Runner,   \* the invocations of main.go
  Text      \* Text[t]: what the definition file of tag t says

(* A flag that is not given is <<>>. *)
ASSUME ProtocolConstants ==
  /\ Runner \subseteq Proc
  /\ \A s \in Sessions : \A r \in Runner \cap DOMAIN s : s[r] \in
       [chromium : Chromium \cup {<<>>}, v8 : V8 \cup {<<>>}, latest : BOOLEAN, pdl : Names \cup {<<>>}]
  /\ Text \in [Chromium \cup V8 -> Nat]

VARIABLES
  pc,        \* where each invocation is in run
  chosen,    \* the versions that it has chosen, <<flagChromium, flagV8>>
  loaded,    \* the definition file of Chromium
  protoDefs, \* the protocol that it has loaded
  older,     \* the files that it has not compared with its own
  shown      \* the file whose differences it has shown

protocolVars == <<pc, chosen, loaded, protoDefs, older, shown>>

Stages == {"idle", "chromium", "v8", "find", "load", "load v8", "open", "write", "list",
           "compare", "generate", "failed", "untagged"}

Idle == {"idle", "generate", "failed", "untagged"}

ProtocolInit ==
  /\ pc = [r \in Runner |-> "idle"]
  /\ chosen = [r \in Runner |-> <<<<>>, <<>>>>]
  /\ loaded = [r \in Runner |-> NoFile]
  /\ protoDefs = [r \in Runner |-> Absent]
  /\ older = [r \in Runner |-> {}]
  /\ shown = [r \in Runner |-> <<>>]

-----------------------------------------------------------------------------
Enter(r, stage) == pc' = [pc EXCEPT ![r] = stage]

Begin(r) ==
  /\ r \in DOMAIN cmd /\ pc[r] \in Idle
  /\ Enter(r, "chromium")
  /\ chosen' = [chosen EXCEPT ![r] = <<cmd[r].chromium, cmd[r].v8>>]
  /\ loaded' = [loaded EXCEPT ![r] = NoFile]
  /\ protoDefs' = [protoDefs EXCEPT ![r] = Absent]
  /\ older' = [older EXCEPT ![r] = {}]
  /\ shown' = [shown EXCEPT ![r] = <<>>]
  /\ UNCHANGED combined

(* An error or a panic, or a kill. *)
Abort(r) ==
  /\ pc[r] \in Stages \ Idle
  /\ pc[r] # "write" \/ r \in Faulty
  /\ Enter(r, "failed")
  /\ UNCHANGED <<combined, chosen, loaded, protoDefs, older, shown>>

(* Also with -pdl, which needs no versions. *)
ChooseChromium(r) ==
  /\ pc[r] = "chromium"
  /\ IF chosen[r][1] # <<>> THEN UNCHANGED chosen
     ELSE \E v \in LatestVersions(r, "html/chromium.html", Chromium) : chosen' = [chosen EXCEPT ![r][1] = v]
  /\ Enter(r, "v8")
  /\ UNCHANGED <<combined, loaded, protoDefs, older, shown>>

ChooseV8(r) ==
  /\ pc[r] = "v8"
  /\ \/ chosen[r][2] # <<>> /\ Enter(r, "load") /\ UNCHANGED chosen
     \/ /\ chosen[r][2] = <<>> /\ cmd[r].latest
        /\ \E w \in LatestVersions(r, "html/v8.html", V8) : chosen' = [chosen EXCEPT ![r][2] = w]
        /\ Enter(r, "load")
     \/ /\ chosen[r][2] = <<>> /\ ~cmd[r].latest
        /\ HasRevision(r, chosen[r][1])
        /\ Enter(r, "find") /\ UNCHANGED chosen
  /\ UNCHANGED <<combined, loaded, protoDefs, older, shown>>

(* The second half of GetDepVersion: here the tag may be a word. *)
ChooseTag(r) ==
  /\ pc[r] = "find"
  /\ \E tags \in Refs(r, "refs/v8.json", V8) :
       IF TagsOf(chosen[r][1], tags) = {}
         THEN Enter(r, "untagged") /\ UNCHANGED chosen
         ELSE /\ \E w \in TagsOf(chosen[r][1], tags) : chosen' = [chosen EXCEPT ![r][2] = w]
              /\ Enter(r, "load")
  /\ UNCHANGED <<combined, loaded, protoDefs, older, shown>>

(* loadProtoDefs with -pdl: the file as it is, if Parse accepts it. *)
LoadPdl(r) ==
  /\ pc[r] = "load" /\ cmd[r].pdl # <<>>
  /\ combined[cmd[r].pdl] # Absent
  /\ protoDefs' = [protoDefs EXCEPT ![r] = combined[cmd[r].pdl]]
  /\ Enter(r, "generate")
  /\ UNCHANGED <<combined, chosen, loaded, older, shown>>

(* Faulty variant of Load: the combined file is used when there is one. *)
LoadWritten(r) ==
  /\ pc[r] = "load" /\ cmd[r].pdl = <<>>
  /\ IF combined[chosen[r]] # Absent
       THEN /\ protoDefs' = [protoDefs EXCEPT ![r] = combined[chosen[r]]]
            /\ Enter(r, "list") /\ UNCHANGED loaded
       ELSE /\ \E file \in DefinitionFiles(r, "pdl/chromium", chosen[r][1]) :
                 loaded' = [loaded EXCEPT ![r] = file]
            /\ Enter(r, "load v8") /\ UNCHANGED protoDefs
  /\ UNCHANGED <<combined, chosen, older, shown>>

Load(r) ==
  /\ pc[r] = "load" /\ cmd[r].pdl = <<>>
  /\ \E file \in DefinitionFiles(r, "pdl/chromium", chosen[r][1]) : loaded' = [loaded EXCEPT ![r] = file]
  /\ Enter(r, "load v8")
  /\ UNCHANGED <<combined, chosen, protoDefs, older, shown>>

LoadV8(r) ==
  /\ pc[r] = "load v8"
  /\ \E file \in DefinitionFiles(r, "pdl/v8", chosen[r][2]) :
       protoDefs' = [protoDefs EXCEPT ![r] = CombineBytes(loaded[r], file)]
  /\ Enter(r, "open")
  /\ UNCHANGED <<combined, chosen, loaded, older, shown>>

OpenProtoFile(r) ==
  /\ pc[r] = "open"
  /\ OpenFile(chosen[r])
  /\ Enter(r, "write")
  /\ UNCHANGED <<chosen, loaded, protoDefs, older, shown>>

WriteProtoFile(r) ==
  /\ pc[r] = "write"
  /\ WriteFile(chosen[r], protoDefs[r])
  /\ Enter(r, "list")
  /\ UNCHANGED <<chosen, loaded, protoDefs, older, shown>>

-----------------------------------------------------------------------------
(* WalkAndCompare. *)

(* The mask `^([0-9_.]+)\.pdl$`. *)
Masked(f) == IsVersion(f[1]) /\ IsVersion(f[2])

(* Faulty variant of Candidates: the newest files come first. *)
CandidatesReversed(file) ==
  LET files == {f \in Names : combined[f] # Absent /\ Masked(f)}
  IN  IF file \in files THEN {f \in files : FileOlder(file, f)} ELSE files

(* The files in front of filename, or all when it is not among them. *)
Candidates(file) ==
  LET files == {f \in Names : combined[f] # Absent /\ Masked(f)}
  IN  IF file \in files THEN {f \in files : FileOlder(f, file)} ELSE files

List(r) ==
  /\ pc[r] = "list"
  /\ older' = [older EXCEPT ![r] = Candidates(chosen[r])]
  /\ Enter(r, "compare")
  /\ UNCHANGED <<combined, chosen, loaded, protoDefs, shown>>

(* What CompareFiles may find, which reads both files. *)
HasDiff(f, g) ==
  LET a == combined[f]
      b == combined[g]
  IN  IF a.kind = "full" /\ b.kind = "full"
        THEN {Text[a.chromium] # Text[b.chromium] \/ Text[a.v8] # Text[b.v8]}
        ELSE BOOLEAN

(* One round of the loop: the newest of the files that are left. *)
Compare(r) ==
  /\ pc[r] = "compare"
  /\ IF older[r] = {} THEN Enter(r, "generate") /\ UNCHANGED <<older, shown>>
     ELSE \E f \in older[r] :
            /\ \A e \in older[r] \ {f} : FileOlder(e, f)
            /\ \E diff \in HasDiff(f, chosen[r]) :
                 IF diff THEN /\ shown' = [shown EXCEPT ![r] = f]
                              /\ Enter(r, "generate") /\ UNCHANGED older
                         ELSE older' = [older EXCEPT ![r] = @ \ {f}] /\ UNCHANGED <<pc, shown>>
  /\ UNCHANGED <<combined, chosen, loaded, protoDefs>>

ProtocolStep(r) ==
  \/ Begin(r) \/ ChooseChromium(r) \/ ChooseV8(r) \/ ChooseTag(r) \/ LoadPdl(r) \/ Load(r) \/ LoadV8(r)
  \/ OpenProtoFile(r) \/ WriteProtoFile(r) \/ List(r) \/ Compare(r) \/ Abort(r)

=============================================================================
