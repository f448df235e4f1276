------------------------------- MODULE Output -------------------------------
(***************************************************************************)
(* The output directory of cdproto-gen: run (main.go) cleans it, writes    *)
(* the generated files through goimports, runs easyjson on the packages,   *)
(* and formats everything.  Each stage runs its tasks concurrently in an   *)
(* errgroup and waits for all of them.  A run may fail or be killed at any *)
(* point; the next one, of the same or another protocol, starts from what  *)
(* is left.                                                                *)
(*                                                                         *)
(* Paths are sequences of names below the directory.                       *)
(***************************************************************************)
EXTENDS Naturals, Sequences, FiniteSets

CONSTANTS
  Path,      \* the paths that matter, with their directories
  Plan,      \* the protocols a run may be given
  Files,     \* Files[n]: the paths emitter.Emit() returns
  Pkgs,      \* Pkgs[n]: the package directories, <<>> for the root
  GoWl,      \* names that -go-wl matches
  GoNames,   \* names of Go files, but for tests
  Dotted,    \* names that start with a dot
  OldTrees,  \* what users may have in the directory at first
  Flags,     \* sets of flags, of -debug and -no-clean, a run may have
  Faults     \* what may go wrong: "error" (a call of the run returns one), "crash"

Parent(p) == SubSeq(p, 1, Len(p) - 1)

EasyJson(pkg) == Append(pkg, "easyjson.go")

Under(d, p) == Len(d) < Len(p) /\ SubSeq(p, 1, Len(d)) = d

ASSUME OutputConstants ==
  /\ \A p \in Path : Len(p) > 1 => Parent(p) \in Path
  /\ \A n \in Plan : /\ Files[n] \subseteq Path
                     /\ {EasyJson(k) : k \in Pkgs[n]} \subseteq Path \ Files[n]
                     /\ \A k \in Pkgs[n] : \E p \in Files[n] : Parent(p) = k
  /\ "easyjson.go" \in GoWl \cap GoNames
  /\ Flags \subseteq SUBSET {"debug", "no-clean"}
  /\ Faults \subseteq {"error", "crash"}

VARIABLES
  tree,    \* what each path holds
  plan,    \* the protocol of the run
  flags,   \* the flags of the run
  stage,   \* where run is
  todo,    \* entries that filepath.Walk has still to visit
  task,    \* the tasks of the stage's errgroup, by the file they write
  mem,     \* what a task has in memory for its file
  result   \* of the last run: "none", "ok", "error", "killed"

vars == <<tree, plan, flags, stage, todo, task, mem, result>>

-----------------------------------------------------------------------------
(* What a path holds.  "imports" is a file as goimports leaves it, "code"  *)
(* one written by easyjson, "fmt" one that gofmt has been over.             *)
Forms == {"raw", "imports", "code", "fmt"}
NoPlan == "none"
Empty == [form |-> "none", plan |-> NoPlan]
Dir == [form |-> "dir", plan |-> NoPlan]
User == [form |-> "user", plan |-> NoPlan]
Torn == [form |-> "torn", plan |-> NoPlan]
Contents == {Empty, Dir, User, Torn} \cup [form : Forms, plan : Plan]

Exists(p) == tree[p].form # "none"
Base(p) == p[Len(p)]

EasyJsonFiles(n) == {EasyJson(k) : k \in Pkgs[n]}

(* fmtFiles: all generated files. *)
Outputs(n) == Files[n] \cup EasyJsonFiles(n)

(* At first the directory holds what its user has put there, and the        *)
(* packages and files that are generated have other names than what -go-wl  *)
(* matches or what is hidden.                                               *)
ASSUME OutputPaths ==
  /\ \A p \in Path : p \in Seq(STRING) /\ p # <<>>
  /\ OldTrees \subseteq [Path -> {Empty, Dir, User}]
  /\ \A n \in Plan : \A p \in Outputs(n) : p = <<"easyjson.go">> \/ p[1] \notin Dotted \cup GoWl
  /\ \A n \in Plan : \A p, q \in Outputs(n) : ~Under(p, q)

Init ==
  /\ tree \in OldTrees
  /\ plan \in Plan
  /\ flags = {}
  /\ stage = "idle"
  /\ todo = {}
  /\ task = [p \in Path |-> "off"]
  /\ mem = [p \in Path |-> Empty]
  /\ result = "none"

(* The errgroup of a stage: one task per file. *)
Launch(ps) ==
  /\ task' = [p \in Path |-> IF p \in ps THEN "ready" ELSE "off"]
  /\ mem' = [p \in Path |-> Empty]

-----------------------------------------------------------------------------
(* Cleaning. *)

(* A run begins: the protocol is loaded and its files generated. *)
Run(n, fs) ==
  /\ stage = "idle"
  /\ plan' = n
  /\ flags' = fs
  /\ result' = "none"
  /\ stage' = "clean"
  /\ todo' = IF "no-clean" \in fs THEN {} ELSE {p \in Path : Exists(p)}
  /\ UNCHANGED <<tree, task, mem>>

(* contains: p is a generated file or the directory of one. *)
Contains(p) == \E f \in Files[plan] : f = p \/ Under(p, f)

(* Faulty variant of Keep: the path is not tested for a leading dot. *)
KeepByBase(p) == Base(p) \in Dotted \/ Base(p) \in GoWl \/ Contains(p)

(* The function given to filepath.Walk keeps p. *)
Keep(p) == p[1] \in Dotted \/ Base(p) \in Dotted \/ Base(p) \in GoWl \/ Contains(p)

(* The next entry of the walk.  Entries of a directory are visited after   *)
(* it, even when it is gone by then: os.IsNotExist.                         *)
Clean(p) ==
  /\ stage = "clean"
  /\ p \in todo
  /\ \A q \in todo : ~Under(q, p)
  /\ todo' = todo \ {p}
  /\ tree' = IF Exists(p) /\ ~Keep(p)
               THEN [q \in Path |-> IF q = p \/ Under(p, q) THEN Empty ELSE tree[q]]
               ELSE tree
  /\ UNCHANGED <<plan, flags, stage, task, mem, result>>

NoTasks == task' = [p \in Path |-> "off"] /\ mem' = [p \in Path |-> Empty]

(* Faulty variant of Finish: the tasks live on. *)
FinishEarly(r) ==
  /\ stage' = "idle"
  /\ result' = r
  /\ UNCHANGED <<plan, flags, todo, task, mem>>

Finish(r) ==
  /\ stage' = "idle"
  /\ result' = r
  /\ NoTasks
  /\ todo' = {}
  /\ UNCHANGED <<plan, flags>>

(* The walk cannot read an entry, or os.RemoveAll cannot remove all of it: *)
(* the run ends, with a part of what is below the entry gone.               *)
CleanError(p) ==
  /\ stage = "clean" /\ "error" \in Faults
  /\ p \in todo
  /\ \A q \in todo : ~Under(q, p)
  /\ \E gone \in SUBSET {q \in Path : Under(p, q) /\ Exists(q) /\ ~Keep(p)} :
       /\ \A q \in gone, r \in Path : Under(q, r) /\ Exists(r) => r \in gone
       /\ tree' = [q \in Path |-> IF q \in gone THEN Empty ELSE tree[q]]
  /\ Finish("error")

Cleaned ==
  /\ stage = "clean" /\ todo = {}
  /\ stage' = IF "debug" \in flags THEN "write" ELSE "goimports"
  /\ Launch(Files[plan])
  /\ UNCHANGED <<tree, plan, flags, todo, result>>

-----------------------------------------------------------------------------
(* Tasks. *)

(* What a task reads: easyjson parses every Go file in the directory of    *)
(* its package, whoever has left it there, and gofmt its own file.          *)
GoFilesIn(d) ==
  {f \in Path : Parent(f) = d /\ Base(f) \in GoNames /\ tree[f] \notin {Empty, Dir}}

Reads(p) ==
  CASE stage = "easyjson" -> GoFilesIn(Parent(p))
    [] stage = "gofmt" -> {p} \ {q \in Path : tree[q] \in {Empty, Dir}}
    [] OTHER -> {}

(* A file that may fail the task that reads it.  A torn file, or one of the *)
(* user, may be Go or not; a stale one parses, but need not go together     *)
(* with the package: only the package's easyjson.go is replaced by a stub.  *)
Rejectable(f) == tree[f] \in {Torn, User} \/ f \notin Outputs(plan)

(* What the task for p writes, from memory, from the package's sources, or *)
(* from the file itself, which gofmt only lays out anew.                    *)
Produced(p) ==
  CASE stage = "write" -> [form |-> "raw", plan |-> plan]
    [] stage = "goimports" -> [form |-> "imports", plan |-> plan]
    [] stage = "easyjson" -> [form |-> "code", plan |-> plan]
    [] stage = "gofmt" -> IF tree[p].form \in Forms THEN [form |-> "fmt", plan |-> tree[p].plan]
                                                    ELSE tree[p]

(* os.MkdirAll fails at a file, and ioutil.WriteFile at a directory.        *)
Openable(p) == tree[p] # Dir /\ \A d \in Path : Under(d, p) => tree[d] \in {Empty, Dir}

(* gofmt needs its file, and easyjson a package with some source.           *)
Producible(p) == stage \in {"easyjson", "gofmt"} => Reads(p) # {}

(* Whether the task for p may end with an error that no call has made up.   *)
MayFail(p) == ~Producible(p) \/ ~Openable(p) \/ \E f \in Reads(p) : Rejectable(f)

(* Files are truncated when they are opened; directories are made first.   *)
Opened(p) ==
  [q \in Path |-> IF q = p THEN Torn ELSE IF Under(q, p) THEN Dir ELSE tree[q]]

(* write goes through the files one after another, up to the first error. *)
Turn(p) == stage = "write" => \A q \in Path : task[q] \notin {"open", "error"}

Open(p) ==
  /\ task[p] = "ready"
  /\ Turn(p)
  /\ Producible(p) /\ Openable(p)
  /\ task' = [task EXCEPT ![p] = "open"]
  /\ mem' = [mem EXCEPT ![p] = Produced(p)]
  /\ tree' = Opened(p)
  /\ UNCHANGED <<plan, flags, stage, todo, result>>

Write(p) ==
  /\ task[p] = "open"
  /\ task' = [task EXCEPT ![p] = "done"]
  /\ tree' = [tree EXCEPT ![p] = mem[p]]
  /\ mem' = [mem EXCEPT ![p] = Empty]
  /\ UNCHANGED <<plan, flags, stage, todo, result>>

(* Faulty variant of TaskError: the task tries again. *)
TaskErrorRetried(p) ==
  /\ task[p] \in {"ready", "open"}
  /\ "error" \in Faults \/ (task[p] = "ready" /\ MayFail(p))
  /\ task' = [task EXCEPT ![p] = "ready"]
  /\ mem' = [mem EXCEPT ![p] = Empty]
  /\ UNCHANGED <<tree, plan, flags, stage, todo, result>>

(* An error return: before or in the middle of the write. *)
TaskError(p) ==
  /\ task[p] \in {"ready", "open"}
  /\ "error" \in Faults \/ (task[p] = "ready" /\ MayFail(p))
  /\ task' = [task EXCEPT ![p] = "error"]
  /\ mem' = [mem EXCEPT ![p] = Empty]
  /\ UNCHANGED <<tree, plan, flags, stage, todo, result>>

(* Faulty variant of Waited: the first task that ends is enough. *)
WaitedForOne == \E p \in Path : task[p] = "done"

Waited == stage \in {"write", "goimports", "easyjson", "gofmt"} /\
          \A p \in Path : task[p] \in {"off", "done", "error"}

(* Faulty variant of NextStage: the error of eg.Wait is dropped. *)
NextStageAnyway ==
  /\ Waited
  /\ \/ /\ stage = "goimports"
        /\ stage' = "easyjson"
        /\ Launch(EasyJsonFiles(plan))
        /\ UNCHANGED <<tree, plan, flags, todo, result>>
     \/ /\ stage = "easyjson"
        /\ stage' = "gofmt"
        /\ Launch(Outputs(plan))
        /\ UNCHANGED <<tree, plan, flags, todo, result>>
     \/ stage \in {"write", "gofmt"} /\ Finish("ok") /\ UNCHANGED tree

(* eg.Wait returns nil: the next stage. *)
NextStage ==
  /\ Waited
  /\ \A p \in Path : task[p] # "error"
  /\ \/ /\ stage = "goimports"
        /\ stage' = "easyjson"
        /\ Launch(EasyJsonFiles(plan))
        /\ UNCHANGED <<tree, plan, flags, todo, result>>
     \/ /\ stage = "easyjson"
        /\ stage' = "gofmt"
        /\ Launch(Outputs(plan))
        /\ UNCHANGED <<tree, plan, flags, todo, result>>
     \/ stage \in {"write", "gofmt"} /\ Finish("ok") /\ UNCHANGED tree

(* eg.Wait returns the first error, when all tasks have ended.  write      *)
(* returns at once.                                                         *)
StageError ==
  /\ \E p \in Path : task[p] = "error"
  /\ stage = "write" \/ Waited
  /\ Finish("error")
  /\ UNCHANGED tree

Crash == "crash" \in Faults /\ stage # "idle" /\ Finish("killed") /\ UNCHANGED tree

Work ==
  \/ \E p \in Path : Clean(p) \/ CleanError(p) \/ Open(p) \/ Write(p) \/ TaskError(p)
  \/ Cleaned \/ NextStage \/ StageError

Next == (\E n \in Plan : \E fs \in Flags : Run(n, fs)) \/ Work \/ Crash

Spec == Init /\ [][Next]_vars

(* A run that has begun goes on: its goroutines are scheduled.  Nobody has *)
(* to begin another.                                                       *)
FairSpec == Spec /\ WF_vars(Work)

-----------------------------------------------------------------------------
(* Properties. *)

(* Types, and what ties a run's tasks to its stage.                         *)
TypeOK ==
  /\ tree \in [Path -> Contents]
  /\ plan \in Plan
  /\ flags \in SUBSET {"debug", "no-clean"}
  /\ stage \in {"idle", "clean", "write", "goimports", "easyjson", "gofmt"}
  /\ todo \subseteq Path
  /\ task \in [Path -> {"off", "ready", "open", "done", "error"}]
  /\ mem \in [Path -> Contents]
  /\ result \in {"none", "ok", "error", "killed"}
  /\ stage \in {"idle", "clean"} => \A p \in Path : task[p] = "off"
  /\ \A p \in Path : task[p] # "off" => p \in Outputs(plan)
  /\ \A p \in Path : task[p] = "open" <=> mem[p] # Empty

(* After a run without an error the directory is that run's and no other's: *)
(* all its files are there, formatted, whatever earlier runs have left, and *)
(* any other file is one that the rules of the cleaning keep.               *)
Published ==
  stage = "idle" /\ result = "ok" =>
    /\ IF "debug" \in flags
         THEN \A p \in Files[plan] : tree[p] = [form |-> "raw", plan |-> plan]
         ELSE \A p \in Outputs(plan) : tree[p] = [form |-> "fmt", plan |-> plan]
    /\ \A p \in Path : Exists(p) /\ tree[p] # Dir /\ "no-clean" \notin flags =>
         p \in Outputs(plan) \/ p[1] \in Dotted \/ Base(p) \in Dotted \cup GoWl

(* What easyjson and gofmt read (main.go:430, 442, 456, 479).  At easyjson  *)
(* all files of this run are whole, and whatever else it parses in a        *)
(* cleaned directory has a name that the cleaning spares, such as the       *)
(* easyjson.go of an earlier run.  gofmt reads what this run's easyjson and *)
(* goimports have written in full, and nothing else.                        *)
StageInputs ==
  /\ stage = "easyjson" =>
       /\ \A p \in Files[plan] : tree[p] = [form |-> "imports", plan |-> plan]
       /\ "no-clean" \notin flags => \A p \in EasyJsonFiles(plan) : \A f \in Reads(p) \ Files[plan] :
            f[1] \in Dotted \/ Base(f) \in Dotted \cup GoWl
  /\ stage = "gofmt" => \A p \in Outputs(plan) :
       task[p] = "ready" => tree[p].form \in {"imports", "code"} /\ tree[p].plan = plan

(* A step never touches a file at the root that is whitelisted or hidden,   *)
(* nor anything below a hidden directory of the root (main.go:251-256).     *)
Untouched ==
  [][\A p \in Path \ {<<"easyjson.go">>} :
       p[1] \in Dotted \/ (Len(p) = 1 /\ Base(p) \in GoWl) => tree'[p] = tree[p]]_vars

(* A run that begins comes to an end, also when tasks fail.                 *)
Terminates == stage # "idle" ~> stage = "idle"

=============================================================================
