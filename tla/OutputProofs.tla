---------------------------- MODULE OutputProofs ----------------------------
(***************************************************************************)
(* Proofs about Output, for any protocols, paths, flags and faults: the    *)
(* types, the user's files at the root, what each stage reads, and what is *)
(* in the directory after a run without an error.                          *)
(***************************************************************************)
EXTENDS Output, TLAPS

-----------------------------------------------------------------------------
(* Launching the tasks of a stage for files that are outputs of the run.    *)
LEMMA LaunchType ==
  ASSUME NEW ps, ps \subseteq Outputs(plan), Launch(ps)
  PROVE  /\ task' \in [Path -> {"off", "ready", "open", "done", "error"}]
         /\ mem' \in [Path -> Contents]
         /\ \A p \in Path : task'[p] # "off" => p \in Outputs(plan)
         /\ \A p \in Path : task'[p] # "open" /\ mem'[p] = Empty
  BY DEF Launch, Contents

LEMMA NoTasksType ==
  ASSUME NoTasks
  PROVE  /\ task' \in [Path -> {"off", "ready", "open", "done", "error"}]
         /\ mem' \in [Path -> Contents]
         /\ \A p \in Path : task'[p] = "off" /\ mem'[p] = Empty
  BY DEF NoTasks, Contents

(* What a task produces is a file of one of the protocols.                  *)
LEMMA ProducedType ==
  ASSUME TypeOK, NEW p \in Path, task[p] = "ready", Producible(p)
  PROVE  Produced(p) \in Contents /\ Produced(p) # Empty
<1>1. stage \in {"write", "goimports", "easyjson", "gofmt"} /\ plan \in Plan
  BY DEF TypeOK
<1>2. CASE stage = "gofmt"
  <2>1. tree[p] \in Contents \ {Empty, Dir}
    BY <1>2 DEF TypeOK, Producible, Reads
  <2>2. CASE tree[p].form \in Forms
    <3>1. tree[p] \in [form : Forms, plan : Plan]
      BY <2>1, <2>2 DEF Contents, Forms, Empty, Dir, User, Torn
    <3> QED BY <1>2, <2>2, <3>1 DEF Produced, Contents, Forms, Empty
  <2>3. CASE tree[p].form \notin Forms
    BY <1>2, <2>1, <2>3 DEF Produced
  <2> QED BY <2>2, <2>3
<1> QED BY <1>1, <1>2 DEF Produced, Contents, Forms, Empty

LEMMA FinishType ==
  ASSUME TypeOK, NEW r \in {"ok", "error", "killed"}, Finish(r), tree' \in [Path -> Contents]
  PROVE  TypeOK'
  BY NoTasksType DEF Finish, TypeOK, Outputs, EasyJsonFiles, Contents

LEMMA TypeInit == Init => TypeOK
  BY OutputPaths DEF Init, TypeOK, Contents

LEMMA TypeStep == TypeOK /\ [Next]_vars => TypeOK'
<1> SUFFICES ASSUME TypeOK, [Next]_vars PROVE TypeOK'
  OBVIOUS
<1>1. CASE UNCHANGED vars
  BY <1>1 DEF vars, TypeOK, Outputs, EasyJsonFiles, Contents
<1>2. ASSUME NEW n \in Plan, NEW fs \in Flags, Run(n, fs) PROVE TypeOK'
  BY <1>2, OutputConstants DEF Run, TypeOK, Contents
<1>3. ASSUME NEW p \in Path, Clean(p) PROVE TypeOK'
  BY <1>3 DEF Clean, TypeOK, Outputs, EasyJsonFiles, Contents
<1>11. ASSUME NEW p \in Path, CleanError(p) PROVE TypeOK'
  <2>1. tree' \in [Path -> Contents]
    BY <1>11 DEF CleanError, TypeOK, Contents
  <2> QED BY <1>11, <2>1, FinishType DEF CleanError
<1>4. ASSUME NEW p \in Path, Open(p) PROVE TypeOK'
  <2>1. Produced(p) \in Contents /\ Produced(p) # Empty
    BY <1>4, ProducedType DEF Open
  <2>2. tree' \in [Path -> Contents]
    BY <1>4 DEF Open, Opened, TypeOK, Contents
  <2> QED BY <1>4, <2>1, <2>2 DEF Open, TypeOK, Outputs, EasyJsonFiles
<1>5. ASSUME NEW p \in Path, Write(p) PROVE TypeOK'
  <2>1. tree' \in [Path -> Contents] /\ Empty \in Contents
    BY <1>5 DEF Write, TypeOK, Contents
  <2> QED BY <1>5, <2>1 DEF Write, TypeOK, Outputs, EasyJsonFiles
<1>6. ASSUME NEW p \in Path, TaskError(p) PROVE TypeOK'
  <2>1. Empty \in Contents
    BY DEF Contents
  <2> QED BY <1>6, <2>1 DEF TaskError, TypeOK, Outputs, EasyJsonFiles
<1>7. CASE Cleaned
  <2>1. Files[plan] \subseteq Outputs(plan)
    BY DEF Outputs
  <2> QED BY <1>7, <2>1, LaunchType DEF Cleaned, TypeOK, Outputs, EasyJsonFiles
<1>8. CASE NextStage
  <2>1. CASE stage = "goimports"
    <3>1. EasyJsonFiles(plan) \subseteq Outputs(plan)
      BY DEF Outputs
    <3> QED BY <1>8, <2>1, <3>1, LaunchType DEF NextStage, TypeOK, Outputs, EasyJsonFiles
  <2>2. CASE stage = "easyjson"
    BY <1>8, <2>2, LaunchType DEF NextStage, TypeOK, Outputs, EasyJsonFiles
  <2>3. CASE stage \in {"write", "gofmt"}
    BY <1>8, <2>3, FinishType DEF NextStage, TypeOK
  <2> QED BY <1>8, <2>1, <2>2, <2>3 DEF NextStage
<1>9. CASE StageError
  BY <1>9, FinishType DEF StageError, TypeOK
<1>10. CASE Crash
  BY <1>10, FinishType DEF Crash, TypeOK
<1> QED BY <1>1, <1>2, <1>3, <1>4, <1>5, <1>6, <1>7, <1>8, <1>9, <1>10, <1>11 DEF Next, Work

(* The variables of the pipeline stay in their types, and only tasks of the *)
(* stage under way have anything open.                                      *)
THEOREM TypeCorrect == Spec => []TypeOK
  BY TypeInit, TypeStep, PTL DEF Spec

-----------------------------------------------------------------------------
(* What Untouched is about.                                                 *)
OfUser(p) ==
  /\ p # <<"easyjson.go">>
  /\ p[1] \in Dotted \/ (Len(p) = 1 /\ Base(p) \in GoWl)

LEMMA UnderFirst ==
  ASSUME NEW d \in Path, NEW p \in Path, Under(d, p)
  PROVE  d[1] = p[1] /\ Len(p) # 1
<1>1. d \in Seq(STRING) /\ p \in Seq(STRING) /\ Len(d) >= 1
  BY OutputPaths
<1>2. d[1] = SubSeq(p, 1, Len(d))[1]
  BY DEF Under
<1> QED BY <1>1, <1>2 DEF Under

(* No output is a file of the user's, or lies below one.                    *)
LEMMA OutputsApart ==
  ASSUME NEW p \in Path, OfUser(p), NEW n \in Plan, NEW q \in Path, q \in Outputs(n)
  PROVE  q # p /\ ~Under(p, q)
<1>1. q = <<"easyjson.go">> \/ q[1] \notin Dotted \cup GoWl
  BY OutputPaths DEF Outputs, EasyJsonFiles
<1>2. q # p
  <2>1. Len(p) = 1 => Base(p) = p[1]
    BY DEF Base
  <2> QED BY <1>1, <2>1 DEF OfUser
<1>3. ASSUME Under(p, q) PROVE FALSE
  <2>1. p[1] = q[1] /\ Len(q) # 1
    BY <1>3, UnderFirst
  <2>2. q # <<"easyjson.go">>
    BY <2>1
  <2>3. Len(p) = 1 => Base(p) = p[1]
    BY DEF Base
  <2> QED BY <1>1, <2>1, <2>2, <2>3 DEF OfUser
<1> QED BY <1>2, <1>3

(* A directory above such a file is kept.                                   *)
LEMMA AboveKept ==
  ASSUME NEW p \in Path, OfUser(p), NEW q \in Path, q = p \/ Under(q, p)
  PROVE  Keep(q)
<1>1. CASE q = p
  BY <1>1 DEF Keep, OfUser
<1>2. CASE Under(q, p)
  <2>1. q[1] = p[1] /\ Len(p) # 1
    BY <1>2, UnderFirst
  <2>2. p[1] \in Dotted
    BY <2>1 DEF OfUser
  <2> QED BY <2>1, <2>2 DEF Keep
<1> QED BY <1>1, <1>2

(* The walk neither removes such a file nor a directory above it.           *)
LEMMA CleanKeeps ==
  ASSUME TypeOK, NEW p \in Path, OfUser(p), NEW q \in Path, Clean(q) \/ CleanError(q)
  PROVE  tree'[p] = tree[p]
<1>1. CASE q = p \/ Under(q, p)
  <2>1. Keep(q)
    BY <1>1, AboveKept
  <2> QED BY <2>1 DEF Clean, CleanError, TypeOK
<1>2. CASE q # p /\ ~Under(q, p)
  BY <1>2 DEF Clean, CleanError
<1> QED BY <1>1, <1>2

LEMMA UntouchedStep ==
  ASSUME TypeOK, [Next]_vars, NEW p \in Path, OfUser(p)
  PROVE  tree'[p] = tree[p]
<1>1. ASSUME NEW q \in Path, Clean(q) \/ CleanError(q) PROVE tree'[p] = tree[p]
  BY <1>1, CleanKeeps
<1>2. ASSUME NEW q \in Path, Open(q) PROVE tree'[p] = tree[p]
  <2>1. q \in Outputs(plan) /\ plan \in Plan
    BY <1>2 DEF Open, TypeOK
  <2>2. q # p /\ ~Under(p, q)
    BY <2>1, OutputsApart
  <2> QED BY <1>2, <2>2 DEF Open, Opened
<1>3. ASSUME NEW q \in Path, Write(q) PROVE tree'[p] = tree[p]
  <2>1. q \in Outputs(plan) /\ plan \in Plan
    BY <1>3 DEF Write, TypeOK
  <2>2. q # p
    BY <2>1, OutputsApart
  <2> QED BY <1>3, <2>2 DEF Write, TypeOK
<1>4. CASE UNCHANGED tree
  BY <1>4
<1> QED BY <1>1, <1>2, <1>3, <1>4
        DEF Next, Work, Run, TaskError, Cleaned, NextStage, StageError, Crash, Finish, vars

(* No step of any run touches a whitelisted or hidden file at the root, or  *)
(* anything below a hidden directory there.                                 *)
THEOREM UsersFilesUntouched == Spec => Untouched
<1>1. TypeOK /\ [Next]_vars =>
        [\A p \in Path \ {<<"easyjson.go">>} :
           p[1] \in Dotted \/ (Len(p) = 1 /\ Base(p) \in GoWl) => tree'[p] = tree[p]]_vars
  BY UntouchedStep DEF OfUser
<1> QED BY <1>1, TypeCorrect, PTL DEF Spec, Untouched

-----------------------------------------------------------------------------
(* What each stage has done to its files: a task that has its file open     *)
(* holds what the stage makes of it, and one that is done has written it.   *)
Made(form) == [form |-> form, plan |-> plan]

Doing(p, form) ==
  /\ task[p] # "off"
  /\ task[p] = "open" => mem[p] = Made(form)
  /\ task[p] = "done" => tree[p] = Made(form)

WriteInv == stage = "write" => "debug" \in flags /\ \A p \in Files[plan] : Doing(p, "raw")

GoimportsInv ==
  stage = "goimports" => "debug" \notin flags /\ \A p \in Files[plan] : Doing(p, "imports")

EasyjsonInv ==
  stage = "easyjson" =>
    /\ "debug" \notin flags
    /\ \A p \in Files[plan] : task[p] = "off" /\ tree[p] = Made("imports")
    /\ \A p \in EasyJsonFiles(plan) : Doing(p, "code")

GofmtInv ==
  stage = "gofmt" =>
    /\ "debug" \notin flags
    /\ \A p \in Outputs(plan) :
         /\ Doing(p, "fmt")
         /\ task[p] = "ready" => tree[p].form \in {"imports", "code"} /\ tree[p].plan = plan

DoneInv ==
  stage = "idle" /\ result = "ok" =>
    IF "debug" \in flags THEN \A p \in Files[plan] : tree[p] = Made("raw")
                         ELSE \A p \in Outputs(plan) : tree[p] = Made("fmt")

StagesInv == WriteInv /\ GoimportsInv /\ EasyjsonInv /\ GofmtInv /\ DoneInv

(* What is in the directory from the cleaning on.  A file that is in the    *)
(* place of a directory is kept, and no file below it can be opened.        *)
Allowed(p) == p \in Outputs(plan) \/ p[1] \in Dotted \/ Base(p) \in Dotted \cup GoWl

Pending(p) ==
  \E f \in Files[plan] :
    Under(p, f) /\ (stage = "clean" \/ (stage \in {"write", "goimports"} /\ task[f] \in {"ready", "error"}))

KeptInv ==
  (stage # "idle" \/ result = "ok") /\ "no-clean" \notin flags =>
    \A p \in Path : Exists(p) /\ tree[p] # Dir => Allowed(p) \/ Pending(p) \/ (stage = "clean" /\ p \in todo)

LEMMA OutputsType ==
  ASSUME TypeOK
  PROVE  /\ Files[plan] \subseteq Outputs(plan) /\ EasyJsonFiles(plan) \subseteq Outputs(plan)
         /\ Outputs(plan) = Files[plan] \cup EasyJsonFiles(plan)
         /\ Outputs(plan) \subseteq Path
         /\ \A p \in EasyJsonFiles(plan) : p \notin Files[plan]
         /\ \A p, q \in Outputs(plan) : ~Under(p, q)
<1>1. plan \in Plan
  BY DEF TypeOK
<1> QED BY <1>1, OutputConstants, OutputPaths DEF Outputs, EasyJsonFiles

(* A task that opens its file disturbs no other output.                     *)
LEMMA OpenFrame ==
  ASSUME TypeOK, NEW p \in Path, Open(p)
  PROVE  /\ p \in Outputs(plan) /\ stage \in {"write", "goimports", "easyjson", "gofmt"}
         /\ task'[p] = "open" /\ mem'[p] = Produced(p)
         /\ UNCHANGED <<plan, flags, stage, result>>
         /\ \A q \in Outputs(plan) : q # p =>
              tree'[q] = tree[q] /\ task'[q] = task[q] /\ mem'[q] = mem[q]
<1>1. p \in Outputs(plan) /\ stage \in {"write", "goimports", "easyjson", "gofmt"}
  BY DEF Open, TypeOK
<1>2. ASSUME NEW q \in Outputs(plan), q # p PROVE tree'[q] = tree[q]
  BY <1>1, <1>2, OutputsType DEF Open, Opened
<1> QED BY <1>1, <1>2, OutputsType DEF Open, TypeOK

LEMMA OpenStages ==
  ASSUME TypeOK, StagesInv, NEW p \in Path, Open(p)
  PROVE  StagesInv'
<1>1. ASSUME NEW form, NEW q \in Outputs(plan), q # p, Doing(q, form) PROVE Doing(q, form)'
  BY <1>1, OpenFrame DEF Doing, Made
<1>2. ASSUME NEW form, Produced(p) = Made(form) PROVE Doing(p, form)'
  BY <1>2, OpenFrame DEF Doing, Made
<1>3. CASE stage = "write"
  <2>1. Produced(p) = Made("raw")
    BY <1>3 DEF Produced, Made
  <2> QED BY <1>1, <1>2, <1>3, <2>1, OpenFrame, OutputsType
          DEF StagesInv, WriteInv, GoimportsInv, EasyjsonInv, GofmtInv, DoneInv
<1>4. CASE stage = "goimports"
  <2>1. Produced(p) = Made("imports")
    BY <1>4 DEF Produced, Made
  <2> QED BY <1>1, <1>2, <1>4, <2>1, OpenFrame, OutputsType
          DEF StagesInv, WriteInv, GoimportsInv, EasyjsonInv, GofmtInv, DoneInv
<1>5. CASE stage = "easyjson"
  <2>1. Produced(p) = Made("code")
    BY <1>5 DEF Produced, Made
  <2>2. \A q \in Files[plan] : q # p /\ tree'[q] = tree[q] /\ task'[q] = task[q]
    BY <1>5, OpenFrame, OutputsType DEF Open, StagesInv, EasyjsonInv
  <2>3. \A q \in Files[plan] : task'[q] = "off" /\ tree'[q] = Made("imports")'
    BY <1>5, <2>2, OpenFrame DEF StagesInv, EasyjsonInv, Made
  <2> QED BY <1>1, <1>2, <1>5, <2>1, <2>3, OpenFrame, OutputsType
          DEF StagesInv, WriteInv, GoimportsInv, EasyjsonInv, GofmtInv, DoneInv, EasyJsonFiles
<1>6. CASE stage = "gofmt"
  <2>1. Produced(p) = Made("fmt")
    <3>1. tree[p].form \in {"imports", "code"} /\ tree[p].plan = plan
      BY <1>6, OpenFrame DEF Open, StagesInv, GofmtInv
    <3> QED BY <1>6, <3>1 DEF Produced, Made, Forms
  <2>2. \A q \in Outputs(plan) : Doing(q, "fmt")'
    BY <1>1, <1>2, <1>6, <2>1 DEF StagesInv, GofmtInv
  <2>3. \A q \in Outputs(plan) :
          task'[q] = "ready" => tree'[q].form \in {"imports", "code"} /\ tree'[q].plan = plan
    BY <1>6, OpenFrame DEF StagesInv, GofmtInv
  <2> QED BY <1>6, <2>2, <2>3, OpenFrame
          DEF StagesInv, WriteInv, GoimportsInv, EasyjsonInv, GofmtInv, DoneInv, Outputs, EasyJsonFiles
<1> QED BY <1>3, <1>4, <1>5, <1>6, OpenFrame

(* A task that ends, with its file written or not, leaves the other outputs *)
(* as they are.                                                             *)
LEMMA EndFrame ==
  ASSUME TypeOK, NEW p \in Path, Write(p) \/ TaskError(p)
  PROVE  /\ p \in Outputs(plan) /\ stage \in {"write", "goimports", "easyjson", "gofmt"}
         /\ task[p] \in {"ready", "open"} /\ task'[p] \in {"done", "error"}
         /\ task'[p] = "done" => task[p] = "open" /\ tree'[p] = mem[p]
         /\ UNCHANGED <<plan, flags, stage, result>>
         /\ \A q \in Path : q # p =>
              tree'[q] = tree[q] /\ task'[q] = task[q] /\ mem'[q] = mem[q]
  BY DEF Write, TaskError, TypeOK

LEMMA EndStages ==
  ASSUME TypeOK, StagesInv, NEW p \in Path, Write(p) \/ TaskError(p)
  PROVE  StagesInv'
<1>1. ASSUME NEW form, NEW q \in Outputs(plan), Doing(q, form) PROVE Doing(q, form)'
  BY <1>1, EndFrame, OutputsType DEF Doing, Made
<1>2. CASE stage = "write"
  BY <1>1, <1>2, EndFrame, OutputsType
     DEF StagesInv, WriteInv, GoimportsInv, EasyjsonInv, GofmtInv, DoneInv
<1>3. CASE stage = "goimports"
  BY <1>1, <1>3, EndFrame, OutputsType
     DEF StagesInv, WriteInv, GoimportsInv, EasyjsonInv, GofmtInv, DoneInv
<1>4. CASE stage = "easyjson"
  <2>1. \A q \in Files[plan] : q # p /\ tree'[q] = tree[q] /\ task'[q] = task[q]
    BY <1>4, EndFrame, OutputsType DEF StagesInv, EasyjsonInv
  <2>2. \A q \in Files[plan] : task'[q] = "off" /\ tree'[q] = Made("imports")'
    BY <1>4, <2>1, EndFrame DEF StagesInv, EasyjsonInv, Made
  <2> QED BY <1>1, <1>4, <2>2, EndFrame, OutputsType
          DEF StagesInv, WriteInv, GoimportsInv, EasyjsonInv, GofmtInv, DoneInv, EasyJsonFiles
<1>5. CASE stage = "gofmt"
  <2>1. \A q \in Outputs(plan) : Doing(q, "fmt")'
    BY <1>1, <1>5 DEF StagesInv, GofmtInv
  <2>2. \A q \in Outputs(plan) :
          task'[q] = "ready" => tree'[q].form \in {"imports", "code"} /\ tree'[q].plan = plan
    BY <1>5, EndFrame, OutputsType DEF StagesInv, GofmtInv
  <2> QED BY <1>5, <2>1, <2>2, EndFrame
          DEF StagesInv, WriteInv, GoimportsInv, EasyjsonInv, GofmtInv, DoneInv, Outputs, EasyJsonFiles
<1> QED BY <1>2, <1>3, <1>4, <1>5, EndFrame

(* The tasks of a stage are ready when it begins.                           *)
LEMMA LaunchDoing ==
  ASSUME NEW ps, ps \subseteq Path, Launch(ps), NEW p \in ps, NEW form
  PROVE  Doing(p, form)' /\ task'[p] = "ready"
  BY DEF Launch, Doing

(* A stage that ends without an error has written all its files.            *)
LEMMA StageDone ==
  ASSUME Waited, \A p \in Path : task[p] # "error", NEW p \in Path, NEW form, Doing(p, form)
  PROVE  tree[p] = Made(form)
  BY DEF Waited, Doing

LEMMA NextStages ==
  ASSUME TypeOK, StagesInv, NextStage
  PROVE  StagesInv'
<1> USE DEF StagesInv, WriteInv, GoimportsInv, EasyjsonInv, GofmtInv, DoneInv
<1>1. Waited /\ UNCHANGED <<tree, plan, flags>> /\ \A p \in Path : task[p] # "error"
  BY DEF NextStage, Finish
<1>2. CASE stage = "goimports"
  <2>1. stage' = "easyjson" /\ Launch(EasyJsonFiles(plan))
    BY <1>2 DEF NextStage
  <2>2. \A p \in Files[plan] : tree[p] = Made("imports")
    BY <1>1, <1>2, StageDone, OutputsType
  <2>3. \A p \in Files[plan] : task'[p] = "off" /\ tree'[p] = Made("imports")'
    BY <1>1, <2>1, <2>2, OutputsType DEF Launch, Made
  <2>4. \A p \in EasyJsonFiles(plan) : Doing(p, "code")'
    BY <2>1, LaunchDoing, OutputsType
  <2> QED BY <1>1, <1>2, <2>1, <2>3, <2>4 DEF EasyJsonFiles
<1>3. CASE stage = "easyjson"
  <2>1. stage' = "gofmt" /\ Launch(Outputs(plan))
    BY <1>3 DEF NextStage
  <2>2. \A p \in Outputs(plan) : tree[p].form \in {"imports", "code"} /\ tree[p].plan = plan
    <3>1. \A p \in EasyJsonFiles(plan) : tree[p] = Made("code")
      BY <1>1, <1>3, StageDone, OutputsType
    <3> QED BY <1>3, <3>1, OutputsType DEF Made
  <2>3. \A p \in Outputs(plan) : Doing(p, "fmt")'
    BY <2>1, LaunchDoing, OutputsType
  <2> QED BY <1>1, <1>3, <2>1, <2>2, <2>3 DEF Outputs, EasyJsonFiles
<1>4. CASE stage = "write"
  <2>1. stage' = "idle"
    BY <1>4 DEF NextStage, Finish
  <2>2. \A p \in Files[plan] : tree[p] = Made("raw")
    BY <1>1, <1>4, StageDone, OutputsType
  <2> QED BY <1>1, <1>4, <2>1, <2>2 DEF Made
<1>5. CASE stage = "gofmt"
  <2>1. stage' = "idle"
    BY <1>5 DEF NextStage, Finish
  <2>2. \A p \in Outputs(plan) : tree[p] = Made("fmt")
    BY <1>1, <1>5, StageDone, OutputsType
  <2> QED BY <1>1, <1>5, <2>1, <2>2 DEF Made, Outputs, EasyJsonFiles
<1> QED BY <1>1, <1>2, <1>3, <1>4, <1>5 DEF Waited

LEMMA StagesInit == Init => StagesInv
  BY DEF Init, StagesInv, WriteInv, GoimportsInv, EasyjsonInv, GofmtInv, DoneInv

LEMMA StagesStep == TypeOK /\ StagesInv /\ [Next]_vars => StagesInv'
<1> SUFFICES ASSUME TypeOK, StagesInv, [Next]_vars PROVE StagesInv'
  OBVIOUS
<1>1. CASE UNCHANGED vars
  BY <1>1
     DEF vars, StagesInv, WriteInv, GoimportsInv, EasyjsonInv, GofmtInv, DoneInv, Doing, Made,
         Outputs, EasyJsonFiles
<1>2. ASSUME NEW n \in Plan, NEW fs \in Flags, Run(n, fs) PROVE StagesInv'
  BY <1>2 DEF Run, StagesInv, WriteInv, GoimportsInv, EasyjsonInv, GofmtInv, DoneInv
<1>3. ASSUME NEW p \in Path, Clean(p) \/ CleanError(p) PROVE StagesInv'
  BY <1>3 DEF Clean, CleanError, Finish, StagesInv, WriteInv, GoimportsInv, EasyjsonInv, GofmtInv, DoneInv
<1>4. ASSUME NEW p \in Path, Open(p) \/ Write(p) \/ TaskError(p) PROVE StagesInv'
  BY <1>4, OpenStages, EndStages
<1>5. CASE Cleaned
  <2>1. \A p \in Files[plan] : Doing(p, "raw")' /\ Doing(p, "imports")'
    BY <1>5, LaunchDoing, OutputsType DEF Cleaned
  <2> QED BY <1>5, <2>1
          DEF Cleaned, StagesInv, WriteInv, GoimportsInv, EasyjsonInv, GofmtInv, DoneInv
<1>6. CASE NextStage
  BY <1>6, NextStages
<1>7. CASE StageError \/ Crash
  BY <1>7
     DEF StageError, Crash, Finish, StagesInv, WriteInv, GoimportsInv, EasyjsonInv, GofmtInv, DoneInv
<1> QED BY <1>1, <1>2, <1>3, <1>4, <1>5, <1>6, <1>7 DEF Next, Work

-----------------------------------------------------------------------------
(* The cleaning passes over a path: what still exists there is allowed or   *)
(* pending.                                                                 *)
LEMMA CleanKept ==
  ASSUME TypeOK, KeptInv, NEW q \in Path, Clean(q)
  PROVE  KeptInv'
<1> SUFFICES ASSUME "no-clean" \notin flags, NEW p \in Path, Exists(p)', (tree[p] # Dir)', p \notin todo'
             PROVE  (Allowed(p) \/ Pending(p))'
  BY DEF Clean, KeptInv
<1>1. stage = "clean" /\ stage' = "clean" /\ UNCHANGED <<plan, flags, task>>
  BY DEF Clean
<1>2. Exists(p) /\ tree'[p] = tree[p]
  BY DEF Clean, TypeOK, Exists, Empty
<1>3. Allowed(p) => Allowed(p)'
  BY <1>1 DEF Allowed, Outputs, EasyJsonFiles
<1>4. Pending(p) => Pending(p)'
  BY <1>1 DEF Pending
<1>5. CASE p = q
  <2>1. Keep(p)
    BY <1>2, <1>5 DEF Clean, TypeOK, Exists, Empty
  <2>2. Contains(p) => p \in Files[plan] \/ Pending(p)
    BY <1>1 DEF Contains, Pending
  <2> QED BY <1>3, <1>4, <2>1, <2>2 DEF Keep, Allowed, Outputs
<1>6. CASE p # q
  <2>1. p \notin todo
    BY <1>6 DEF Clean
  <2> QED BY <1>1, <1>2, <1>3, <1>4, <2>1 DEF KeptInv, Dir
<1> QED BY <1>5, <1>6

(* Only outputs appear, and nothing that is pending is forgotten.           *)
LEMMA TaskKept ==
  ASSUME TypeOK, KeptInv, NEW q \in Path, Open(q) \/ Write(q) \/ TaskError(q)
  PROVE  KeptInv'
<1>1. q \in Outputs(plan) /\ stage \in {"write", "goimports", "easyjson", "gofmt"}
      /\ UNCHANGED <<plan, flags, stage>>
  BY OpenFrame, EndFrame
<1> SUFFICES ASSUME "no-clean" \notin flags, NEW p \in Path, Exists(p)', (tree[p] # Dir)'
             PROVE  (Allowed(p) \/ Pending(p))'
  BY <1>1 DEF KeptInv
<1>2. Allowed(p) => Allowed(p)'
  BY <1>1 DEF Allowed, Outputs, EasyJsonFiles
<1>3. CASE p = q
  BY <1>1, <1>2, <1>3 DEF Allowed
<1>4. CASE p # q
  <2>1. tree'[p] = tree[p] /\ (Open(q) => ~Under(p, q))
    BY <1>4 DEF Open, Opened, Write, TaskError, TypeOK
  <2>2. Allowed(p) \/ Pending(p)
    BY <1>1, <2>1 DEF KeptInv, Exists, Dir
  <2>3. ASSUME Pending(p) PROVE Pending(p)'
    <3>1. PICK f \in Files[plan] :
            Under(p, f) /\ stage \in {"write", "goimports"} /\ task[f] \in {"ready", "error"}
      BY <1>1, <2>3 DEF Pending
    <3>2. f \in Path
      BY OutputsType
    <3>3. task'[f] \in {"ready", "error"}
      BY <2>1, <3>1, <3>2 DEF Open, Write, TaskError, TypeOK
    <3> QED BY <1>1, <3>1, <3>3 DEF Pending
  <2> QED BY <1>2, <2>2, <2>3
<1> QED BY <1>3, <1>4

(* When a stage ends without an error nothing is pending any more.          *)
LEMMA NextKept ==
  ASSUME TypeOK, KeptInv, NextStage
  PROVE  KeptInv'
<1>1. UNCHANGED <<tree, plan, flags>> /\ stage \in {"write", "goimports", "easyjson", "gofmt"}
  BY DEF NextStage, Finish, Waited
<1>2. \A p \in Path : task[p] \notin {"ready", "error"}
  BY DEF NextStage, Waited
<1>3. \A p \in Path : ~Pending(p)
  BY <1>1, <1>2, OutputsType DEF Pending
<1>4. \A p \in Path : Allowed(p) => Allowed(p)'
  BY <1>1 DEF Allowed, Outputs, EasyJsonFiles
<1> QED BY <1>1, <1>3, <1>4 DEF KeptInv, Exists, Dir

LEMMA KeptStep == TypeOK /\ KeptInv /\ [Next]_vars => KeptInv'
<1> SUFFICES ASSUME TypeOK, KeptInv, [Next]_vars PROVE KeptInv'
  OBVIOUS
<1>1. CASE UNCHANGED vars
  BY <1>1 DEF vars, KeptInv, Exists, Dir, Allowed, Pending, Outputs, EasyJsonFiles
<1>2. ASSUME NEW n \in Plan, NEW fs \in Flags, Run(n, fs) PROVE KeptInv'
  BY <1>2 DEF Run, KeptInv, Exists
<1>3. ASSUME NEW p \in Path, Clean(p) \/ CleanError(p) PROVE KeptInv'
  BY <1>3, CleanKept DEF CleanError, Finish, KeptInv
<1>4. ASSUME NEW p \in Path, Open(p) \/ Write(p) \/ TaskError(p) PROVE KeptInv'
  BY <1>4, TaskKept
<1>5. CASE Cleaned
  <2>1. stage = "clean" /\ todo = {} /\ UNCHANGED <<tree, plan, flags>> /\ stage' \in {"write", "goimports"}
    BY <1>5 DEF Cleaned
  <2>2. \A f \in Files[plan] : task'[f] = "ready"
    BY <1>5, OutputsType DEF Cleaned, Launch
  <2>3. \A p \in Path : Pending(p) => Pending(p)'
    BY <2>1, <2>2 DEF Pending
  <2>4. \A p \in Path : Allowed(p) => Allowed(p)'
    BY <2>1 DEF Allowed, Outputs, EasyJsonFiles
  <2> QED BY <2>1, <2>3, <2>4 DEF KeptInv, Exists, Dir
<1>6. CASE NextStage
  BY <1>6, NextKept
<1>7. CASE StageError \/ Crash
  BY <1>7 DEF StageError, Crash, Finish, KeptInv
<1> QED BY <1>1, <1>2, <1>3, <1>4, <1>5, <1>6, <1>7 DEF Next, Work

(* easyjson starts from this run's files, in full, and from nothing else    *)
(* but what the cleaning keeps; gofmt reads only what this run has written. *)
THEOREM StagesReadFinished == Spec => []StageInputs
<1>1. Init => TypeOK /\ StagesInv /\ KeptInv
  BY TypeInit, StagesInit DEF Init, KeptInv
<1>2. TypeOK /\ StagesInv /\ KeptInv /\ [Next]_vars => (TypeOK /\ StagesInv /\ KeptInv)'
  BY TypeStep, StagesStep, KeptStep
<1>3. TypeOK /\ StagesInv /\ KeptInv => StageInputs
  <2> SUFFICES ASSUME TypeOK, StagesInv, KeptInv PROVE StageInputs
    OBVIOUS
  <2>1. ASSUME stage = "easyjson", "no-clean" \notin flags, NEW p \in EasyJsonFiles(plan),
               NEW f \in Reads(p) \ Files[plan]
        PROVE  f[1] \in Dotted \/ Base(f) \in Dotted \cup GoWl
    <3>1. f \in Path /\ Exists(f) /\ tree[f] # Dir
      <4>1. f \in Path /\ tree[f] \in Contents \ {Empty, Dir}
        BY <2>1 DEF Reads, GoFilesIn, TypeOK
      <4> QED BY <4>1 DEF Exists, Contents, Empty, Dir, User, Torn, Forms
    <3>2. Allowed(f)
      BY <2>1, <3>1 DEF KeptInv, Pending
    <3>3. f \in EasyJsonFiles(plan) => Base(f) \in GoWl
      <4>1. ASSUME NEW k \in Pkgs[plan], f = EasyJson(k) PROVE Base(f) \in GoWl
        <5>1. Len(f) = Len(k) + 1 /\ f[Len(k) + 1] = "easyjson.go" /\ k \in Seq(STRING)
          <6>1. PICK q \in Files[plan] : Parent(q) = k
            BY <4>1, OutputConstants DEF TypeOK
          <6>2. q \in Seq(STRING) /\ q # <<>>
            BY <6>1, OutputsType, OutputPaths
          <6>3. Len(q) - 1 \in 0 .. Len(q)
            BY <6>2
          <6>4. k \in Seq(STRING)
            BY <6>1, <6>2, <6>3 DEF Parent
          <6> QED BY <4>1, <6>4 DEF EasyJson
        <5> QED BY <5>1, OutputConstants DEF Base
      <4> QED BY <4>1 DEF EasyJsonFiles
    <3> QED BY <2>1, <3>2, <3>3 DEF Allowed, Outputs
  <2> QED BY <2>1 DEF StagesInv, EasyjsonInv, GofmtInv, StageInputs, Made
<1> QED BY <1>1, <1>2, <1>3, PTL DEF Spec

(* After a run without an error all its files are there, formatted, and     *)
(* every other file is one that the rules of the cleaning keep.             *)
THEOREM PublishedAlways == Spec => []Published
<1>1. Init => TypeOK /\ StagesInv /\ KeptInv
  BY TypeInit, StagesInit DEF Init, KeptInv
<1>2. TypeOK /\ StagesInv /\ KeptInv /\ [Next]_vars => (TypeOK /\ StagesInv /\ KeptInv)'
  BY TypeStep, StagesStep, KeptStep
<1>3. StagesInv /\ KeptInv => Published
  BY DEF StagesInv, DoneInv, KeptInv, Published, Allowed, Pending, Made
<1> QED BY <1>1, <1>2, <1>3, PTL DEF Spec

=============================================================================
