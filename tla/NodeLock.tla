------------------------------ MODULE NodeLock ------------------------------
(***************************************************************************)
(* The methods that the generator adds to the DOM node type                *)
(* (gen/gotpl/extra.qtpl, ExtraNodeTemplate): Attribute, xpath and Dump.   *)
(* They take the read locks of nodes up and down the tree, while the       *)
(* client that owns the tree locks one node at a time to change it.        *)
(*                                                                         *)
(* A thread that reads is a stack of calls; what the fields of the nodes   *)
(* hold is left out, except that it may end the climb of xpath.            *)
(***************************************************************************)
EXTENDS RWMutex, Sequences

CONSTANTS
  Root,      \* the node without a Parent
  Parent,    \* Parent[n], for the others
  Children,  \* Children[n], a sequence
  Calls      \* the methods that readers may call

(* The nodes are a finite tree: each is higher than its children.          *)
Lower(height) == \A n \in Node \ {Root} : height[n] < height[Parent[n]]

ASSUME TreeConstants ==
  /\ Root \in Node
  /\ Parent \in [Node \ {Root} -> Node]
  /\ \E height \in [Node -> 0 .. Cardinality(Node)] : Lower(height)
  /\ Children \in [Node -> Seq(Node \ {Root})]
  /\ \A n \in Node : \A i \in 1 .. Len(Children[n]) : Parent[Children[n][i]] = n
  /\ Calls \subseteq {"Attribute", "xpath", "Dump"}

VARIABLE
  stack  \* stack[r]: the calls that r is in, the innermost last

vars == <<readers, waiting, owner, inside, stack>>

-----------------------------------------------------------------------------
(* Calls. *)

(* Where a call may be: before its RLock, after it, and before its RUnlock; *)
(* in between, xpath has the id ("id"), or is at its parent ("siblings").   *)
Places == {"enter", "locked", "id", "siblings", "leave"}

Frame == [call : Calls \cup {"Attribute"}, node : Node, at : Places, i : Nat \ {0}]

Called(call, n) == [call |-> call, node |-> n, at |-> "enter", i |-> 1]

Top(r) == stack[r][Len(stack[r])]
Callers(r) == SubSeq(stack[r], 1, Len(stack[r]) - 1)

At(r, call, place) == stack[r] # <<>> /\ Top(r).call = call /\ Top(r).at = place /\ ~Blocked(r)

Goto(r, place) == stack' = [stack EXCEPT ![r] = Append(Callers(r), [Top(r) EXCEPT !.at = place])]

GotoCall(r, place, call, n) ==
  stack' = [stack EXCEPT ![r] = Append(Append(Callers(r), [Top(r) EXCEPT !.at = place]), Called(call, n))]

Init == MutexInit /\ stack = [r \in Reader |-> <<>>]

-----------------------------------------------------------------------------
(* Steps of a reader. *)

(* Attribute, one of the four XPath methods, or Dump, from outside. *)
Call(r, call, n) ==
  /\ stack[r] = <<>>
  /\ stack' = [stack EXCEPT ![r] = <<Called(call, n)>>]
  /\ UNCHANGED mutexes

(* n.RLock() at the head of each method. *)
Enter(r) ==
  /\ \E call \in Calls \cup {"Attribute"} : At(r, call, "enter")
  /\ RLock(r, Top(r).node)
  /\ Goto(r, "locked")

(* The loop over n.Attributes. *)
ReadAttributes(r) ==
  /\ At(r, "Attribute", "locked")
  /\ Goto(r, "leave")
  /\ UNCHANGED mutexes

(* xpath calls n.AttributeValue("id"), which calls n.Attribute. *)
AttributeValue(r) ==
  /\ At(r, "xpath", "locked")
  /\ GotoCall(r, "id", "Attribute", Top(r).node)
  /\ UNCHANGED mutexes

(* The first three cases of the switch: there is no parent, or the node is  *)
(* a document or has an id.                                                 *)
Stop(r) ==
  /\ At(r, "xpath", "id")
  /\ Goto(r, "leave")
  /\ UNCHANGED mutexes

(* Faulty variant of LockParent: the parent is not locked. *)
PassParent(r) ==
  /\ At(r, "xpath", "id") /\ Top(r).node # Root
  /\ Goto(r, "siblings")
  /\ UNCHANGED mutexes

LockParent(r) ==
  /\ At(r, "xpath", "id") /\ Top(r).node # Root
  /\ RLock(r, Parent[Top(r).node])
  /\ Goto(r, "siblings")

(* Faulty variant of Siblings: the lock is kept when the node is found. *)
SiblingsKept(r) ==
  /\ At(r, "xpath", "siblings")
  /\ \/ RUnlock(Parent[Top(r).node])
     \/ UNCHANGED mutexes
  /\ GotoCall(r, "leave", "xpath", Parent[Top(r).node])

(* The loop over n.Parent.Children, n.Parent.RUnlock(), and the call of     *)
(* n.Parent.xpath.                                                          *)
Siblings(r) ==
  /\ At(r, "xpath", "siblings")
  /\ RUnlock(Parent[Top(r).node])
  /\ GotoCall(r, "leave", "xpath", Parent[Top(r).node])

(* Faulty variants of DumpChild: the id is looked up with AttributeValue;   *)
(* the loop starts again.                                                   *)
DumpByID(r) ==
  /\ At(r, "Dump", "locked")
  /\ GotoCall(r, "leave", "Attribute", Top(r).node)
  /\ UNCHANGED mutexes

DumpFirstChild(r) ==
  /\ At(r, "Dump", "locked")
  /\ IF Children[Top(r).node] # <<>>
       THEN GotoCall(r, "locked", "Dump", Children[Top(r).node][1])
       ELSE Goto(r, "leave")
  /\ UNCHANGED mutexes

(* The loop over n.Children, with n locked. *)
DumpChild(r) ==
  /\ At(r, "Dump", "locked")
  /\ LET n == Top(r).node
         i == Top(r).i
     IN  IF i <= Len(Children[n])
           THEN stack' = [stack EXCEPT ![r] = Append(Append(Callers(r), [Top(r) EXCEPT !.i = i + 1]),
                                                     Called("Dump", Children[n][i]))]
           ELSE Goto(r, "leave")
  /\ UNCHANGED mutexes

(* The deferred n.RUnlock(), and the return. *)
Leave(r) ==
  /\ \E call \in Calls \cup {"Attribute"} : At(r, call, "leave")
  /\ RUnlock(Top(r).node)
  /\ stack' = [stack EXCEPT ![r] = Callers(r)]

Continue(r) ==
  \/ Enter(r) \/ ReadAttributes(r) \/ AttributeValue(r) \/ Stop(r) \/ LockParent(r)
  \/ Siblings(r) \/ DumpChild(r) \/ Leave(r)

(* The client changes a node. *)
Change(w, n) ==
  /\ Announce(w, n) \/ Acquire(w, n) \/ Unlock(w, n)
  /\ UNCHANGED stack

Next ==
  \/ \E r \in Reader : Continue(r) \/ \E call \in Calls : \E n \in Node : Call(r, call, n)
  \/ \E w \in Writer : \E n \in Node : Change(w, n)

Spec == Init /\ [][Next]_vars

(* Threads that can go on do, and a writer that is in leaves.  Nobody has   *)
(* to call a method or to change a node.                                    *)
Finish(w) == \E n \in Node : (Acquire(w, n) \/ Unlock(w, n)) /\ UNCHANGED stack

FairSpec ==
  /\ Spec
  /\ \A r \in Reader : WF_vars(Continue(r))
  /\ \A w \in Writer : WF_vars(Finish(w))

-----------------------------------------------------------------------------
(* Who holds and reads what. *)

(* The call at depth d of r's stack holds the read lock of n.  A reader     *)
(* that is blocked does not have yet what its innermost call asked for.     *)
OwnLock(r, d, n) ==
  /\ stack[r][d].node = n
  /\ stack[r][d].at # "enter"
  /\ ~(d = Len(stack[r]) /\ stack[r][d].at = "locked" /\ r \in waiting[n])

ParentLock(r, d, n) ==
  /\ stack[r][d].at = "siblings"
  /\ Parent[stack[r][d].node] = n
  /\ r \notin waiting[n]

OwnLocks(n) == UNION {{<<r, d>> : d \in {d \in 1 .. Len(stack[r]) : OwnLock(r, d, n)}} : r \in Reader}
ParentLocks(n) == UNION {{<<r, d>> : d \in {d \in 1 .. Len(stack[r]) : ParentLock(r, d, n)}} : r \in Reader}

Holds(r, n) == \E d \in 1 .. Len(stack[r]) : OwnLock(r, d, n) \/ ParentLock(r, d, n)

(* The nodes whose fields r reads in its next step: its own, and those      *)
(* below its parent, for their names and ids.                               *)
Reads(r) ==
  IF stack[r] = <<>> \/ Blocked(r) \/ Top(r).at = "enter" THEN {}
  ELSE IF Top(r).at = "siblings"
    THEN LET m == Parent[Top(r).node]
         IN  {Top(r).node, m} \cup {Children[m][i] : i \in 1 .. Len(Children[m])}
    ELSE {Top(r).node}

InXPath(r) == \E d \in 1 .. Len(stack[r]) : stack[r][d].call = "xpath"

(* a cannot go on before b does. *)
WaitsFor(a, b) ==
  \E n \in Node :
    \/ a \in Reader /\ a \in waiting[n] /\ b = owner[n]
    \/ a \in Writer /\ a \notin inside /\ owner[n] = a /\ b \in Reader /\ Holds(b, n)

Deadlocked(S) == S # {} /\ \A a \in S : \E b \in S : WaitsFor(a, b)

-----------------------------------------------------------------------------
(* Properties. *)

(* Types, and that each mutex counts the locks that the calls on the stacks *)
(* will release: no path through a method forgets one, or releases one      *)
(* twice.                                                                   *)
TypeOK ==
  /\ stack \in [Reader -> Seq(Frame)]
  /\ owner \in [Node -> Writer \cup {NoWriter}]
  /\ inside \subseteq Writer
  /\ waiting \in [Node -> SUBSET Reader]
  /\ \A n \in Node : readers[n] = Cardinality(OwnLocks(n)) + Cardinality(ParentLocks(n))

(* A client that changes a node meets a thread that reads it only where     *)
(* xpath looks at the names and ids of a node's siblings, which it does     *)
(* without their locks (extra.qtpl:137-141).                                *)
OnlySiblingsRace ==
  \A w \in inside, r \in Reader, n \in Node :
    owner[n] = w /\ n \in Reads(r) =>
      Top(r).at = "siblings" /\ n \notin {Top(r).node, Parent[Top(r).node]}

(* Threads that wait for each other in a circle have a call of xpath among  *)
(* them: it is the only method that locks a node twice (extra.qtpl:119), or *)
(* against the direction of Dump (extra.qtpl:135, 151).                     *)
DeadlocksNeedXPath ==
  \A S \in SUBSET (Reader \cup Writer) : Deadlocked(S) => \E r \in S \cap Reader : InXPath(r)

WithoutXPath == [](\A r \in Reader : ~InXPath(r))

(* As long as nobody calls an XPath method, Attribute and Dump return, and  *)
(* a client that wants to change a node gets in, whatever the others do.    *)
CallsReturn == WithoutXPath => \A r \in Reader : stack[r] # <<>> ~> stack[r] = <<>>

WritersEnter == WithoutXPath => \A w \in Writer : Locking(w) ~> w \in inside

(* FullXPath "returns the full XPath for the node" (extra.qtpl:179), and so *)
(* do the three others.                                                     *)
XPathReturns == \A r \in Reader : InXPath(r) ~> stack[r] = <<>>

=============================================================================
