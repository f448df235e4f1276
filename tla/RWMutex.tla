------------------------------ MODULE RWMutex ------------------------------
(***************************************************************************)
(* The sync.RWMutex that every generated DOM node embeds (fixup.go:126).   *)
(* A mutex knows how many read locks are held and not by whom.  A writer   *)
(* announces itself, which keeps later readers out, and waits for those    *)
(* that are in; when it leaves, all readers that have waited get in.       *)
(***************************************************************************)
EXTENDS Naturals, FiniteSets

CONSTANTS Node, Reader, Writer, NoWriter

ASSUME MutexConstants ==
  /\ IsFiniteSet(Reader)
  /\ NoWriter \notin Writer
  /\ Reader \cap Writer = {}

VARIABLES
  readers,  \* readers[n]: the number of read locks that are held
  waiting,  \* waiting[n]: the readers that wait in RLock
  owner,    \* owner[n]: the writer that has announced itself
  inside    \* the writers that hold the lock they have asked for

mutexes == <<readers, waiting, owner, inside>>

MutexInit ==
  /\ readers = [n \in Node |-> 0]
  /\ waiting = [n \in Node |-> {}]
  /\ owner = [n \in Node |-> NoWriter]
  /\ inside = {}

Blocked(r) == \E n \in Node : r \in waiting[n]
Locking(w) == \E n \in Node : owner[n] = w

(* Faulty variant of RLock: readers do not mind a writer that waits. *)
RLockBarging(r, n) ==
  /\ IF owner[n] \notin inside
       THEN readers' = [readers EXCEPT ![n] = @ + 1] /\ UNCHANGED waiting
       ELSE waiting' = [waiting EXCEPT ![n] = @ \cup {r}] /\ UNCHANGED readers
  /\ UNCHANGED <<owner, inside>>

RLock(r, n) ==
  /\ IF owner[n] = NoWriter
       THEN readers' = [readers EXCEPT ![n] = @ + 1] /\ UNCHANGED waiting
       ELSE waiting' = [waiting EXCEPT ![n] = @ \cup {r}] /\ UNCHANGED readers
  /\ UNCHANGED <<owner, inside>>

RUnlock(n) ==
  /\ readers' = [readers EXCEPT ![n] = @ - 1]
  /\ UNCHANGED <<waiting, owner, inside>>

(* Lock: the writer has the mutex among writers and announces itself. *)
Announce(w, n) ==
  /\ ~Locking(w)
  /\ owner[n] = NoWriter
  /\ owner' = [owner EXCEPT ![n] = w]
  /\ UNCHANGED <<readers, waiting, inside>>

(* Lock returns: the last reader has left. *)
Acquire(w, n) ==
  /\ owner[n] = w /\ w \notin inside
  /\ readers[n] = 0
  /\ inside' = inside \cup {w}
  /\ UNCHANGED <<readers, waiting, owner>>

Unlock(w, n) ==
  /\ owner[n] = w /\ w \in inside
  /\ owner' = [owner EXCEPT ![n] = NoWriter]
  /\ inside' = inside \ {w}
  /\ readers' = [readers EXCEPT ![n] = @ + Cardinality(waiting[n])]
  /\ waiting' = [waiting EXCEPT ![n] = {}]

=============================================================================
