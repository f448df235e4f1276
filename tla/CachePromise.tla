---------------------------- MODULE CachePromise ----------------------------
(***************************************************************************)
(* What util.Get promises to its callers: in one step, one of the pages    *)
(* that Pages allows.  Cache implements it, and Retrieval is built on the  *)
(* same pages.                                                             *)
(***************************************************************************)
EXTENDS Pages

CONSTANT Proc  \* invocations

VARIABLE answer  \* answer[p]: the page p has been handed last

promise == <<now, answer>>

NoAnswer == [kind |-> "none"]

PromiseInit == now = 0 /\ answer = [p \in Proc |-> NoAnswer]

Get(p, k) ==
  /\ \E page \in Answers :
       /\ page.key = k
       /\ MayGet(p, page)
       /\ answer' = [answer EXCEPT ![p] = page]
  /\ UNCHANGED now

(* The next call begins, or it has failed. *)
Forget(p) ==
  /\ answer' = [answer EXCEPT ![p] = NoAnswer]
  /\ UNCHANGED now

Later == now' = now + 1 /\ UNCHANGED answer

PromiseNext == Later \/ \E p \in Proc : Forget(p) \/ \E k \in Key : Get(p, k)

PromiseSpec == PromiseInit /\ [][PromiseNext]_promise

=============================================================================
