------------------------------- MODULE Pages -------------------------------
(***************************************************************************)
(* The pages that util.Get hands to its callers: how old they may be, and  *)
(* what else than the file of the server they may be.                      *)
(***************************************************************************)
EXTENDS Naturals

CONSTANTS
  Key,      \* cache entries
  Decoded,  \* the entries with base64 responses
  Alone,    \* the pairs <<p, k>> where only p uses k, and nothing interrupts p
  TTL,      \* TTL[p]: the cache lifetime of p's calls
  Latency   \* how long a call may take

VARIABLE now  \* the clock

(* Pages: the file or an error page of the server as of some time, or less. *)
Answers == [key : Key, kind : {"full", "error", "empty", "torn"}, asof : 0 .. now]

Complete(page) == page.kind \in {"full", "error"}

MayGet(p, page) ==
  /\ Complete(page) => now <= page.asof + TTL[p] + 2 * Latency
  /\ TTL[p] = 0 => Complete(page) /\ now <= page.asof + Latency
  /\ <<p, page.key>> \in Alone => Complete(page)
  /\ page.key \in Decoded => page.kind # "error"

=============================================================================
