------------------------------- MODULE Cache -------------------------------
(***************************************************************************)
(* The on-disk protocol cache: util.Get (util/cache.go), called by every   *)
(* retrieval of cdproto-gen and of grab.go.  Several invocations of the    *)
(* tools may share one cache directory; no lock protects it.               *)
(*                                                                         *)
(* A page is identified by the time the server produced it ("asof"), so    *)
(* that the age of what a caller is handed can be compared with the TTL.   *)
(* ioutil.WriteFile is modelled as the two system calls that other         *)
(* processes can see apart: the open that truncates, and the write.        *)
(***************************************************************************)
EXTENDS Naturals, FiniteSets

CONSTANTS
  Proc,      \* invocations of the tools, each a sequence of calls of Get
  Key,       \* cache entries: a Cache.Path, which determines its Cache.URL
  Uses,      \* Uses[p]: the entries invocation p asks for
  Decoded,   \* the entries with Cache.Decode set (base64 responses)
  TTL,       \* TTL[p]: Cache.TTL of all its calls (flag -ttl)
  Latency,   \* how long one call of Get may take; the code sets no timeout
  MaxTime,   \* bound on the clock
  Faulty     \* invocations that may be killed and whose writes may fail

ASSUME CacheConstants ==
  /\ Key # {}
  /\ Uses \in [Proc -> SUBSET Key]
  /\ Decoded \subseteq Key
  /\ TTL \in [Proc -> Nat]
  /\ Latency \in Nat
  /\ MaxTime \in Nat
  /\ Faulty \subseteq Proc

VARIABLES
  now,    \* time.Now()
  disk,   \* disk[k]: the file at c.Path
  pc,     \* where each invocation is in Get
  key,    \* the entry it asked for
  since,  \* when it called Get
  buf,    \* buf, the response held in memory
  got     \* what the call that just succeeded returned, and when

vars == <<now, disk, pc, key, since, buf, got>>

-----------------------------------------------------------------------------
(* A whole page is what the server answered: the file ("full") or, since   *)
(* the status code is not looked at, an error page ("error").  "empty" and  *)
(* "torn" files are what an unfinished or an overlapping write leaves.      *)
Whole == {"full", "error"}

Page == [kind : Whole \cup {"empty", "torn"}, asof : Nat]

File == [kind : Whole \cup {"none", "empty", "torn"}, asof : Nat, mtime : Nat]

InFlight == {"stat", "read", "retrieve", "decode", "truncate", "write"}

NoPage == [kind |-> "empty", asof |-> 0]
Nothing == [kind |-> "none", asof |-> 0, at |-> 0]

Init ==
  /\ now = 0
  /\ disk = [k \in Key |-> [kind |-> "none", asof |-> 0, mtime |-> 0]]
  /\ pc = [p \in Proc |-> "idle"]
  /\ key = [p \in Proc |-> CHOOSE k \in Key : TRUE]
  /\ since = [p \in Proc |-> 0]
  /\ buf = [p \in Proc |-> NoPage]
  /\ got = [p \in Proc |-> Nothing]

-----------------------------------------------------------------------------
(* Steps of Get. *)

Goto(p, l) == pc' = [pc EXCEPT ![p] = l] /\ UNCHANGED <<since, got>>

Return(p, page) ==
  /\ pc' = [pc EXCEPT ![p] = "done"]
  /\ got' = [got EXCEPT ![p] = [kind |-> page.kind, asof |-> page.asof, at |-> now]]
  /\ buf' = [buf EXCEPT ![p] = NoPage]
  /\ UNCHANGED since

(* The call ends and hands nothing to its caller: an error return. *)
Fail(p) ==
  /\ pc' = [pc EXCEPT ![p] = "idle"]
  /\ buf' = [buf EXCEPT ![p] = NoPage]
  /\ since' = [since EXCEPT ![p] = 0]
  /\ UNCHANGED got

(* Get(c): create the directory of c.Path. *)
Call(p, k) ==
  /\ pc[p] \in {"idle", "done"}
  /\ k \in Uses[p]
  /\ pc' = [pc EXCEPT ![p] = "stat"]
  /\ key' = [key EXCEPT ![p] = k]
  /\ since' = [since EXCEPT ![p] = now]
  /\ got' = [got EXCEPT ![p] = Nothing]
  /\ UNCHANGED <<now, disk, buf>>

(* Faulty variants of Usable: the age is not looked at; the test for a TTL  *)
(* of zero is missing.                                                      *)
UsableAtAnyAge(p, f) == f.kind # "none" /\ TTL[p] # 0
UsableWithoutTTL(p, f) == f.kind # "none" /\ now <= f.mtime + TTL[p]

(* The file exists, and now is not after ModTime + TTL.  TTL 0 turns the    *)
(* cache off.                                                               *)
Usable(p, f) == f.kind # "none" /\ TTL[p] # 0 /\ now <= f.mtime + TTL[p]

Stat(p) ==
  /\ pc[p] = "stat"
  /\ Goto(p, IF Usable(p, disk[key[p]]) THEN "read" ELSE "retrieve")
  /\ UNCHANGED <<now, disk, key, buf>>

(* return ioutil.ReadFile(c.Path): whatever is in the file by now. *)
Read(p) ==
  /\ pc[p] = "read"
  /\ Return(p, disk[key[p]])
  /\ UNCHANGED <<now, disk, key>>

(* Faulty variant of Retrieve: the error of ioutil.ReadAll is dropped. *)
RetrieveUnchecked(p) ==
  /\ pc[p] = "retrieve"
  /\ \E kind \in Whole \cup {"torn"} :
       buf' = [buf EXCEPT ![p] = [kind |-> kind, asof |-> now]]
  /\ Goto(p, "decode")
  /\ UNCHANGED <<now, disk, key>>

(* The request fails, or the body is read in full: the status is ignored. *)
Retrieve(p) ==
  /\ pc[p] = "retrieve"
  /\ \/ Fail(p)
     \/ \E kind \in Whole :
          /\ buf' = [buf EXCEPT ![p] = [kind |-> kind, asof |-> now]]
          /\ Goto(p, "decode")
  /\ UNCHANGED <<now, disk, key>>

(* Faulty variant of Decode: the response is stored as it came. *)
DecodeLater(p) ==
  /\ pc[p] = "decode"
  /\ Goto(p, "truncate")
  /\ UNCHANGED <<now, disk, key, buf>>

(* An error page is text that is not base64: DecodeString rejects it. *)
Decode(p) ==
  /\ pc[p] = "decode"
  /\ IF key[p] \in Decoded /\ buf[p].kind = "error"
       THEN Fail(p)
       ELSE Goto(p, "truncate") /\ UNCHANGED buf
  /\ UNCHANGED <<now, disk, key>>

(* Faulty variant of Truncate: the file is stamped with the time it expires. *)
TruncateAhead(p) ==
  /\ pc[p] = "truncate"
  /\ disk' = [disk EXCEPT ![key[p]].kind = "empty", ![key[p]].mtime = now + TTL[p]]
  /\ Goto(p, "write")
  /\ UNCHANGED <<now, key, buf>>

(* ioutil.WriteFile, first half: open with O_TRUNC, or fail to open. *)
Truncate(p) ==
  /\ pc[p] = "truncate"
  /\ \/ p \in Faulty /\ Fail(p) /\ UNCHANGED disk
     \/ /\ disk' = [disk EXCEPT ![key[p]].kind = "empty", ![key[p]].mtime = now]
        /\ Goto(p, "write")
        /\ UNCHANGED buf
  /\ UNCHANGED <<now, key>>

(* What a write at offset 0 can leave in file f: the buffer, or, when      *)
(* another process has written since, the buffer with a tail of the other.  *)
Written(f, page) ==
  {[kind |-> page.kind, asof |-> page.asof, mtime |-> now]} \cup
    (IF f.kind = "empty" THEN {} ELSE {[kind |-> "torn", asof |-> page.asof, mtime |-> now]})

(* A write that stops half-way: nothing, or a prefix, reached the file. *)
CutShort(f) == {f, [kind |-> "torn", asof |-> f.asof, mtime |-> now]}

(* ioutil.WriteFile, second half, and the return of buf. *)
Write(p) ==
  /\ pc[p] = "write"
  /\ \/ /\ \E f \in Written(disk[key[p]], buf[p]) : disk' = [disk EXCEPT ![key[p]] = f]
        /\ Return(p, buf[p])
     \/ /\ p \in Faulty
        /\ \E f \in CutShort(disk[key[p]]) : disk' = [disk EXCEPT ![key[p]] = f]
        /\ Fail(p)
  /\ UNCHANGED <<now, key>>

-----------------------------------------------------------------------------
(* The environment. *)

(* The process is killed.  Its files stay as they are. *)
Crash(p) ==
  /\ p \in Faulty
  /\ pc[p] \in InFlight
  /\ \E f \in {disk[key[p]]} \cup (IF pc[p] = "write" THEN CutShort(disk[key[p]]) ELSE {}) :
       disk' = [disk EXCEPT ![key[p]] = f]
  /\ Fail(p)
  /\ UNCHANGED <<now, key>>

Tick ==
  /\ now < MaxTime
  /\ \A p \in Proc : pc[p] \in InFlight => now < since[p] + Latency
  /\ now' = now + 1
  /\ UNCHANGED <<disk, pc, key, since, buf, got>>

Step(p) ==
  \/ \E k \in Key : Call(p, k)
  \/ Stat(p) \/ Read(p) \/ Retrieve(p) \/ Decode(p) \/ Truncate(p) \/ Write(p)
  \/ Crash(p)

Next == Tick \/ \E p \in Proc : Step(p)

Spec == Init /\ [][Next]_vars

-----------------------------------------------------------------------------
(* Properties. *)

(* Every variable stays in its type, and no page, file or call is younger   *)
(* than the clock.                                                          *)
TypeOK ==
  /\ now \in Nat
  /\ disk \in [Key -> File]
  /\ pc \in [Proc -> InFlight \cup {"idle", "done"}]
  /\ key \in [Proc -> Key]
  /\ since \in [Proc -> Nat]
  /\ buf \in [Proc -> Page]
  /\ got \in [Proc -> [kind : Whole \cup {"none", "empty", "torn"}, asof : Nat, at : Nat]]
  /\ \A k \in Key : disk[k].asof <= now /\ disk[k].mtime <= now
  /\ \A p \in Proc : since[p] <= now /\ buf[p].asof <= now /\ got[p].at <= now

(* A whole page that Get returns is not older than the TTL plus the time    *)
(* two calls may take: the call that stored it (response to write) and the  *)
(* call that returns it (stat to read).  util/cache.go:31 compares the TTL  *)
(* with the time of the WRITE and reads the file after the test.            *)
ServedFresh ==
  \A p \in Proc : pc[p] = "done" /\ got[p].kind \in Whole =>
    got[p].at <= got[p].asof + TTL[p] + 2 * Latency

(* With -ttl=0 every Get goes to the server: what it returns was produced   *)
(* during the call, and is whole (README: "-ttl=0 forces retrieving").      *)
ZeroTTLForcesRetrieval ==
  \A p \in Proc : pc[p] = "done" /\ TTL[p] = 0 =>
    got[p].asof >= since[p] /\ got[p].kind \in Whole

(* An invocation that nothing interrupts, and that shares the entry with no *)
(* other, is handed what the server has answered, never a truncated or      *)
(* mixed file.                                                              *)
Private(p, k) == p \notin Faulty /\ \A q \in Proc : q # p => k \notin Uses[q]

PrivateServedWhole ==
  \A p \in Proc : pc[p] = "done" /\ Private(p, key[p]) => got[p].kind \in Whole

(* Get returns the file or the response (util/cache.go:20), never a part.   *)
ServedWhole == \A p \in Proc : pc[p] = "done" => got[p].kind \in Whole

(* The response is decoded before it is stored, so a server error is never  *)
(* remembered for an entry whose responses are base64 encoded.              *)
ErrorsNotCached == \A k \in Decoded : disk[k].kind # "error"

(* What p has been handed: an answer lasts until its next call begins.      *)
Answered ==
  [p \in Proc |-> IF pc[p] = "done"
                   THEN [key |-> key[p], kind |-> got[p].kind, asof |-> got[p].asof]
                   ELSE [kind |-> "none"]]

PrivatePairs == {pk \in Proc \X Key : Private(pk[1], pk[2])}

Promise == INSTANCE CachePromise WITH answer <- Answered, Alone <- PrivatePairs

(* Get keeps what CachePromise promises, in one step for its callers: the   *)
(* bounds on the age of a page, and what else than the file it may be.      *)
KeepsPromise == Promise!PromiseSpec

=============================================================================
