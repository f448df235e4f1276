---------------------------- MODULE CacheProofs ----------------------------
(***************************************************************************)
(* Proofs about Cache, for any invocations, entries, TTL and latency.      *)
(*                                                                         *)
(* ServedFresh is not inductive: how old a page is when it is served       *)
(* depends on how old it was when it was stored (StoredFresh) and on how   *)
(* long the calls that stored and served it took (InTime, BufferFresh,     *)
(* ReadInTime).                                                            *)
(***************************************************************************)
EXTENDS Cache, TLAPS

(* Times and sizes that the model keeps in step. *)
InTime == \A p \in Proc : pc[p] \in InFlight => now <= since[p] + Latency

StoredFresh == \A k \in Key : disk[k].kind \in Whole => disk[k].mtime <= disk[k].asof + Latency

BufferFresh ==
  \A p \in Proc : pc[p] \in {"decode", "truncate", "write"} => since[p] <= buf[p].asof

ReadInTime == \A p \in Proc : pc[p] = "read" => since[p] <= disk[key[p]].mtime + TTL[p]

FreshInv == InTime /\ StoredFresh /\ BufferFresh /\ ReadInTime /\ ServedFresh

-----------------------------------------------------------------------------
(* Every step keeps the variables in their types and behind the clock.     *)
LEMMA TypeInit == Init => TypeOK
  BY CacheConstants DEF Init, TypeOK, File, Page, Whole, InFlight, NoPage, Nothing

LEMMA TypeStep == TypeOK /\ [Next]_vars => TypeOK'
<1> USE CacheConstants DEF TypeOK, File, Page, Whole, InFlight, NoPage, Nothing
<1> SUFFICES ASSUME TypeOK, [Next]_vars PROVE TypeOK'
  OBVIOUS
<1>1. CASE UNCHANGED vars
  BY <1>1 DEF vars
<1>2. CASE Tick
  BY <1>2 DEF Tick
<1>3. ASSUME NEW p \in Proc, Step(p) PROVE TypeOK'
  <2>1. ASSUME NEW k \in Key, Call(p, k) PROVE TypeOK'
    BY <2>1 DEF Call
  <2>2. CASE Stat(p)
    BY <2>2 DEF Stat, Goto
  <2>3. CASE Read(p)
    BY <2>3 DEF Read, Return
  <2>4. CASE Retrieve(p)
    <3>1. CASE Fail(p) /\ UNCHANGED <<now, disk, key>>
      BY <3>1 DEF Fail
    <3>2. ASSUME NEW kind \in Whole, Goto(p, "decode"), UNCHANGED <<now, disk, key>>,
                 buf' = [buf EXCEPT ![p] = [kind |-> kind, asof |-> now]]
          PROVE TypeOK'
      BY <2>4, <3>2 DEF Retrieve, Goto
    <3> QED BY <2>4, <3>1, <3>2 DEF Retrieve
  <2>5. CASE Decode(p)
    <3>1. CASE Fail(p) /\ UNCHANGED <<now, disk, key>>
      BY <3>1 DEF Fail
    <3>2. CASE Goto(p, "truncate") /\ UNCHANGED <<now, disk, key, buf>>
      BY <2>5, <3>2 DEF Decode, Goto
    <3> QED BY <2>5, <3>1, <3>2 DEF Decode
  <2>6. CASE Truncate(p)
    <3>1. CASE Fail(p) /\ UNCHANGED <<now, disk, key>>
      BY <3>1 DEF Fail
    <3>2. ASSUME disk' = [disk EXCEPT ![key[p]].kind = "empty", ![key[p]].mtime = now],
                 Goto(p, "write"), UNCHANGED <<now, key, buf>>
          PROVE TypeOK'
      <4>1. disk' \in [Key -> File]
        BY <3>2
      <4>2. \A k \in Key : disk'[k].asof = disk[k].asof /\ disk'[k].mtime \in {disk[k].mtime, now}
        BY <3>2
      <4>3. pc' \in [Proc -> InFlight \cup {"idle", "done"}]
        BY <3>2 DEF Goto
      <4> QED BY <3>2, <4>1, <4>2, <4>3 DEF Goto
    <3> QED BY <2>6, <3>1, <3>2 DEF Truncate
  <2>7. CASE Write(p)
    <3>1. ASSUME NEW f \in Written(disk[key[p]], buf[p]), Return(p, buf[p]),
                 disk' = [disk EXCEPT ![key[p]] = f], UNCHANGED <<now, key>>
          PROVE TypeOK'
      <4>1. /\ f \in File /\ f.mtime = now /\ f.asof = buf[p].asof
        BY DEF Written, File, Page
      <4> QED BY <2>7, <3>1, <4>1 DEF Write, Return, File, Page
    <3>2. ASSUME NEW f \in CutShort(disk[key[p]]), Fail(p),
                 disk' = [disk EXCEPT ![key[p]] = f], UNCHANGED <<now, key>>
          PROVE TypeOK'
      <4>1. /\ f \in File /\ f.asof = disk[key[p]].asof
            /\ f = disk[key[p]] \/ (f.kind = "torn" /\ f.mtime = now)
        BY DEF CutShort, File
      <4> QED BY <3>2, <4>1 DEF Fail, File
    <3> QED BY <2>7, <3>1, <3>2 DEF Write
  <2>8. CASE Crash(p)
    BY <2>8 DEF Crash, CutShort, Fail
  <2> QED BY <1>3, <2>1, <2>2, <2>3, <2>4, <2>5, <2>6, <2>7, <2>8 DEF Step
<1> QED BY <1>1, <1>2, <1>3 DEF Next

(* The types of Cache hold in every behaviour, whatever fails.             *)
THEOREM TypeCorrect == Spec => []TypeOK
  BY TypeInit, TypeStep, PTL DEF Spec

-----------------------------------------------------------------------------
LEMMA FreshInit == Init => FreshInv
  BY CacheConstants
     DEF Init, FreshInv, InTime, StoredFresh, BufferFresh, ReadInTime, ServedFresh, Whole, InFlight,
         Nothing

LEMMA FreshStep == TypeOK /\ TypeOK' /\ FreshInv /\ [Next]_vars => FreshInv'
<1> USE CacheConstants
    DEF FreshInv, InTime, StoredFresh, BufferFresh, ReadInTime, ServedFresh, TypeOK, Whole, InFlight
<1> SUFFICES ASSUME TypeOK, TypeOK', FreshInv, [Next]_vars PROVE FreshInv'
  OBVIOUS
<1>1. CASE UNCHANGED vars
  BY <1>1 DEF vars
<1>2. CASE Tick
  BY <1>2 DEF Tick
<1>3. ASSUME NEW p \in Proc, Step(p) PROVE FreshInv'
  <2>1. ASSUME NEW k \in Key, Call(p, k) PROVE FreshInv'
    BY <2>1 DEF Call
  <2>2. CASE Stat(p)
    BY <2>2 DEF Stat, Goto, Usable, File
  <2>3. CASE Read(p)
    BY <2>3 DEF Read, Return, File
  <2>4. CASE Retrieve(p)
    <3>1. CASE Fail(p) /\ UNCHANGED <<now, disk, key>>
      BY <3>1 DEF Fail
    <3>2. ASSUME NEW kind \in Whole, Goto(p, "decode"), UNCHANGED <<now, disk, key>>,
                 buf' = [buf EXCEPT ![p] = [kind |-> kind, asof |-> now]]
          PROVE FreshInv'
      BY <2>4, <3>2 DEF Retrieve, Goto
    <3> QED BY <2>4, <3>1, <3>2 DEF Retrieve
  <2>5. CASE Decode(p)
    <3>1. CASE Fail(p) /\ UNCHANGED <<now, disk, key>>
      BY <3>1 DEF Fail
    <3>2. CASE Goto(p, "truncate") /\ UNCHANGED <<now, disk, key, buf>>
      BY <2>5, <3>2 DEF Decode, Goto
    <3> QED BY <2>5, <3>1, <3>2 DEF Decode
  <2>6. CASE Truncate(p)
    <3>1. CASE Fail(p) /\ UNCHANGED <<now, disk, key>>
      BY <3>1 DEF Fail
    <3>2. ASSUME disk' = [disk EXCEPT ![key[p]].kind = "empty", ![key[p]].mtime = now],
                 Goto(p, "write"), UNCHANGED <<now, key, buf>>
          PROVE FreshInv'
      BY <2>6, <3>2 DEF Truncate, Goto, File
    <3> QED BY <2>6, <3>1, <3>2 DEF Truncate
  <2>7. CASE Write(p)
    <3>1. ASSUME NEW f \in Written(disk[key[p]], buf[p]), Return(p, buf[p]),
                 disk' = [disk EXCEPT ![key[p]] = f], UNCHANGED <<now, key>>
          PROVE FreshInv'
      <4>1. /\ f \in File /\ f.mtime = now /\ f.asof = buf[p].asof
        BY DEF Written, File, Page
      <4> QED BY <2>7, <3>1, <4>1 DEF Write, Return, File, Page
    <3>2. ASSUME NEW f \in CutShort(disk[key[p]]), Fail(p),
                 disk' = [disk EXCEPT ![key[p]] = f], UNCHANGED <<now, key>>
          PROVE FreshInv'
      <4>1. /\ f \in File /\ f.asof = disk[key[p]].asof
            /\ f = disk[key[p]] \/ (f.kind = "torn" /\ f.mtime = now)
        BY DEF CutShort, File
      <4> QED BY <3>2, <4>1 DEF Fail, File
    <3> QED BY <2>7, <3>1, <3>2 DEF Write
  <2>8. CASE Crash(p)
    <3>1. PICK f \in {disk[key[p]]} \cup (IF pc[p] = "write" THEN CutShort(disk[key[p]]) ELSE {}) :
            disk' = [disk EXCEPT ![key[p]] = f]
      BY <2>8 DEF Crash
    <3>2. f = disk[key[p]] \/ (f.kind = "torn" /\ f.mtime = now)
      BY DEF CutShort, File
    <3>3. Fail(p) /\ UNCHANGED <<now, key>>
      BY <2>8 DEF Crash
    <3> QED BY <3>1, <3>2, <3>3 DEF Fail, File
  <2> QED BY <1>3, <2>1, <2>2, <2>3, <2>4, <2>5, <2>6, <2>7, <2>8 DEF Step
<1> QED BY <1>1, <1>2, <1>3 DEF Next

(* Whatever crashes, fails or overlaps, a whole page that Get returns is no *)
(* older than the TTL and the time of two calls.                            *)
THEOREM PagesServedFresh == Spec => []ServedFresh
<1>1. Init => TypeOK /\ FreshInv
  BY TypeInit, FreshInit
<1>2. TypeOK /\ FreshInv /\ [Next]_vars => (TypeOK /\ FreshInv)'
  BY TypeStep, FreshStep
<1>3. FreshInv => ServedFresh
  BY DEF FreshInv
<1> QED BY <1>1, <1>2, <1>3, PTL DEF Spec

-----------------------------------------------------------------------------
(* Error pages of base64 entries: what is about to be written was decoded. *)
DecodedInv ==
  /\ ErrorsNotCached
  /\ \A p \in Proc : pc[p] \in {"truncate", "write"} /\ key[p] \in Decoded => buf[p].kind # "error"

LEMMA DecodedInit == Init => DecodedInv
  BY CacheConstants DEF Init, DecodedInv, ErrorsNotCached

LEMMA DecodedStep == TypeOK /\ DecodedInv /\ [Next]_vars => DecodedInv'
<1> USE CacheConstants DEF DecodedInv, ErrorsNotCached, TypeOK, Whole, InFlight
<1> SUFFICES ASSUME TypeOK, DecodedInv, [Next]_vars PROVE DecodedInv'
  OBVIOUS
<1>1. CASE UNCHANGED vars
  BY <1>1 DEF vars
<1>2. CASE Tick
  BY <1>2 DEF Tick
<1>3. ASSUME NEW p \in Proc, Step(p) PROVE DecodedInv'
  <2>1. ASSUME NEW k \in Key, Call(p, k) PROVE DecodedInv'
    BY <2>1 DEF Call
  <2>2. CASE Stat(p)
    BY <2>2 DEF Stat, Goto
  <2>3. CASE Read(p)
    BY <2>3 DEF Read, Return
  <2>4. CASE Retrieve(p)
    BY <2>4 DEF Retrieve, Fail, Goto
  <2>5. CASE Decode(p)
    BY <2>5 DEF Decode, Fail, Goto
  <2>6. CASE Truncate(p)
    <3>1. \A k \in Key : disk'[k].kind \in {disk[k].kind, "empty"}
      BY <2>6 DEF Truncate, File
    <3> QED BY <2>6, <3>1 DEF Truncate, Fail, Goto
  <2>7. CASE Write(p)
    <3>1. ASSUME NEW f \in Written(disk[key[p]], buf[p]), Return(p, buf[p]),
                 disk' = [disk EXCEPT ![key[p]] = f], UNCHANGED <<now, key>>
          PROVE DecodedInv'
      <4>1. f.kind \in {buf[p].kind, "torn"}
        BY DEF Written
      <4> QED BY <2>7, <3>1, <4>1 DEF Write, Return
    <3>2. ASSUME NEW f \in CutShort(disk[key[p]]), Fail(p),
                 disk' = [disk EXCEPT ![key[p]] = f], UNCHANGED <<now, key>>
          PROVE DecodedInv'
      <4>1. f.kind \in {disk[key[p]].kind, "torn"}
        BY DEF CutShort
      <4> QED BY <3>2, <4>1 DEF Fail
    <3> QED BY <2>7, <3>1, <3>2 DEF Write
  <2>8. CASE Crash(p)
    BY <2>8 DEF Crash, CutShort, Fail, File
  <2> QED BY <1>3, <2>1, <2>2, <2>3, <2>4, <2>5, <2>6, <2>7, <2>8 DEF Step
<1> QED BY <1>1, <1>2, <1>3 DEF Next

(* No crash, failed write or race ever puts an error page where a base64    *)
(* encoded file belongs.                                                    *)
THEOREM ErrorsNeverCached == Spec => []ErrorsNotCached
<1>1. Init => TypeOK /\ DecodedInv
  BY TypeInit, DecodedInit
<1>2. TypeOK /\ DecodedInv /\ [Next]_vars => (TypeOK /\ DecodedInv)'
  BY TypeStep, DecodedStep
<1>3. DecodedInv => ErrorsNotCached
  BY DEF DecodedInv
<1> QED BY <1>1, <1>2, <1>3, PTL DEF Spec

-----------------------------------------------------------------------------
(* An invocation that nothing interrupts and an entry that only it uses:   *)
(* the file is whole, or its only user is about to write it.               *)
BufferWhole ==
  \A p \in Proc : pc[p] \in {"decode", "truncate", "write"} => buf[p].kind \in Whole

UsesOwn == \A p \in Proc : pc[p] \in InFlight => key[p] \in Uses[p]

PrivateFileWhole ==
  \A p \in Proc : \A k \in Uses[p] : Private(p, k) =>
    \/ disk[k].kind \in Whole \cup {"none"}
    \/ pc[p] = "write" /\ key[p] = k

PrivateAtStep ==
  \A p \in Proc : Private(p, key[p]) =>
    /\ pc[p] = "write" => disk[key[p]].kind = "empty"
    /\ pc[p] = "read" => disk[key[p]].kind \in Whole

WholeInv == BufferWhole /\ UsesOwn /\ PrivateFileWhole /\ PrivateAtStep /\ PrivateServedWhole

LEMMA WholeInit == Init => WholeInv
  BY CacheConstants
     DEF Init, WholeInv, BufferWhole, UsesOwn, PrivateFileWhole, PrivateAtStep, PrivateServedWhole,
         InFlight

LEMMA WholeStep == TypeOK /\ WholeInv /\ [Next]_vars => WholeInv'
<1> USE CacheConstants
    DEF WholeInv, BufferWhole, UsesOwn, PrivateFileWhole, PrivateAtStep, PrivateServedWhole,
        TypeOK, Whole, InFlight
<1> SUFFICES ASSUME TypeOK, WholeInv, [Next]_vars PROVE WholeInv'
  OBVIOUS
<1>1. CASE UNCHANGED vars
  BY <1>1 DEF vars, Private
<1>2. CASE Tick
  BY <1>2 DEF Tick, Private
<1>3. ASSUME NEW p \in Proc, Step(p) PROVE WholeInv'
  (* What another invocation has in hand is not private to anyone else. *)
  <2>0. \A q \in Proc : \A k \in Key : Private(q, k) /\ q # p => k \notin Uses[p]
    BY DEF Private
  <2>f. ASSUME Fail(p), UNCHANGED <<now, disk, key>>, pc[p] # "write" PROVE WholeInv'
    <3>1. pc' = [pc EXCEPT ![p] = "idle"] /\ buf' = [buf EXCEPT ![p] = NoPage] /\ UNCHANGED got
      BY <2>f DEF Fail
    <3>2. BufferWhole' /\ UsesOwn'
      BY <2>f, <3>1
    <3>3. PrivateFileWhole' /\ PrivateAtStep'
      BY <2>f, <3>1 DEF Private
    <3>4. PrivateServedWhole'
      BY <2>f, <3>1 DEF Private
    <3> QED BY <3>2, <3>3, <3>4
  <2>1. ASSUME NEW k \in Key, Call(p, k) PROVE WholeInv'
    BY <2>1 DEF Call
  <2>2. CASE Stat(p)
    BY <2>2 DEF Stat, Goto, Usable
  <2>3. CASE Read(p)
    BY <2>3 DEF Read, Return
  <2>4. CASE Retrieve(p)
    <3>1. CASE Fail(p) /\ UNCHANGED <<now, disk, key>>
      BY <2>4, <2>f, <3>1 DEF Retrieve
    <3>2. ASSUME NEW kind \in Whole, Goto(p, "decode"), UNCHANGED <<now, disk, key>>,
                 buf' = [buf EXCEPT ![p] = [kind |-> kind, asof |-> now]]
          PROVE WholeInv'
      BY <2>4, <3>2 DEF Retrieve, Goto
    <3> QED BY <2>4, <3>1, <3>2 DEF Retrieve
  <2>5. CASE Decode(p)
    <3>1. CASE Fail(p) /\ UNCHANGED <<now, disk, key>>
      BY <2>5, <2>f, <3>1 DEF Decode
    <3>2. CASE Goto(p, "truncate") /\ UNCHANGED <<now, disk, key, buf>>
      BY <2>5, <3>2 DEF Decode, Goto
    <3> QED BY <2>5, <3>1, <3>2 DEF Decode
  <2>6. CASE Truncate(p)
    <3>1. CASE Fail(p) /\ UNCHANGED <<now, disk, key>>
      BY <2>6, <2>f, <3>1 DEF Truncate
    <3>2. ASSUME disk' = [disk EXCEPT ![key[p]].kind = "empty", ![key[p]].mtime = now],
                 Goto(p, "write"), UNCHANGED <<now, key, buf>>
          PROVE WholeInv'
      <4>1. disk'[key[p]].kind = "empty" /\ \A k \in Key : k # key[p] => disk'[k] = disk[k]
        BY <3>2 DEF File
      <4>2. pc' = [pc EXCEPT ![p] = "write"] /\ UNCHANGED <<key, buf, got>>
        BY <3>2 DEF Goto
      <4>3. pc[p] = "truncate" /\ key[p] \in Uses[p] /\ key[p] \in Key
        BY <2>6 DEF Truncate
      <4>4. \A q \in Proc : q # p => ~ Private(q, key[p])
        BY <2>0, <4>3
      <4>5. BufferWhole' /\ UsesOwn'
        BY <4>2, <4>3
      <4>6. PrivateFileWhole'
        BY <4>1, <4>2, <4>3, <4>4
      <4>7. PrivateAtStep'
        BY <4>1, <4>2, <4>3, <4>4
      <4>8. PrivateServedWhole'
        BY <4>2, <4>3
      <4> QED BY <4>5, <4>6, <4>7, <4>8
    <3> QED BY <2>6, <3>1, <3>2 DEF Truncate
  <2>7. CASE Write(p)
    <3>0. pc[p] = "write" /\ key[p] \in Uses[p] /\ key[p] \in Key /\ UNCHANGED key
      BY <2>7 DEF Write
    <3>1. \A q \in Proc : q # p => ~ Private(q, key[p])
      BY <2>0, <3>0
    <3>2. ASSUME NEW f \in Written(disk[key[p]], buf[p]), Return(p, buf[p]),
                 disk' = [disk EXCEPT ![key[p]] = f]
          PROVE WholeInv'
      <4>1. Private(p, key[p]) => f.kind \in Whole
        BY <3>0 DEF Written
      <4>2. disk'[key[p]] = f /\ \A k \in Key : k # key[p] => disk'[k] = disk[k]
        BY <3>0, <3>2
      <4>3. /\ pc' = [pc EXCEPT ![p] = "done"]
            /\ \A q \in Proc : q # p => buf'[q] = buf[q] /\ got'[q] = got[q]
            /\ got'[p].kind = buf[p].kind
        BY <3>2 DEF Return
      <4>5. BufferWhole' /\ UsesOwn'
        BY <3>0, <4>3
      <4>6. PrivateFileWhole'
        BY <3>0, <3>1, <4>1, <4>2, <4>3
      <4>7. PrivateAtStep'
        BY <3>0, <3>1, <4>2, <4>3
      <4>8. PrivateServedWhole'
        BY <3>0, <4>3
      <4> QED BY <4>5, <4>6, <4>7, <4>8
    <3>3. ASSUME p \in Faulty, Fail(p), NEW f \in CutShort(disk[key[p]]),
                 disk' = [disk EXCEPT ![key[p]] = f]
          PROVE WholeInv'
      <4>1. \A q \in Proc : ~ Private(q, key[p])
        BY <3>1, <3>3 DEF Private
      <4> QED BY <3>0, <3>3, <4>1 DEF Fail
    <3> QED BY <2>7, <3>2, <3>3 DEF Write
  <2>8. CASE Crash(p)
    <3>0. pc[p] \in InFlight /\ key[p] \in Uses[p] /\ key[p] \in Key /\ UNCHANGED key /\ Fail(p)
      BY <2>8 DEF Crash
    <3>1. \A q \in Proc : ~ Private(q, key[p])
      BY <2>0, <2>8, <3>0 DEF Crash, Private
    <3>2. \A k \in Key : k # key[p] => disk'[k] = disk[k]
      BY <2>8 DEF Crash
    <3>3. pc' = [pc EXCEPT ![p] = "idle"] /\ buf' = [buf EXCEPT ![p] = NoPage] /\ UNCHANGED got
      BY <3>0 DEF Fail
    <3>4. BufferWhole' /\ UsesOwn'
      BY <3>0, <3>3
    <3>5. PrivateFileWhole'
      <4> SUFFICES ASSUME NEW q \in Proc, NEW k \in Uses[q], Private(q, k)
                   PROVE  \/ disk'[k].kind \in Whole \cup {"none"}
                          \/ pc'[q] = "write" /\ key'[q] = k
        BY DEF Private
      <4>1. k \in Key /\ k # key[p] /\ disk'[k] = disk[k]
        BY <3>1, <3>2
      <4>2. disk[k].kind \in Whole \cup {"none"} \/ (pc[q] = "write" /\ key[q] = k /\ q # p)
        BY <4>1
      <4> QED BY <3>0, <3>3, <4>1, <4>2
    <3>6. PrivateAtStep'
      <4> SUFFICES ASSUME NEW q \in Proc, Private(q, key'[q])
                   PROVE  /\ pc'[q] = "write" => disk'[key'[q]].kind = "empty"
                          /\ pc'[q] = "read" => disk'[key'[q]].kind \in Whole
        BY DEF Private
      <4>1. key'[q] = key[q] /\ key[q] \in Key /\ disk'[key[q]] = disk[key[q]] /\ q # p
        BY <3>0, <3>1, <3>2
      <4> QED BY <3>3, <4>1
    <3>7. PrivateServedWhole'
      BY <3>0, <3>1, <3>3 DEF Private
    <3> QED BY <3>4, <3>5, <3>6, <3>7
  <2> QED BY <1>3, <2>1, <2>2, <2>3, <2>4, <2>5, <2>6, <2>7, <2>8 DEF Step
<1> QED BY <1>1, <1>2, <1>3 DEF Next

(* An invocation that nothing interrupts is only ever handed whole pages of *)
(* the entries it shares with no other, whatever happens to the others.     *)
THEOREM PagesServedWhole == Spec => []PrivateServedWhole
<1>1. Init => TypeOK /\ WholeInv
  BY TypeInit, WholeInit
<1>2. TypeOK /\ WholeInv /\ [Next]_vars => (TypeOK /\ WholeInv)'
  BY TypeStep, WholeStep
<1>3. WholeInv => PrivateServedWhole
  BY DEF WholeInv
<1> QED BY <1>1, <1>2, <1>3, PTL DEF Spec

-----------------------------------------------------------------------------
(* With a TTL of zero the file is never read, so what is returned is the    *)
(* buffer that the call itself has filled.                                  *)
NeverReads == \A p \in Proc : TTL[p] = 0 => pc[p] # "read"

OffInv == BufferWhole /\ BufferFresh /\ NeverReads /\ ZeroTTLForcesRetrieval

LEMMA OffStep == TypeOK /\ OffInv /\ [Next]_vars => OffInv'
<1> USE CacheConstants
    DEF OffInv, BufferWhole, BufferFresh, NeverReads, ZeroTTLForcesRetrieval, TypeOK, Whole,
        InFlight
<1> SUFFICES ASSUME TypeOK, OffInv, [Next]_vars PROVE OffInv'
  OBVIOUS
<1>1. CASE UNCHANGED vars
  BY <1>1 DEF vars
<1>2. CASE Tick
  BY <1>2 DEF Tick
<1>3. ASSUME NEW p \in Proc, Step(p) PROVE OffInv'
  <2>f. ASSUME Fail(p), UNCHANGED <<now, key>> PROVE OffInv'
    <3>1. /\ pc' = [pc EXCEPT ![p] = "idle"]
          /\ buf' = [buf EXCEPT ![p] = NoPage]
          /\ since' = [since EXCEPT ![p] = 0]
          /\ UNCHANGED got
      BY <2>f DEF Fail
    <3>2. BufferWhole' /\ BufferFresh'
      BY <3>1
    <3>3. NeverReads' /\ ZeroTTLForcesRetrieval'
      BY <3>1
    <3> QED BY <3>2, <3>3
  <2>1. ASSUME NEW k \in Key, Call(p, k) PROVE OffInv'
    BY <2>1 DEF Call
  <2>2. CASE Stat(p)
    BY <2>2 DEF Stat, Goto, Usable
  <2>3. CASE Read(p)
    BY <2>3 DEF Read, Return
  <2>4. CASE Retrieve(p)
    <3>1. ASSUME NEW kind \in Whole, Goto(p, "decode"), UNCHANGED <<now, disk, key>>,
                 buf' = [buf EXCEPT ![p] = [kind |-> kind, asof |-> now]]
          PROVE OffInv'
      BY <2>4, <3>1 DEF Retrieve, Goto
    <3> QED BY <2>4, <2>f, <3>1 DEF Retrieve
  <2>5. CASE Decode(p)
    <3>1. CASE Goto(p, "truncate") /\ UNCHANGED <<now, disk, key, buf>>
      BY <2>5, <3>1 DEF Decode, Goto
    <3> QED BY <2>5, <2>f, <3>1 DEF Decode
  <2>6. CASE Truncate(p)
    <3>1. CASE Goto(p, "write") /\ UNCHANGED <<now, key, buf>>
      BY <2>6, <3>1 DEF Truncate, Goto
    <3> QED BY <2>6, <2>f, <3>1 DEF Truncate
  <2>7. CASE Write(p)
    <3>1. CASE Return(p, buf[p]) /\ UNCHANGED <<now, key>>
      <4>1. /\ pc[p] = "write" /\ UNCHANGED since
            /\ pc' = [pc EXCEPT ![p] = "done"]
            /\ buf' = [buf EXCEPT ![p] = NoPage]
            /\ got' = [got EXCEPT ![p] = [kind |-> buf[p].kind, asof |-> buf[p].asof, at |-> now]]
        BY <2>7, <3>1 DEF Write, Return
      <4>2. BufferWhole' /\ BufferFresh' /\ NeverReads'
        BY <3>1, <4>1
      <4>3. ZeroTTLForcesRetrieval'
        BY <3>1, <4>1
      <4> QED BY <4>2, <4>3
    <3> QED BY <2>7, <2>f, <3>1 DEF Write
  <2>8. CASE Crash(p)
    BY <2>8, <2>f DEF Crash
  <2> QED BY <1>3, <2>1, <2>2, <2>3, <2>4, <2>5, <2>6, <2>7, <2>8 DEF Step
<1> QED BY <1>1, <1>2, <1>3 DEF Next

(* Whatever the others leave in the cache, a caller with -ttl=0 is handed   *)
(* a whole page that the server produced during its call.                   *)
THEOREM ZeroTTLRetrieves == Spec => []ZeroTTLForcesRetrieval
<1>1. Init => TypeOK /\ OffInv
  BY TypeInit, CacheConstants
     DEF Init, OffInv, BufferWhole, BufferFresh, NeverReads, ZeroTTLForcesRetrieval
<1>2. TypeOK /\ OffInv /\ [Next]_vars => (TypeOK /\ OffInv)'
  BY TypeStep, OffStep
<1>3. OffInv => ZeroTTLForcesRetrieval
  BY DEF OffInv
<1> QED BY <1>1, <1>2, <1>3, PTL DEF Spec

-----------------------------------------------------------------------------
(* Cache implements CachePromise.  The return of Get, in Read or in Write,  *)
(* is the step Promise!Get; the invariants above are what it promises.      *)
FileThere == \A p \in Proc : pc[p] = "read" => disk[key[p]].kind # "none"

PromiseInv == TypeOK /\ FreshInv /\ DecodedInv /\ WholeInv /\ OffInv /\ FileThere

LEMMA FilesStay ==
  ASSUME TypeOK, [Next]_vars, NEW k \in Key, disk[k].kind # "none"
  PROVE  disk'[k].kind # "none"
<1> USE DEF TypeOK, File, Page, Whole
<1>1. CASE UNCHANGED vars
  BY <1>1 DEF vars
<1>2. CASE Tick
  BY <1>2 DEF Tick
<1>3. ASSUME NEW p \in Proc, Step(p) PROVE disk'[k].kind # "none"
  <2>1. ASSUME NEW l \in Key, Call(p, l) PROVE disk'[k].kind # "none"
    BY <2>1 DEF Call
  <2>2. CASE Stat(p) \/ Read(p) \/ Retrieve(p) \/ Decode(p)
    BY <2>2 DEF Stat, Read, Retrieve, Decode
  <2>3. CASE Truncate(p)
    <3>1. \A l \in Key : disk'[l].kind \in {disk[l].kind, "empty"}
      BY <2>3 DEF Truncate
    <3> QED BY <3>1
  <2>4. CASE Write(p)
    <3>1. PICK f \in Written(disk[key[p]], buf[p]) \cup CutShort(disk[key[p]]) :
            disk' = [disk EXCEPT ![key[p]] = f]
      BY <2>4 DEF Write
    <3>2. f.kind \in {disk[key[p]].kind, buf[p].kind, "torn"} /\ buf[p].kind # "none"
      BY DEF Written, CutShort
    <3> QED BY <3>1, <3>2
  <2>5. CASE Crash(p)
    BY <2>5 DEF Crash, CutShort
  <2> QED BY <1>3, <2>1, <2>2, <2>3, <2>4, <2>5 DEF Step
<1> QED BY <1>1, <1>2, <1>3 DEF Next

(* Only Stat leads to Read, and only when there is a file.                 *)
LEMMA FileThereStep == TypeOK /\ FileThere /\ [Next]_vars => FileThere'
<1> SUFFICES ASSUME TypeOK, FileThere, [Next]_vars, NEW p \in Proc, pc'[p] = "read"
             PROVE  disk'[key'[p]].kind # "none"
  BY DEF FileThere
<1>1. key'[p] = key[p] /\ disk[key[p]].kind # "none"
  <2>1. CASE UNCHANGED vars \/ Tick
    BY <2>1 DEF vars, Tick, FileThere
  <2>2. ASSUME NEW q \in Proc, Step(q) PROVE key'[p] = key[p] /\ disk[key[p]].kind # "none"
    <3> USE DEF TypeOK, FileThere
    <3>1. ASSUME NEW l \in Key, Call(q, l) PROVE key'[p] = key[p] /\ disk[key[p]].kind # "none"
      BY <3>1 DEF Call
    <3>2. CASE Stat(q)
      BY <3>2 DEF Stat, Goto, Usable
    <3>3. CASE Read(q)
      BY <3>3 DEF Read, Return
    <3>4. CASE Retrieve(q) \/ Decode(q)
      BY <3>4 DEF Retrieve, Decode, Goto, Fail
    <3>5. CASE Truncate(q)
      BY <3>5 DEF Truncate, Goto, Fail
    <3>6. CASE Write(q)
      BY <3>6 DEF Write, Return, Fail
    <3>7. CASE Crash(q)
      BY <3>7 DEF Crash, Fail
    <3> QED BY <2>2, <3>1, <3>2, <3>3, <3>4, <3>5, <3>6, <3>7 DEF Step
  <2> QED BY <2>1, <2>2 DEF Next
<1>2. key[p] \in Key
  BY DEF TypeOK
<1> QED BY <1>1, <1>2, FilesStay

LEMMA PromiseInvInductive ==
  /\ Init => PromiseInv
  /\ PromiseInv /\ [Next]_vars => PromiseInv'
<1>1. Init => OffInv /\ FileThere
  BY CacheConstants
     DEF Init, OffInv, BufferWhole, BufferFresh, NeverReads, ZeroTTLForcesRetrieval, FileThere
<1>2. Init => PromiseInv
  BY <1>1, TypeInit, FreshInit, DecodedInit, WholeInit DEF PromiseInv
<1>3. PromiseInv /\ [Next]_vars => PromiseInv'
  BY TypeStep, FreshStep, DecodedStep, WholeStep, OffStep, FileThereStep DEF PromiseInv
<1> QED BY <1>2, <1>3

Handed(p, page) == [key |-> key[p], kind |-> page.kind, asof |-> page.asof]

(* Returning a page within the promise is the abstract step.               *)
LEMMA ReturnIsGet ==
  ASSUME TypeOK, NEW p \in Proc, NEW page \in Page, Return(p, page), UNCHANGED <<now, key>>,
         page.asof <= now, Promise!MayGet(p, Handed(p, page))
  PROVE  Promise!Get(p, key[p])
<1>1. Answered' = [Answered EXCEPT ![p] = Handed(p, page)]
  BY DEF Answered, Handed, Return, TypeOK, InFlight
<1>2. Handed(p, page) \in Promise!Answers /\ Handed(p, page).key = key[p]
  BY DEF Handed, Page, Whole, Promise!Answers, TypeOK
<1> QED BY <1>1, <1>2 DEF Promise!Get

LEMMA ReadIsGet ==
  ASSUME PromiseInv, PromiseInv', NEW p \in Proc, Read(p)
  PROVE  Promise!Get(p, key[p])
<1> DEFINE f == disk[key[p]]
           page == [kind |-> f.kind, asof |-> f.asof]
<1>1. pc[p] = "read" /\ Return(p, f) /\ UNCHANGED <<now, disk, key>>
  BY DEF Read
<1>2. key[p] \in Key /\ f \in File /\ f.kind # "none" /\ f.asof <= now
  BY <1>1 DEF PromiseInv, TypeOK, FileThere
<1>3. page \in Page /\ Return(p, page)
  BY <1>1, <1>2 DEF File, Page, Return
<1>4. /\ pc'[p] = "done" /\ key'[p] = key[p]
      /\ got'[p] = [kind |-> f.kind, asof |-> f.asof, at |-> now]
  BY <1>1 DEF Return, PromiseInv, TypeOK
<1>5. Promise!Complete(page) => now <= page.asof + TTL[p] + 2 * Latency
  BY <1>4 DEF PromiseInv, FreshInv, ServedFresh, Promise!Complete, Whole
<1>6. TTL[p] # 0
  BY <1>1 DEF PromiseInv, OffInv, NeverReads
<1>7. <<p, key[p]>> \in PrivatePairs => Promise!Complete(page)
  BY <1>2, <1>4 DEF PrivatePairs, Private, PromiseInv, WholeInv, PrivateServedWhole, Promise!Complete, Whole
<1>8. key[p] \in Decoded => page.kind # "error"
  BY DEF PromiseInv, DecodedInv, ErrorsNotCached
<1>9. Promise!MayGet(p, Handed(p, page))
  BY <1>5, <1>6, <1>7, <1>8 DEF Promise!MayGet, Promise!Complete, Handed
<1> QED BY <1>1, <1>2, <1>3, <1>9, ReturnIsGet DEF PromiseInv

LEMMA WriteIsGet ==
  ASSUME PromiseInv, PromiseInv', NEW p \in Proc, Write(p), Return(p, buf[p])
  PROVE  Promise!Get(p, key[p])
<1>1. pc[p] = "write" /\ UNCHANGED <<now, key>> /\ buf[p] \in Page /\ buf[p].asof <= now
  BY DEF Write, PromiseInv, TypeOK
<1>2. Promise!Complete(buf[p])
  BY <1>1 DEF PromiseInv, WholeInv, BufferWhole, Promise!Complete, Whole
<1>3. now <= buf[p].asof + Latency
  BY <1>1, CacheConstants DEF PromiseInv, FreshInv, InTime, BufferFresh, TypeOK, Page, InFlight
<1>4. key[p] \in Decoded => buf[p].kind # "error"
  BY <1>1 DEF PromiseInv, DecodedInv
<1>5. now <= buf[p].asof + TTL[p] + 2 * Latency
  BY <1>1, <1>3, CacheConstants DEF PromiseInv, TypeOK, Page
<1>6. Promise!MayGet(p, Handed(p, buf[p]))
  BY <1>2, <1>3, <1>4, <1>5 DEF Promise!MayGet, Promise!Complete, Handed
<1> QED BY <1>1, <1>6, ReturnIsGet DEF PromiseInv

LEMMA HiddenStep ==
  ASSUME TypeOK, NEW p \in Proc, UNCHANGED <<now, key>>, pc[p] \in InFlight,
         \/ \E l \in InFlight : Goto(p, l)
         \/ Fail(p)
  PROVE  UNCHANGED Promise!promise
<1>1. /\ \A q \in Proc : q # p => pc'[q] = pc[q]
      /\ pc'[p] # "done" /\ UNCHANGED got
  BY DEF TypeOK, Goto, Fail, InFlight
<1>2. Answered' = Answered
  BY <1>1 DEF Answered, InFlight
<1> QED BY <1>2 DEF Promise!promise

(* Every step of Cache is one that CachePromise allows, or is hidden.      *)
LEMMA PromiseStep ==
  PromiseInv /\ PromiseInv' /\ [Next]_vars => [Promise!PromiseNext]_(Promise!promise)
<1> SUFFICES ASSUME PromiseInv, PromiseInv', [Next]_vars
             PROVE  Promise!PromiseNext \/ UNCHANGED Promise!promise
  OBVIOUS
<1> USE DEF PromiseInv
<1>1. CASE UNCHANGED vars
  BY <1>1 DEF vars, Answered, Promise!promise
<1>2. CASE Tick
  BY <1>2 DEF Tick, Answered, Promise!Later, Promise!PromiseNext
<1>3. ASSUME NEW p \in Proc, Step(p) PROVE Promise!PromiseNext \/ UNCHANGED Promise!promise
  <2>9. key[p] \in Key
    BY DEF TypeOK
  <2>1. ASSUME NEW k \in Key, Call(p, k) PROVE Promise!Forget(p)
    <3>1. /\ pc' = [pc EXCEPT ![p] = "stat"] /\ got' = [got EXCEPT ![p] = Nothing] /\ UNCHANGED now
          /\ key' = [key EXCEPT ![p] = k]
      BY <2>1 DEF Call
    <3>2. Answered' = [Answered EXCEPT ![p] = Promise!NoAnswer]
      BY <3>1 DEF Answered, Promise!NoAnswer, TypeOK
    <3> QED BY <3>1, <3>2 DEF Promise!Forget
  <2>2. CASE Stat(p)
    BY <2>2, HiddenStep DEF Stat, InFlight
  <2>3. CASE Retrieve(p)
    BY <2>3, HiddenStep DEF Retrieve, InFlight
  <2>4. CASE Decode(p)
    BY <2>4, HiddenStep DEF Decode, InFlight
  <2>5. CASE Truncate(p)
    BY <2>5, HiddenStep DEF Truncate, InFlight
  <2>6. CASE Crash(p)
    BY <2>6, HiddenStep DEF Crash
  <2>7. CASE Read(p)
    <3>1. Promise!Get(p, key[p])
      BY <2>7, ReadIsGet
    <3> QED BY <3>1, <2>9 DEF Promise!PromiseNext
  <2>8. CASE Write(p)
    <3>1. CASE Return(p, buf[p])
      <4>1. Promise!Get(p, key[p])
        BY <2>8, <3>1, WriteIsGet
      <4> QED BY <4>1, <2>9 DEF Promise!PromiseNext
    <3>2. CASE Fail(p)
      <4>1. pc[p] \in InFlight /\ UNCHANGED <<now, key>>
        BY <2>8 DEF Write, InFlight
      <4> QED BY <3>2, <4>1, HiddenStep
    <3> QED BY <2>8, <3>1, <3>2 DEF Write
  <2> QED BY <1>3, <2>1, <2>2, <2>3, <2>4, <2>5, <2>6, <2>7, <2>8
          DEF Step, Promise!PromiseNext
<1> QED BY <1>1, <1>2, <1>3 DEF Next

(* Get is, for its callers, one step that hands them a page within the      *)
(* bounds of CachePromise, whatever the other invocations do.               *)
THEOREM GetKeepsPromise == Spec => KeepsPromise
<1>1. Init => Promise!PromiseInit
  BY DEF Init, Answered, Promise!PromiseInit, Promise!NoAnswer
<1>2. QED
  BY <1>1, PromiseInvInductive, PromiseStep, PTL DEF Spec, KeepsPromise, Promise!PromiseSpec

=============================================================================
