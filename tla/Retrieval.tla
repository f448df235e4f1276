----------------------------- MODULE Retrieval -----------------------------
(***************************************************************************)
(* Invocations of main.go and of grab.go that share the cache and the      *)
(* directory pdl/combined, in which each may find files of the others.     *)
(***************************************************************************)
EXTENDS Grab, Protocol

vars == <<now, cmd, combined, grabVars, protocolVars>>

Init == SourceInit /\ GrabInit /\ ProtocolInit

GrabRuns(g) == GrabStep(g) /\ UNCHANGED <<now, cmd, protocolVars>>

MainRuns(r) == ProtocolStep(r) /\ UNCHANGED <<now, cmd, grabVars>>

TimePasses == Tick /\ UNCHANGED <<grabVars, protocolVars>>

Next ==
  \/ \E g \in Grabber : GrabRuns(g)
  \/ \E r \in Runner : MainRuns(r)
  \/ TimePasses

Spec == Init /\ [][Next]_vars

(* A run of grab.go that has begun goes on; no other process is relied on. *)
GoesOn(g) == at[g] \notin Over /\ GrabRuns(g)

FairSpec == Spec /\ \A g \in Grabber : WF_vars(GoesOn(g))

-----------------------------------------------------------------------------
(* Properties. *)

Numbered(w) == w \in V8 /\ IsVersion(w)

TypeOK ==
  /\ now \in 0 .. MaxTime
  /\ cmd \in Sessions
  /\ combined \in [Names -> Contents]
  /\ at \in [Grabber -> Places]
  /\ vers \in [Grabber -> SUBSET Chromium]
  /\ \A g \in Grabber : ver[g] \in vers[g] \cup {<<>>} /\ v8ver[g] \in V8 \cup {<<>>}
  /\ \A g \in Grabber : wrote[g] \subseteq Names /\ minorCount[g] <= Cardinality(wrote[g])
  /\ \A g \in Grabber : {chromiumBuf[g], v8Buf[g]} \subseteq
       {NoFile} \cup [of : Chromium \cup V8, whole : BOOLEAN]
  /\ pc \in [Runner -> Stages]
  /\ \A r \in Runner : protoDefs[r] \in Contents /\ older[r] \subseteq Names

(* A combined file, and the protocol that main.go goes on with, are of the  *)
(* versions in the name, or less than that, whoever has written the file    *)
(* and however often; and what grab.go writes is the tag that DEPS pins.    *)
NamedForContents ==
  /\ \A f \in Names : combined[f].kind = "full" => <<combined[f].chromium, combined[f].v8>> = f
  /\ \A r \in Runner : protoDefs[r].kind = "full" =>
       <<protoDefs[r].chromium, protoDefs[r].v8>> = IF cmd[r].pdl # <<>> THEN cmd[r].pdl ELSE chosen[r]
  /\ \A g \in Grabber : \A f \in wrote[g] : Numbered(f[2]) /\ Revision[f[2]] = Pinned[f[1]] /\ f[1][1] >= 67

(* The files a run of grab.go has written for a major.                     *)
FilesOf(g, major) == {f \in wrote[g] : f[1][1] = major}
MajorsOf(g) == {f[1][1] : f \in wrote[g]}

(* There are files of no more majors than -major-count says, and of each no *)
(* more than -minor-count says and, after the first major, one more: the    *)
(* newest, which still counts for the major before (grab.go:154-160).       *)
CountsBounded ==
  \A g \in Grabber \cap DOMAIN cmd :
    /\ Cardinality(MajorsOf(g)) <= cmd[g].majors
    /\ \A major \in MajorsOf(g) :
         Cardinality(FilesOf(g, major)) <=
           cmd[g].minors + (IF \E m \in MajorsOf(g) : m > major THEN 1 ELSE 0)

(* A version that grab.go has passed over, while it wrote an older one of   *)
(* the same major, has a word as the tag of its V8, or is the newest of the *)
(* others.                                                                  *)
Unnumbered(c) == \E w \in TagsOf(c, V8) : ~Numbered(w)

OnlyNewestPassedOver ==
  \A g \in Grabber : \A f \in wrote[g], c \in vers[g] :
    c[1] = f[1][1] /\ CompareSemver(f[1], c) /\ (\A w \in V8 : <<c, w>> \notin wrote[g]) =>
      \/ Unnumbered(c)
      \/ \A u \in vers[g] : u[1] = c[1] /\ CompareSemver(c, u) => Unnumbered(u)

(* DEPS and the list of V8's tags are pages of different ages, so that a    *)
(* new tag may be missing; but not once it is older than pages may be.      *)
Late(p, t) == Published[t] + TTL[p] + 2 * Latency <= now

TagsFoundInTime ==
  [][/\ \A g \in Grabber : at[g] = "find" /\ at'[g] = "untagged" =>
          \A w \in TagsOf(ver[g], V8) : ~Late(g, w)
     /\ \A r \in Runner : pc[r] = "find" /\ pc'[r] = "untagged" =>
          \A w \in TagsOf(chosen[r][1], V8) : ~Late(r, w)]_vars

(* With -ttl=0, the version that main.go chooses is the newest there was    *)
(* when its call of Get began, and the protocol is never a part of one,     *)
(* whatever was left in the cache and in pdl/combined.                      *)
ChosenAnew ==
  [][\A r \in Runner : TTL[r] = 0 =>
       /\ pc[r] = "chromium" /\ chosen[r][1] = <<>> /\ chosen'[r][1] # <<>> =>
            \A c \in Chromium : Published[c] + Latency <= now => ~CompareSemver(chosen'[r][1], c)
       /\ protoDefs'[r] = Short => cmd[r].pdl # <<>>]_vars

(* The differences that main.go shows are those with an older file, unless  *)
(* the mask does not match its own, which it then compares with all.        *)
ComparedWithOlder ==
  \A r \in Runner : shown[r] # <<>> =>
    Masked(shown[r]) /\ (Masked(chosen[r]) => FileOlder(shown[r], chosen[r]))

(* A run of grab.go that has begun ends, whatever Get hands it.            *)
GrabEnds == \A g \in Grabber : at[g] \notin Over ~> at[g] \in Over

(* A run that ends without an error has files of as many majors as          *)
(* -major-count says (grab.go:25 "major count"), when there are so many.    *)
MajorsGrabbed ==
  \A g \in Grabber : at[g] = "done" =>
    \/ Cardinality(MajorsOf(g)) = cmd[g].majors
    \/ MajorsOf(g) = {c[1] : c \in {c \in vers[g] : c[1] >= 67 /\ ~Unnumbered(c)}}

=============================================================================
