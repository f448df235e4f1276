---------------------------- MODULE GenerateProofs ----------------------------
(***************************************************************************)
(* What the cleaning and FixDomains make of a protocol, and proofs about   *)
(* Generate, for all protocols that are well formed.                       *)
(*                                                                         *)
(* First the domains: which types there are afterwards, which members,     *)
(* which values, and what they have to do with what the reader sees.  An   *)
(* item t becomes v: v has the raw name and the kind of t, and a member    *)
(* for each one of t that is not deprecated, of the same name, that refers *)
(* to what LookedUp says, besides hidden ones.  FixedDomain says so of a   *)
(* whole domain, and TypesAre, ItemsAre and ValuesAre of the whole         *)
(* protocol.                                                               *)
(*                                                                         *)
(* Then the steps.  The inductive invariant Inv has four parts: the order  *)
(* of the steps; the domains, each of which is what cleaning, and fixing   *)
(* when it is its turn, make of the one that was given; the files, each    *)
(* with the declarations of its domain once that is generated; and that    *)
(* nothing generated so far panics.  When the tool is done, that says what *)
(* every file holds, and the properties follow from what the domains are.  *)
(***************************************************************************)
EXTENDS Generate, SequenceLemmas

LEMMA ShortNames ==
  ASSUME NEW a \in Words, NEW b \in Words
  PROVE  <<a>> \in Names /\ <<a, b>> \in Names /\ <<>> \in Names
  BY DEF Names

(* Sequences of fields and of items are sequences, with elements of a type. *)
LEMMA TypedSeq ==
  ASSUME NEW S, NEW s \in Seq(S)
  PROVE  /\ IsSeq(s) /\ Len(s) \in Nat
         /\ ToSet(s) = {s[i] : i \in 1 .. Len(s)}
         /\ \A x : x \in ToSet(s) <=> \E i \in 1 .. Len(s) : s[i] = x
         /\ \A i \in 1 .. Len(s) : s[i] \in S
         /\ ToSet(s) \subseteq S
<1>1. IsSeq(s) /\ \A i \in 1 .. Len(s) : s[i] \in S
  BY AnySeq
<1> QED BY <1>1, SeqFacts

LEMMA TypedConcat ==
  ASSUME NEW S, NEW s \in Seq(S), NEW t \in Seq(S)
  PROVE  /\ s \o t \in Seq(S) /\ ToSet(s \o t) = ToSet(s) \cup ToSet(t)
         /\ Len(s \o t) = Len(s) + Len(t)
         /\ \A i \in 1 .. Len(s) : (s \o t)[i] = s[i]
         /\ \A i \in 1 .. Len(t) : (s \o t)[Len(s) + i] = t[i]
  BY TypedSeq, Concat

LEMMA NoElementsIn ==
  ASSUME NEW S, NEW s \in Seq(S), ToSet(s) = {}
  PROVE  s = <<>>
<1>1. Len(s) \in Nat /\ \A i \in 1 .. Len(s) : s[i] \in ToSet(s)
  BY TypedSeq
<1>2. Len(s) = 0
  <2>1. Len(s) > 0 => 1 \in 1 .. Len(s)
    BY <1>1
  <2> QED BY <1>1, <2>1
<1> QED BY <1>2

LEMMA Typed ==
  ASSUME NEW S, NEW s, IsSeq(s), \A x \in ToSet(s) : x \in S
  PROVE  s \in Seq(S)
  BY DEF IsSeq

-----------------------------------------------------------------------------

LEMMA FieldType ==
  ASSUME NEW dom, NEW name \in Names, NEW typ \in Words, NEW array \in BOOLEAN,
         NEW ref \in References, NEW enum \in EnumValues,
         NEW f, f = Field(dom, name, typ, array, ref, enum)
  PROVE  f \in FieldSet /\ f.enum = enum /\ ~f.deprecated
  BY DEF Field, FieldSet, IsCircularDep

LEMMA HiddenField ==
  ASSUME NEW name \in Names, NEW f, f = Hidden(name)
  PROVE  f \in FieldSet /\ f.hidden /\ f.enum = <<>> /\ ~f.deprecated
<1>1. "" \in Words
  BY FixupWords
<1>2. <<>> \in References /\ <<>> \in EnumValues /\ FALSE \in BOOLEAN
  BY DEF References, EnumValues
<1>3. PICK dom, b, e : dom = "" /\ b = FALSE /\ e = <<>>
  OBVIOUS
<1>4. e \in References /\ e \in EnumValues /\ dom \in Words /\ b \in BOOLEAN
  BY <1>1, <1>2, <1>3
<1>5. PICK g : g = Field(dom, name, dom, b, e, e)
  OBVIOUS
<1>6. g \in FieldSet /\ g.enum = e /\ ~g.deprecated
  BY <1>4, <1>5, FieldType
<1>7. f = [g EXCEPT !.hidden = TRUE]
  BY <1>3, <1>5 DEF Hidden
<1>8. f \in FieldSet /\ f.hidden /\ f.enum = e /\ ~f.deprecated
  BY <1>6, <1>7 DEF FieldSet
<1> QED BY <1>3, <1>8

LEMMA EnumTypeType ==
  ASSUME NEW dom \in DomainNames, NEW name \in Names, NEW typ \in Words, NEW values \in Names,
         NEW t, t = EnumType(dom, name, typ, values)
  PROVE  /\ t \in ItemSet /\ t.raw = <<dom, name>> /\ t.kind = "type" /\ t.name = name
         /\ ~t.array /\ t.ref = <<>> /\ t.enum = <<values>> /\ t.fields = <<>> /\ t.returns = <<>>
         /\ ~t.deprecated /\ t.typ = typ
<1>1. <<>> \in References /\ <<values>> \in EnumValues /\ <<>> \in Seq(FieldSet)
  BY DEF References, EnumValues
<1> QED BY <1>1 DEF EnumType, Item, ItemSet, IsCircularDep

(* The types that FixDomains adds.                                         *)
Simple(typ) == typ # "object" /\ typ # ""
Bare(t) == t.kind = "type" /\ ~t.array /\ t.ref = <<>> /\ t.fields = <<>> /\ t.returns = <<>>

LEMMA FlaggedType ==
  ASSUME NEW u \in ItemSet, NEW c \in BOOLEAN, NEW t, t = Flagged(u, c)
  PROVE  /\ t \in ItemSet /\ t.circular = c /\ t.raw = u.raw /\ t.kind = u.kind /\ t.name = u.name
         /\ t.typ = u.typ /\ t.array = u.array /\ t.ref = u.ref /\ t.enum = u.enum
         /\ t.fields = u.fields /\ t.returns = u.returns /\ t.deprecated = u.deprecated
  BY DEF Flagged, ItemSet

LEMMA AddedType ==
  ASSUME NEW dom \in DomainNames, NEW name \in Names, NEW typ \in Words, Simple(typ),
         NEW values \in Names, NEW c \in BOOLEAN, 
         NEW t, t = Flagged(EnumType(dom, name, typ, values), c)
  PROVE  /\ <<t>> \in Seq(ItemSet) /\ ToSet(<<t>>) = {t}
         /\ Bare(t) /\ t.raw[1] = dom /\ t.enum # <<>> /\ Simple(t.typ)
<1>1. PICK u : u = EnumType(dom, name, typ, values)
  OBVIOUS
<1>2. u \in ItemSet /\ Bare(u) /\ u.raw[1] = dom /\ u.enum = <<values>> /\ u.typ = typ
  BY <1>1, EnumTypeType DEF Bare, Names
<1>3. t \in ItemSet /\ Bare(t) /\ t.raw[1] = dom /\ t.enum = <<values>> /\ t.typ = typ
  BY <1>1, <1>2, FlaggedType DEF Bare
<1>4. <<t>> \in Seq(ItemSet) /\ ToSet(<<t>>) = {t}
  BY <1>3, Single
<1>5. <<values>> # <<>>
  OBVIOUS
<1> QED BY <1>3, <1>4, <1>5

LEMMA AddedTypes ==
  ASSUME NEW dom \in DomainNames
  PROVE  /\ Added(dom) \in Seq(ItemSet)
         /\ \A t \in ToSet(Added(dom)) :
              Bare(t) /\ t.raw[1] = dom /\ t.enum # <<>> /\ Simple(t.typ)
<1>1. <<>> \in Seq(ItemSet) /\ ToSet(<<>>) = {}
  BY NoElements
<1>2. NodeType \in Names /\ <<"Modifier">> \in Names /\ <<"Detach", "Reason">> \in Names
  BY FixupWords, ShortNames DEF Names, NodeType
<1>3. <<"Element", "Text">> \in Names /\ <<"None", "Alt">> \in Names /\ <<"target_closed">> \in Names
  BY FixupWords, ShortNames
<1>4. "integer" \in Words /\ "string" \in Words /\ Simple("integer") /\ Simple("string")
  BY FixupWords DEF Simple
<1>5. CASE dom = "DOM"
  <2>0. PICK name, typ, values, c : name = NodeType /\ typ = "integer" /\ values = <<"Element", "Text">> /\ c = TRUE
    OBVIOUS
  <2>1. PICK t : t = Flagged(EnumType(dom, name, typ, values), c)
    OBVIOUS
  <2>2. Added(dom) = <<t>>
    BY <1>5, <2>0, <2>1 DEF Added
  <2>3. /\ <<t>> \in Seq(ItemSet) /\ ToSet(<<t>>) = {t}
        /\ Bare(t) /\ t.raw[1] = dom /\ t.enum # <<>> /\ Simple(t.typ)
    <3>1. name \in Names /\ typ \in Words /\ Simple(typ) /\ values \in Names /\ c \in BOOLEAN
      BY <1>2, <1>3, <1>4, <2>0
    <3> QED BY <2>1, <3>1, AddedType
  <2> QED BY <2>2, <2>3
<1>6. CASE dom = "Input"
  <2>0. PICK name, typ, values, c : name = <<"Modifier">> /\ typ = "integer" /\ values = <<"None", "Alt">> /\ c = FALSE
    OBVIOUS
  <2>1. PICK t : t = Flagged(EnumType(dom, name, typ, values), c)
    OBVIOUS
  <2>2. Added(dom) = <<t>>
    BY <1>6, <2>0, <2>1 DEF Added
  <2>3. /\ <<t>> \in Seq(ItemSet) /\ ToSet(<<t>>) = {t}
        /\ Bare(t) /\ t.raw[1] = dom /\ t.enum # <<>> /\ Simple(t.typ)
    <3>1. name \in Names /\ typ \in Words /\ Simple(typ) /\ values \in Names /\ c \in BOOLEAN
      BY <1>2, <1>3, <1>4, <2>0
    <3> QED BY <2>1, <3>1, AddedType
  <2> QED BY <2>2, <2>3
<1>7. CASE dom = "Inspector"
  <2>0. PICK name, typ, values, c : name = <<"Detach", "Reason">> /\ typ = "string" /\ values = <<"target_closed">> /\ c = FALSE
    OBVIOUS
  <2>1. PICK t : t = Flagged(EnumType(dom, name, typ, values), c)
    OBVIOUS
  <2>2. Added(dom) = <<t>>
    BY <1>7, <2>0, <2>1 DEF Added
  <2>3. /\ <<t>> \in Seq(ItemSet) /\ ToSet(<<t>>) = {t}
        /\ Bare(t) /\ t.raw[1] = dom /\ t.enum # <<>> /\ Simple(t.typ)
    <3>1. name \in Names /\ typ \in Words /\ Simple(typ) /\ values \in Names /\ c \in BOOLEAN
      BY <1>2, <1>3, <1>4, <2>0
    <3> QED BY <2>1, <3>1, AddedType
  <2> QED BY <2>2, <2>3
<1>8. CASE dom \notin {"DOM", "Input", "Inspector"}
  BY <1>1, <1>8 DEF Added
<1> QED BY <1>5, <1>6, <1>7, <1>8
-----------------------------------------------------------------------------
(* The corrections to particular domains.                                  *)

(* What they leave of a member.                                            *)
SameMember(f, g) ==
  /\ g.name = f.name /\ g.array = f.array /\ g.enum = f.enum /\ g.circular = f.circular
  /\ g.deprecated = f.deprecated /\ g.hidden = f.hidden

TypeOrRef(f) == f.typ = "" <=> f.ref # <<>>

Redirect(f, ref, typ) == [f EXCEPT !.ref = ref, !.typ = typ]

LEMMA Redirected ==
  ASSUME NEW f \in FieldSet, NEW ref \in References, ref # <<>>, NEW typ \in Words,
         NEW g, g = Redirect(f, ref, typ)
  PROVE  g \in FieldSet /\ SameMember(f, g) /\ g.ref = ref /\ g.typ = typ
  BY DEF FieldSet, SameMember, Redirect

LEMMA NamesHere ==
  ASSUME NEW name \in Names
  PROVE  <<"", name>> \in References /\ <<"", name>> # <<>>
<1>1. "" \in Words /\ "" # "cdp"
  BY FixupWords
<1> QED BY <1>1 DEF References

LEMMA OfFrameType ==
  ASSUME NEW f \in FieldSet, NEW g, g = OfFrame(f) \/ g = OfDetached(f)
  PROVE  g \in FieldSet /\ SameMember(f, g) /\ (TypeOrRef(f) => TypeOrRef(g))
<1>1. FrameId \in Names /\ <<"Detach", "Reason">> \in Names /\ "" \in Words
  BY FixupWords, ShortNames DEF FrameId
<1>2. CASE g = f
  BY <1>2 DEF SameMember
<1>3. ASSUME NEW name \in Names, g = [f EXCEPT !.ref = <<"", name>>, !.typ = ""]
      PROVE  g \in FieldSet /\ SameMember(f, g) /\ (TypeOrRef(f) => TypeOrRef(g))
  <2>1. PICK ref, typ : ref = <<"", name>> /\ typ = ""
    OBVIOUS
  <2>2. ref \in References /\ ref # <<>> /\ typ \in Words
    BY <1>1, <2>1, NamesHere
  <2>3. g = Redirect(f, ref, typ)
    BY <1>3, <2>1 DEF Redirect
  <2>4. g \in FieldSet /\ SameMember(f, g) /\ g.ref = ref /\ g.typ = typ
    BY <2>2, <2>3, Redirected
  <2> QED BY <2>1, <2>2, <2>4 DEF TypeOrRef
<1>4. g = f \/ g = [f EXCEPT !.ref = <<"", FrameId>>, !.typ = ""]
        \/ g = [f EXCEPT !.ref = <<"", <<"Detach", "Reason">>>>, !.typ = ""]
  BY DEF OfFrame, OfDetached
<1> QED BY <1>1, <1>2, <1>3, <1>4

(* Hidden members that are appended.                                       *)
Extra(x) == x \in FieldSet /\ x.hidden /\ x.enum = <<>> /\ ~x.deprecated

LEMMA HiddenSeq ==
  ASSUME NEW a, NEW b, NEW c, NEW d, Extra(a), Extra(b), Extra(c), Extra(d)
  PROVE  <<a, b, c, d>> \in Seq(FieldSet) /\ \A x \in ToSet(<<a, b, c, d>>) : Extra(x)
<1> DEFINE s == <<a, b, c, d>>
<1>1. a \in FieldSet /\ b \in FieldSet /\ c \in FieldSet /\ d \in FieldSet
  BY DEF Extra
<1>2. s \in Seq(FieldSet)
  BY <1>1
<1>3. DOMAIN s = 1 .. 4 /\ s[1] = a /\ s[2] = b /\ s[3] = c /\ s[4] = d
  OBVIOUS
<1>4. \A i \in 1 .. 4 : i = 1 \/ i = 2 \/ i = 3 \/ i = 4
  OBVIOUS
<1> QED BY <1>2, <1>3, <1>4 DEF ToSet

LEMMA HiddenExtras ==
  /\ Extra(Hidden(<<"Parent">>)) /\ Extra(Hidden(<<"Invalidated">>)) /\ Extra(Hidden(<<"State">>))
  /\ Extra(Hidden(<<>>)) /\ Extra(Hidden(<<"Root">>)) /\ Extra(Hidden(<<"Nodes">>))
<1>1. ASSUME NEW name \in Names PROVE Extra(Hidden(name))
  BY HiddenField DEF Extra
<1>2. /\ <<"Parent">> \in Names /\ <<"Invalidated">> \in Names /\ <<"State">> \in Names
      /\ <<>> \in Names /\ <<"Root">> \in Names /\ <<"Nodes">> \in Names
  BY FixupWords, ShortNames
<1> QED BY <1>1, <1>2

FieldNow(t, f) ==
  IF t.kind = "type" /\ t.raw = <<"Page", <<"Frame">>>> THEN OfFrame(f)
  ELSE IF t.kind = "event" /\ t.raw = <<"Inspector", <<"detached">>>> THEN OfDetached(f)
  ELSE f

LEMMA FieldNowType ==
  ASSUME NEW t, NEW f \in FieldSet, NEW g, g = FieldNow(t, f)
  PROVE  g \in FieldSet /\ SameMember(f, g) /\ (TypeOrRef(f) => TypeOrRef(g))
<1>1. CASE g = f
  BY <1>1 DEF SameMember
<1>2. g = f \/ g = OfFrame(f) \/ g = OfDetached(f)
  BY DEF FieldNow
<1> QED BY <1>1, <1>2, OfFrameType

SameItem(t, u) ==
  /\ u.raw = t.raw /\ u.kind = t.kind /\ u.array = t.array /\ u.ref = t.ref /\ u.enum = t.enum
  /\ u.circular = t.circular /\ u.deprecated = t.deprecated /\ u.redirect = t.redirect
  /\ u.returns = t.returns

(* The elements of fs are those of the members of t, as they are changed,  *)
(* and hidden ones.                                                        *)
FieldsNow(t, fs) ==
  /\ fs \in Seq(FieldSet)
  /\ \A f \in ToSet(t.fields) : FieldNow(t, f) \in ToSet(fs)
  /\ \A x \in ToSet(fs) : Extra(x) \/ \E f \in ToSet(t.fields) : x = FieldNow(t, f)

LEMMA MembersMapped ==
  ASSUME NEW t \in ItemSet
  PROVE  FieldsNow(t, [i \in 1 .. Len(t.fields) |-> FieldNow(t, t.fields[i])])
<1>0. PICK fs : fs = [i \in 1 .. Len(t.fields) |-> FieldNow(t, t.fields[i])]
  OBVIOUS
<1>1. t.fields \in Seq(FieldSet)
  BY DEF ItemSet
<1>2. /\ Len(t.fields) \in Nat /\ \A i \in 1 .. Len(t.fields) : t.fields[i] \in FieldSet
      /\ \A x : x \in ToSet(t.fields) <=> \E i \in 1 .. Len(t.fields) : t.fields[i] = x
  BY <1>1, TypedSeq
<1>3. \A i \in 1 .. Len(t.fields) : fs[i] = FieldNow(t, t.fields[i]) /\ fs[i] \in FieldSet
  BY <1>0, <1>2, FieldNowType
<1>4. fs \in Seq(FieldSet) /\ Len(fs) = Len(t.fields)
  <2>1. fs \in [1 .. Len(t.fields) -> FieldSet]
    BY <1>0, <1>3
  <2> QED BY <1>2, <2>1
<1>5. \A x : x \in ToSet(fs) <=> \E i \in 1 .. Len(t.fields) : fs[i] = x
  <2>1. \A x : x \in ToSet(fs) <=> \E i \in 1 .. Len(fs) : fs[i] = x
    BY <1>4, TypedSeq
  <2> QED BY <1>4, <2>1, Zenon
<1>6. FieldsNow(t, fs)
  BY <1>2, <1>3, <1>4, <1>5 DEF FieldsNow
<1> QED BY <1>0, <1>6, Zenon

LEMMA MembersAppended ==
  ASSUME NEW t \in ItemSet, NEW fs, FieldsNow(t, fs),
         NEW s \in Seq(FieldSet), \A x \in ToSet(s) : Extra(x)
  PROVE  FieldsNow(t, fs \o s)
<1>1. fs \o s \in Seq(FieldSet) /\ ToSet(fs \o s) = ToSet(fs) \cup ToSet(s)
  BY TypedConcat DEF FieldsNow
<1> QED BY <1>1 DEF FieldsNow

LEMMA NewFieldsNow ==
  ASSUME NEW t \in ItemSet, t.kind = "type"
  PROVE  FieldsNow(t, NewFields(t))
<1> DEFINE old == [i \in 1 .. Len(t.fields) |-> FieldNow(t, t.fields[i])]
<1>1. FieldsNow(t, old)
  BY MembersMapped
<1>2. t.fields \in Seq(FieldSet) 
  BY DEF ItemSet
<1>3. CASE t.raw = <<"Page", <<"Frame">>>>
  <2>0. PICK a, b, c, d : a = Hidden(<<"State">>) /\ b = Hidden(<<"Root">>) /\ c = Hidden(<<"Nodes">>) /\ d = Hidden(<<>>)
    OBVIOUS
  <2>1. PICK s : s = <<a, b, c, d>>
    OBVIOUS
  <2>2. s \in Seq(FieldSet) /\ \A x \in ToSet(s) : Extra(x)
    <3>1. Extra(a) /\ Extra(b) /\ Extra(c) /\ Extra(d)
      BY <2>0, HiddenExtras, Zenon
    <3> QED BY <2>1, <3>1, HiddenSeq
  <2>3. FieldsNow(t, old \o s)
    BY <1>1, <2>2, MembersAppended
  <2>4. MapSeq(t.fields, OfFrame) = old
    BY <1>3 DEF MapSeq, FieldNow
  <2>5. "Page" # "DOM"
    OBVIOUS
  <2>6. NewFields(t) = MapSeq(t.fields, OfFrame) \o s
    BY <1>3, <2>0, <2>1, <2>5 DEF NewFields
  <2> QED BY <2>3, <2>4, <2>6
<1>4. CASE t.raw # <<"Page", <<"Frame">>>>
  <2>1. old = [i \in 1 .. Len(t.fields) |-> t.fields[i]]
    BY <1>4 DEF FieldNow
  <2>2. old = t.fields
    BY <1>2, <2>1
  <2>3. CASE t.raw = <<"DOM", <<"Node">>>>
    <3>0. PICK a, b, c, d : a = Hidden(<<"Parent">>) /\ b = Hidden(<<"Invalidated">>) /\ c = Hidden(<<"State">>) /\ d = Hidden(<<>>)
      OBVIOUS
    <3>1. PICK s : s = <<a, b, c, d>>
      OBVIOUS
    <3>2. s \in Seq(FieldSet) /\ \A x \in ToSet(s) : Extra(x)
      <4>1. Extra(a) /\ Extra(b) /\ Extra(c) /\ Extra(d)
        BY <3>0, HiddenExtras, Zenon
      <4> QED BY <3>1, <4>1, HiddenSeq
    <3>3. FieldsNow(t, t.fields \o s)
      BY <1>1, <2>2, <3>2, MembersAppended
    <3>4. NewFields(t) = t.fields \o s
      BY <2>3, <3>0, <3>1 DEF NewFields
    <3> QED BY <3>3, <3>4
  <2>4. CASE t.raw # <<"DOM", <<"Node">>>>
    <3>1. NewFields(t) = t.fields
      BY <1>4, <2>4 DEF NewFields
    <3> QED BY <1>1, <2>2, <3>1
  <2> QED BY <2>3, <2>4
<1> QED BY <1>3, <1>4

LEMMA AsFixedShape ==
  ASSUME NEW t \in ItemSet, NEW u, u = AsFixed(t)
  PROVE  u \in ItemSet /\ SameItem(t, u) /\ FieldsNow(t, u.fields)
<1> DEFINE old == [i \in 1 .. Len(t.fields) |-> FieldNow(t, t.fields[i])]
<1>1. FieldsNow(t, old)
  BY MembersMapped
<1>2. t.kind \in {"type", "command", "event"} /\ t.fields \in Seq(FieldSet)
  BY DEF ItemSet
<1>3. CASE t.kind = "type"
  <2>1. FieldsNow(t, NewFields(t)) /\ NewFields(t) \in Seq(FieldSet)
    BY <1>3, NewFieldsNow DEF FieldsNow
  <2>2. NewName(t) \in Names
    <3>1. <<"Computed", "Property">> \in Names /\ <<"Gesture", "Type">> \in Names /\ t.name \in Names
      BY FixupWords, ShortNames DEF ItemSet
    <3> QED BY <3>1 DEF NewName
  <2>3. NewType(t) \in Words
    <3>1. "timestamp" \in Words /\ "map" \in Words /\ t.typ \in Words
      BY FixupWords DEF ItemSet
    <3> QED BY <3>1 DEF NewType
  <2>4. PICK name, typ, fields : name = NewName(t) /\ typ = NewType(t) /\ fields = NewFields(t)
    OBVIOUS
  <2>5. u = [t EXCEPT !.name = name, !.typ = typ, !.fields = fields]
    BY <1>3, <2>4 DEF AsFixed, Changed
  <2>6. name \in Names /\ typ \in Words /\ fields \in Seq(FieldSet) /\ FieldsNow(t, fields)
    BY <2>1, <2>2, <2>3, <2>4
  <2>7. u \in ItemSet /\ SameItem(t, u) /\ u.fields = fields
    BY <2>5, <2>6 DEF ItemSet, SameItem
  <2> QED BY <2>6, <2>7
<1>4. CASE t.kind = "event" /\ t.raw = <<"Inspector", <<"detached">>>>
  <2>1. old = MapSeq(t.fields, OfDetached)
    BY <1>4 DEF MapSeq, FieldNow
  <2> HIDE DEF old
  <2>2. u = [t EXCEPT !.fields = old]
    BY <1>4, <2>1 DEF AsFixed, ChangedEvent
  <2>3. old \in Seq(FieldSet)
    BY <1>1 DEF FieldsNow
  <2>4. u \in ItemSet /\ SameItem(t, u) /\ u.fields = old
    BY <2>2, <2>3 DEF ItemSet, SameItem
  <2> QED BY <1>1, <2>4
<1>5. CASE t.kind # "type" /\ ~(t.kind = "event" /\ t.raw = <<"Inspector", <<"detached">>>>)
  <2>1. u = t
    BY <1>5 DEF AsFixed, ChangedEvent
  <2>2. old = t.fields
    <3>1. old = [i \in 1 .. Len(t.fields) |-> t.fields[i]]
      BY <1>5 DEF FieldNow
    <3> QED BY <1>2, <3>1
  <2> QED BY <1>1, <2>1, <2>2 DEF SameItem
<1> QED BY <1>3, <1>4, <1>5
-----------------------------------------------------------------------------
(* What is deprecated goes: the members that are left are the same.        *)

CleanItem(t) == [t EXCEPT !.fields = LiveFields(t.fields), !.returns = LiveFields(t.returns)]

LEMMA LiveFieldsType ==
  ASSUME NEW fs \in Seq(FieldSet)
  PROVE  /\ LiveFields(fs) \in Seq(FieldSet)
         /\ \A x : x \in ToSet(LiveFields(fs)) <=> x \in ToSet(fs) /\ ~x.deprecated
<1>1. PICK I : I = {i \in 1 .. Len(fs) : ~fs[i].deprecated}
  OBVIOUS
<1>2. LiveFields(fs) = Picked(fs, I)
  BY <1>1 DEF LiveFields, Filter
<1>3. Picked(fs, I) \in Seq(FieldSet)
  BY PickedType
<1>4. IsSeq(fs) /\ \A x : x \in ToSet(fs) <=> \E i \in 1 .. Len(fs) : fs[i] = x
  BY TypedSeq
<1>5. \A x : x \in ToSet(Picked(fs, I)) <=> \E i \in 1 .. Len(fs) : i \in I /\ fs[i] = x
  BY <1>4, PickedElements
<1> QED BY <1>1, <1>2, <1>3, <1>4, <1>5

LEMMA CleanItemType ==
  ASSUME NEW t \in ItemSet, NEW c, c = CleanItem(t)
  PROVE  /\ c \in ItemSet /\ c.fields = LiveFields(t.fields) /\ c.returns = LiveFields(t.returns)
         /\ c.raw = t.raw /\ c.kind = t.kind /\ c.name = t.name /\ c.typ = t.typ
         /\ c.array = t.array /\ c.ref = t.ref /\ c.enum = t.enum /\ c.circular = t.circular
         /\ c.deprecated = t.deprecated /\ c.redirect = t.redirect
<1>1. t.fields \in Seq(FieldSet) /\ t.returns \in Seq(FieldSet)
  BY DEF ItemSet
<1>2. PICK fs, rs : fs = LiveFields(t.fields) /\ rs = LiveFields(t.returns)
  OBVIOUS
<1>3. fs \in Seq(FieldSet) /\ rs \in Seq(FieldSet)
  BY <1>1, <1>2, LiveFieldsType
<1>4. c = [t EXCEPT !.fields = fs, !.returns = rs]
  BY <1>2 DEF CleanItem
<1> QED BY <1>2, <1>3, <1>4 DEF ItemSet

LEMMA MembersAre ==
  ASSUME NEW t \in ItemSet
  PROVE  \A x : x \in Members(t) <=>
           /\ ~x.deprecated /\ ~x.hidden
           /\ x \in ToSet(t.returns) \/ \E f \in ToSet(t.fields) : x = FieldNow(t, f)
<1>1. PICK u : u = AsFixed(t)
  OBVIOUS
<1>2. u \in ItemSet /\ u.returns = t.returns /\ FieldsNow(t, u.fields)
  BY <1>1, AsFixedShape DEF SameItem
<1>3. u.fields \in Seq(FieldSet) /\ u.returns \in Seq(FieldSet)
  BY <1>2 DEF ItemSet
<1>4. ToSet(u.fields \o u.returns) = ToSet(u.fields) \cup ToSet(u.returns)
  BY <1>3, TypedConcat
<1>5. Members(t) = {f \in ToSet(u.fields \o u.returns) : ~f.deprecated /\ ~f.hidden}
  BY <1>1 DEF Members
<1> QED BY <1>2, <1>4, <1>5 DEF FieldsNow, Extra

LEMMA MemberType ==
  ASSUME NEW t \in ItemSet, NEW x \in Members(t)
  PROVE  x \in FieldSet
<1>1. \A f \in ToSet(t.fields) \cup ToSet(t.returns) : f \in FieldSet
  BY TypedSeq DEF ItemSet
<1>2. x \in ToSet(t.returns) \/ \E f \in ToSet(t.fields) : x = FieldNow(t, f)
  BY MembersAre
<1> QED BY <1>1, <1>2, FieldNowType

LEMMA CleanMembers ==
  ASSUME NEW t \in ItemSet, NEW c, c = CleanItem(t)
  PROVE  Members(c) = Members(t)
<1>1. /\ c \in ItemSet /\ c.raw = t.raw /\ c.kind = t.kind
      /\ c.fields = LiveFields(t.fields) /\ c.returns = LiveFields(t.returns)
  BY CleanItemType
<1>2. t.fields \in Seq(FieldSet) /\ t.returns \in Seq(FieldSet)
  BY DEF ItemSet
<1>3. /\ \A x : x \in ToSet(c.fields) <=> x \in ToSet(t.fields) /\ ~x.deprecated
      /\ \A x : x \in ToSet(c.returns) <=> x \in ToSet(t.returns) /\ ~x.deprecated
  BY <1>1, <1>2, LiveFieldsType
<1>4. \A f : FieldNow(c, f) = FieldNow(t, f)
  BY <1>1 DEF FieldNow
<1>5. \A f \in ToSet(t.fields) : FieldNow(t, f).deprecated = f.deprecated
  <2>1. \A f \in ToSet(t.fields) : f \in FieldSet
    BY <1>2, TypedSeq
  <2> QED BY <2>1, FieldNowType DEF SameMember
<1>6. \A x : x \in Members(t) <=>
           /\ ~x.deprecated /\ ~x.hidden
           /\ x \in ToSet(t.returns) \/ \E f \in ToSet(t.fields) : x = FieldNow(t, f)
  BY MembersAre
<1>7. \A x : x \in Members(c) <=>
           /\ ~x.deprecated /\ ~x.hidden
           /\ x \in ToSet(c.returns) \/ \E f \in ToSet(c.fields) : x = FieldNow(t, f)
  BY <1>1, <1>4, MembersAre
<1>8. \A x : x \in Members(c) <=> x \in Members(t)
  BY <1>3, <1>5, <1>6, <1>7
<1> QED BY <1>8

(* Names and types that the corrections give are the same for both.        *)
LEMMA CleanNames ==
  ASSUME NEW t \in ItemSet, NEW c, c = CleanItem(t), NEW u, u = AsFixed(t), NEW v, v = AsFixed(c)
  PROVE  v.name = u.name /\ v.typ = u.typ /\ \A f : EnumName(v, f) = EnumName(u, f)
<1>1. c \in ItemSet /\ c.raw = t.raw /\ c.kind = t.kind /\ c.name = t.name /\ c.typ = t.typ
  BY CleanItemType
<1>2. NewName(c) = NewName(t) /\ NewType(c) = NewType(t)
  BY <1>1 DEF NewName, NewType
<1>3. ASSUME NEW w \in ItemSet
      PROVE  /\ AsFixed(w).name = IF w.kind = "type" THEN NewName(w) ELSE w.name
             /\ AsFixed(w).typ = IF w.kind = "type" THEN NewType(w) ELSE w.typ
  <2>1. PICK name, typ, fields : name = NewName(w) /\ typ = NewType(w) /\ fields = NewFields(w)
    OBVIOUS
  <2>2. CASE w.kind = "type"
    <3>1. AsFixed(w) = [w EXCEPT !.name = name, !.typ = typ, !.fields = fields]
      BY <2>1, <2>2 DEF AsFixed, Changed
    <3> QED BY <2>1, <2>2, <3>1 DEF ItemSet
  <2>3. CASE w.kind # "type"
    <3>1. PICK fs : fs = MapSeq(w.fields, OfDetached)
      OBVIOUS
    <3>2. AsFixed(w) = w \/ AsFixed(w) = [w EXCEPT !.fields = fs]
      BY <2>3, <3>1 DEF AsFixed, ChangedEvent
    <3> QED BY <2>3, <3>2 DEF ItemSet
  <2> QED BY <2>2, <2>3
<1>4. v.name = u.name /\ v.typ = u.typ
  BY <1>1, <1>2, <1>3
<1>5. v.raw = u.raw
  BY <1>1, AsFixedShape DEF SameItem
<1> QED BY <1>4, <1>5 DEF EnumName
-----------------------------------------------------------------------------
(* convertObjectProperties.                                                *)

LEMMA EnumNameType ==
  ASSUME NEW u \in ItemSet, NEW f \in FieldSet
  PROVE  EnumName(u, f) \in Names
<1>1. u.name \in Seq(Words) /\ f.name \in Seq(Words)
  BY DEF ItemSet, FieldSet, Names
<1>2. u.name \o f.name \in Names
  BY <1>1 DEF Names
<1>3. \A x \in DOMAIN EnumRefMap : EnumRefMap[x] \in Names
  BY FixupWords
<1> QED BY <1>2, <1>3 DEF EnumName

(* What the converted member of the item u refers to.                      *)
NamedIn(u, f) ==
  IF f.array THEN f.ref
  ELSE IF f.enum # <<>> THEN <<"", EnumName(u, f)>>
  ELSE IF f.name = <<"modifiers">> THEN <<"", <<"Modifier">>>>
  ELSE IF f.name = <<"node", "Type">> THEN <<"DOM", NodeType>>
  ELSE f.ref

LEMMA NamedIsIn == ASSUME NEW t, NEW f PROVE LookedUp(t, f) = NamedIn(AsFixed(t), f)
  BY DEF LookedUp, Named, NamedIn, IsModifiers, IsNodeType, Extracted

Turned(f, g) ==
  /\ g \in FieldSet /\ g.name = f.name /\ g.enum = <<>> /\ g.deprecated = f.deprecated
  /\ g.hidden = f.hidden

LEMMA ConvertedType ==
  ASSUME NEW u \in ItemSet, NEW f \in FieldSet, NEW g, g = Converted(u, f)
  PROVE  /\ Turned(f, g) /\ g.ref = NamedIn(u, f)
         /\ TypeOrRef(f) => TypeOrRef(g)
<1>1. "" \in Words /\ <<"Modifier">> \in Names /\ NodeType \in Names /\ EnumName(u, f) \in Names
  BY FixupWords, ShortNames, EnumNameType DEF NodeType
<1>2. <<>> \in EnumValues
  BY DEF EnumValues
<1>3. "DOM" \in Words \ {"cdp"}
  BY FixupWords
<1>4. <<"DOM", NodeType>> \in References /\ <<"DOM", NodeType>> # <<>>
  BY <1>1, <1>3 DEF References
<1>5. CASE f.array
  <2>1. PICK e : e = <<>>
    OBVIOUS
  <2>2. g = [f EXCEPT !.enum = e]
    BY <1>5, <2>1 DEF Converted, Extracted
  <2>3. /\ g \in FieldSet /\ g.name = f.name /\ g.enum = e /\ g.deprecated = f.deprecated
        /\ g.hidden = f.hidden /\ g.ref = f.ref /\ g.typ = f.typ
    BY <1>2, <2>1, <2>2 DEF FieldSet
  <2> QED BY <1>5, <2>1, <2>3 DEF Turned, TypeOrRef, NamedIn
<1>6. CASE ~f.array /\ f.enum # <<>>
  <2>1. PICK e, typ, ref : e = <<>> /\ typ = "" /\ ref = <<"", EnumName(u, f)>>
    OBVIOUS
  <2>2. g = [f EXCEPT !.typ = typ, !.ref = ref, !.enum = e, !.circular = FALSE]
    BY <1>6, <2>1 DEF Converted, Extracted
  <2>3. e \in EnumValues /\ typ \in Words /\ ref \in References /\ ref # <<>>
    BY <1>1, <1>2, <2>1, NamesHere
  <2>4. /\ g \in FieldSet /\ g.name = f.name /\ g.enum = e /\ g.deprecated = f.deprecated
        /\ g.hidden = f.hidden /\ g.ref = ref /\ g.typ = typ
    BY <2>2, <2>3 DEF FieldSet
  <2> QED BY <1>6, <2>1, <2>3, <2>4 DEF Turned, TypeOrRef, NamedIn
<1>7. ASSUME NEW ref \in References, ref # <<>>, NamedIn(u, f) = ref, f.enum = <<>>,
             NEW typ \in Words, g = Redirect(f, ref, typ)
      PROVE  Turned(f, g) /\ g.ref = NamedIn(u, f) /\ g.ref # <<>> /\ g.typ = typ
  <2>1. g \in FieldSet /\ SameMember(f, g) /\ g.ref = ref /\ g.typ = typ
    BY <1>7, Redirected
  <2> QED BY <1>7, <2>1 DEF Turned, SameMember
<1>8. CASE ~f.array /\ f.enum = <<>> /\ f.name = <<"modifiers">>
  <2>1. PICK typ, ref : typ = "" /\ ref = <<"", <<"Modifier">>>>
    OBVIOUS
  <2>2. g = Redirect(f, ref, typ)
    <3>1. <<"modifiers">> # <<"node", "Type">>
      OBVIOUS
    <3> QED BY <1>8, <2>1, <3>1 DEF Converted, Extracted, Redirect
  <2>3. ref \in References /\ ref # <<>>
    BY <1>1, <2>1, NamesHere
  <2>4. NamedIn(u, f) = ref
    BY <1>8, <2>1 DEF NamedIn
  <2>5. typ \in Words
    BY <1>1, <2>1
  <2>6. Turned(f, g) /\ g.ref = NamedIn(u, f) /\ g.ref # <<>> /\ g.typ = typ
    BY <1>7, <1>8, <2>2, <2>3, <2>4, <2>5
  <2> QED BY <2>1, <2>6 DEF TypeOrRef
<1>9. CASE ~f.array /\ f.enum = <<>> /\ f.name # <<"modifiers">> /\ f.name = <<"node", "Type">>
  <2>1. PICK typ, ref : typ = "" /\ ref = <<"DOM", NodeType>>
    OBVIOUS
  <2>2. g = Redirect(f, ref, typ)
    BY <1>9, <2>1 DEF Converted, Extracted, Redirect
  <2>3. ref \in References /\ ref # <<>>
    BY <1>4, <2>1
  <2>4. NamedIn(u, f) = ref
    BY <1>9, <2>1 DEF NamedIn
  <2>5. typ \in Words
    BY <1>1, <2>1
  <2>6. Turned(f, g) /\ g.ref = NamedIn(u, f) /\ g.ref # <<>> /\ g.typ = typ
    BY <1>7, <1>9, <2>2, <2>3, <2>4, <2>5
  <2> QED BY <2>1, <2>6 DEF TypeOrRef
<1>10. CASE ~f.array /\ f.enum = <<>> /\ f.name # <<"modifiers">> /\ f.name # <<"node", "Type">>
  <2>1. g = f
    BY <1>10 DEF Converted, Extracted
  <2> QED BY <1>10, <2>1 DEF Turned, NamedIn
<1> QED BY <1>5, <1>6, <1>8, <1>9, <1>10
-----------------------------------------------------------------------------
(* What becomes of an item that is not deprecated.                         *)

ConvertedFields(u, fs) == MapSeq(fs, LAMBDA f : Converted(u, f))

LEMMA ConvertedFieldsType ==
  ASSUME NEW u \in ItemSet, NEW fs \in Seq(FieldSet), NEW gs, gs = ConvertedFields(u, fs)
  PROVE  /\ gs \in Seq(FieldSet) /\ Len(gs) = Len(fs)
         /\ \A x : x \in ToSet(gs) <=> \E f \in ToSet(fs) : x = Converted(u, f)
<1>1. /\ Len(fs) \in Nat /\ \A i \in 1 .. Len(fs) : fs[i] \in FieldSet
      /\ \A x : x \in ToSet(fs) <=> \E i \in 1 .. Len(fs) : fs[i] = x
  BY TypedSeq
<1>2. gs = [i \in 1 .. Len(fs) |-> Converted(u, fs[i])]
  BY DEF ConvertedFields, MapSeq
<1>3. \A i \in 1 .. Len(fs) : gs[i] = Converted(u, fs[i]) /\ gs[i] \in FieldSet
  BY <1>1, <1>2, ConvertedType DEF Turned
<1>4. gs \in Seq(FieldSet) /\ Len(gs) = Len(fs)
  <2>1. gs \in [1 .. Len(fs) -> FieldSet]
    BY <1>2, <1>3
  <2> QED BY <1>1, <2>1
<1>5. \A x : x \in ToSet(gs) <=> \E i \in 1 .. Len(fs) : gs[i] = x
  <2>1. \A x : x \in ToSet(gs) <=> \E i \in 1 .. Len(gs) : gs[i] = x
    BY <1>4, TypedSeq
  <2> QED BY <1>4, <2>1, Zenon
<1> QED BY <1>1, <1>3, <1>4, <1>5

LEMMA ConvertedItemType ==
  ASSUME NEW u \in ItemSet, NEW v, v = ConvertedItem(u)
  PROVE  /\ v \in ItemSet /\ v.raw = u.raw /\ v.kind = u.kind /\ v.name = u.name /\ v.typ = u.typ
         /\ v.array = u.array /\ v.ref = u.ref /\ v.enum = u.enum /\ v.circular = u.circular
         /\ v.deprecated = u.deprecated /\ v.redirect = u.redirect
         /\ v.fields = ConvertedFields(u, u.fields) /\ v.returns = ConvertedFields(u, u.returns)
<1>1. PICK fs, rs : fs = ConvertedFields(u, u.fields) /\ rs = ConvertedFields(u, u.returns)
  OBVIOUS
<1>2. u.fields \in Seq(FieldSet) /\ u.returns \in Seq(FieldSet)
  BY DEF ItemSet
<1>3. fs \in Seq(FieldSet) /\ rs \in Seq(FieldSet)
  BY <1>1, <1>2, ConvertedFieldsType
<1>4. v = [u EXCEPT !.fields = fs, !.returns = rs]
  BY <1>1 DEF ConvertedItem, ConvertedFields
<1> QED BY <1>1, <1>3, <1>4 DEF ItemSet

(* The members are done: they have no enum, and a type or a reference.      *)
MemberDone(x) == x.enum = <<>> /\ ~x.deprecated /\ (x.hidden \/ TypeOrRef(x))
FieldsDone(v) == \A x \in ToSet(v.fields) \cup ToSet(v.returns) : MemberDone(x)

(* v is what the item t of the protocol has become, up to its name.        *)
SameMembers(v, t) ==
  /\ \A x \in ToSet(v.fields) \cup ToSet(v.returns) :
       ~x.hidden => \E f \in Members(t) : x.name = f.name /\ x.ref = LookedUp(t, f)
  /\ \A f \in Members(t) : \E x \in ToSet(v.fields) \cup ToSet(v.returns) :
       ~x.hidden /\ x.name = f.name /\ x.ref = LookedUp(t, f)

Becomes(t, v) ==
  /\ v \in ItemSet /\ v.raw = t.raw /\ v.kind = t.kind /\ v.array = t.array /\ v.ref = t.ref
  /\ v.circular = t.circular /\ v.typ = AsFixed(t).typ
  /\ FieldsDone(v) /\ SameMembers(v, t)
  /\ t.returns = <<>> => v.returns = <<>>

(* What is left of t, with the corrections: its members, and hidden ones.  *)
Now(t) == AsFixed(CleanItem(t))

MembersKept(t, u) ==
  /\ \A f \in ToSet(u.fields) \cup ToSet(u.returns) :
       f \in FieldSet /\ ~f.deprecated /\ (Extra(f) \/ (f \in Members(t) /\ TypeOrRef(f)))
  /\ \A f \in Members(t) : f \in ToSet(u.fields) \cup ToSet(u.returns) /\ ~f.hidden
  /\ \A f : EnumName(u, f) = EnumName(AsFixed(t), f)
  /\ t.returns = <<>> => ToSet(u.returns) = {}

LEMMA ItemNow ==
  ASSUME NEW t \in ItemSet, \A f \in ToSet(t.fields \o t.returns) : ~f.hidden /\ TypeOrRef(f),
         NEW u, u = Now(t)
  PROVE  /\ u \in ItemSet /\ u.raw = t.raw /\ u.kind = t.kind /\ u.array = t.array /\ u.ref = t.ref
         /\ u.enum = t.enum /\ u.circular = t.circular /\ u.typ = AsFixed(t).typ
         /\ MembersKept(t, u)
<1>1. PICK c : c = CleanItem(t)
  OBVIOUS
<1>2. /\ c \in ItemSet /\ c.fields = LiveFields(t.fields) /\ c.returns = LiveFields(t.returns)
      /\ c.raw = t.raw /\ c.kind = t.kind /\ c.array = t.array /\ c.ref = t.ref /\ c.enum = t.enum
      /\ c.circular = t.circular
  BY <1>1, CleanItemType
<1>3. u \in ItemSet /\ SameItem(c, u) /\ FieldsNow(c, u.fields)
  BY <1>1, <1>2, AsFixedShape DEF Now
<1>5. u.typ = AsFixed(t).typ /\ \A f : EnumName(u, f) = EnumName(AsFixed(t), f)
  BY <1>1, CleanNames DEF Now
<1>6. Members(c) = Members(t)
  BY <1>1, CleanMembers
<1>8. /\ u.fields \in Seq(FieldSet) /\ u.returns \in Seq(FieldSet) /\ u.returns = c.returns
      /\ t.fields \in Seq(FieldSet) /\ t.returns \in Seq(FieldSet)
  BY <1>3 DEF ItemSet, SameItem
<1>9. \A f \in ToSet(t.fields) \cup ToSet(t.returns) : f \in FieldSet /\ ~f.hidden /\ TypeOrRef(f)
  <2>1. ToSet(t.fields \o t.returns) = ToSet(t.fields) \cup ToSet(t.returns)
    BY <1>8, TypedConcat
  <2> QED BY <1>8, <2>1, TypedSeq
<1>10. /\ \A x : x \in ToSet(c.fields) <=> x \in ToSet(t.fields) /\ ~x.deprecated
       /\ \A x : x \in ToSet(c.returns) <=> x \in ToSet(t.returns) /\ ~x.deprecated
  BY <1>2, <1>8, LiveFieldsType
<1>11. \A x : x \in Members(t) <=>
           /\ ~x.deprecated /\ ~x.hidden
           /\ x \in ToSet(c.returns) \/ \E f \in ToSet(c.fields) : x = FieldNow(c, f)
  BY <1>2, <1>6, MembersAre
(* The members of u: those of t and hidden ones.                           *)
<1>12. ASSUME NEW f \in ToSet(u.fields) \cup ToSet(u.returns)
       PROVE  f \in FieldSet /\ ~f.deprecated /\ (Extra(f) \/ (f \in Members(t) /\ TypeOrRef(f)))
  <2>1. CASE f \in ToSet(u.returns)
    BY <1>8, <1>9, <1>10, <1>11, <2>1
  <2>2. CASE f \in ToSet(u.fields) /\ ~Extra(f)
    <3>1. PICK g \in ToSet(c.fields) : f = FieldNow(c, g)
      BY <1>3, <2>2 DEF FieldsNow
    <3>2. g \in FieldSet /\ ~g.hidden /\ ~g.deprecated /\ TypeOrRef(g)
      BY <1>9, <1>10
    <3>3. f \in FieldSet /\ SameMember(g, f) /\ TypeOrRef(f)
      BY <3>1, <3>2, FieldNowType
    <3>4. ~f.hidden /\ ~f.deprecated
      BY <3>2, <3>3 DEF SameMember
    <3> QED BY <1>11, <3>1, <3>3, <3>4
  <2>3. CASE Extra(f)
    BY <2>3 DEF Extra
  <2> QED BY <2>1, <2>2, <2>3
<1>13. ASSUME NEW f \in Members(t)
       PROVE  f \in ToSet(u.fields) \cup ToSet(u.returns) /\ ~f.hidden
  BY <1>3, <1>8, <1>11 DEF FieldsNow
<1>14. ASSUME t.returns = <<>> PROVE ToSet(u.returns) = {}
  BY <1>8, <1>10, <1>14, NoElements
<1> QED BY <1>2, <1>3, <1>5, <1>12, <1>13, <1>14 DEF MembersKept, SameItem

LEMMA ItemBecomes ==
  ASSUME NEW t \in ItemSet, \A f \in ToSet(t.fields \o t.returns) : ~f.hidden /\ TypeOrRef(f),
         NEW u, u = Now(t), NEW v, v = ConvertedItem(u)
  PROVE  Becomes(t, v) /\ v.enum = t.enum
<1>1. /\ u \in ItemSet /\ u.raw = t.raw /\ u.kind = t.kind /\ u.array = t.array /\ u.ref = t.ref
      /\ u.enum = t.enum /\ u.circular = t.circular /\ u.typ = AsFixed(t).typ
  BY ItemNow
<1>2. MembersKept(t, u)
  BY ItemNow
<1>4. /\ v \in ItemSet /\ v.raw = u.raw /\ v.kind = u.kind /\ v.typ = u.typ /\ v.array = u.array
      /\ v.ref = u.ref /\ v.enum = u.enum /\ v.circular = u.circular
      /\ v.fields = ConvertedFields(u, u.fields) /\ v.returns = ConvertedFields(u, u.returns)
  BY <1>1, ConvertedItemType
<1>7. \A f : NamedIn(u, f) = LookedUp(t, f)
  BY <1>2 DEF NamedIn, LookedUp, Named, IsModifiers, IsNodeType, Extracted, MembersKept
<1>8. u.fields \in Seq(FieldSet) /\ u.returns \in Seq(FieldSet)
  BY <1>1 DEF ItemSet
<1>12. ASSUME NEW f \in ToSet(u.fields) \cup ToSet(u.returns)
       PROVE  f \in FieldSet /\ ~f.deprecated /\ (Extra(f) \/ (f \in Members(t) /\ TypeOrRef(f)))
  BY <1>2 DEF MembersKept
<1>13. ASSUME NEW f \in Members(t)
       PROVE  f \in ToSet(u.fields) \cup ToSet(u.returns) /\ ~f.hidden
  BY <1>2 DEF MembersKept
<1>14. /\ \A x : x \in ToSet(v.fields) <=> \E f \in ToSet(u.fields) : x = Converted(u, f)
       /\ \A x : x \in ToSet(v.returns) <=> \E f \in ToSet(u.returns) : x = Converted(u, f)
  <2>1. \A x : x \in ToSet(ConvertedFields(u, u.fields)) <=> \E f \in ToSet(u.fields) : x = Converted(u, f)
    BY <1>1, <1>8, ConvertedFieldsType
  <2>2. \A x : x \in ToSet(ConvertedFields(u, u.returns)) <=> \E f \in ToSet(u.returns) : x = Converted(u, f)
    BY <1>1, <1>8, ConvertedFieldsType
  <2> QED BY <1>4, <2>1, <2>2
<1>15. ASSUME NEW f \in ToSet(u.fields) \cup ToSet(u.returns), NEW x, x = Converted(u, f)
       PROVE  /\ x.name = f.name /\ x.ref = LookedUp(t, f) /\ x.hidden = f.hidden /\ MemberDone(x)
  <2>1. f \in FieldSet /\ ~f.deprecated /\ (f.hidden \/ TypeOrRef(f))
    BY <1>12 DEF Extra
  <2>2. Turned(f, x) /\ x.ref = NamedIn(u, f) /\ (TypeOrRef(f) => TypeOrRef(x))
    BY <1>1, <1>15, <2>1, ConvertedType
  <2> QED BY <1>7, <2>1, <2>2 DEF Turned, MemberDone
<1>16. FieldsDone(v)
  BY <1>14, <1>15 DEF FieldsDone
<1>17. SameMembers(v, t)
  <2>1. ASSUME NEW x \in ToSet(v.fields) \cup ToSet(v.returns), ~x.hidden
        PROVE  \E f \in Members(t) : x.name = f.name /\ x.ref = LookedUp(t, f)
    <3>1. PICK f \in ToSet(u.fields) \cup ToSet(u.returns) : x = Converted(u, f)
      BY <1>14
    <3>2. x.name = f.name /\ x.ref = LookedUp(t, f) /\ x.hidden = f.hidden
      BY <1>15, <3>1
    <3>3. f \in Members(t)
      BY <1>12, <2>1, <3>2 DEF Extra
    <3> QED BY <3>2, <3>3
  <2>2. ASSUME NEW f \in Members(t)
        PROVE  \E x \in ToSet(v.fields) \cup ToSet(v.returns) :
                 ~x.hidden /\ x.name = f.name /\ x.ref = LookedUp(t, f)
    <3>1. PICK x : x = Converted(u, f)
      OBVIOUS
    <3>2. x \in ToSet(v.fields) \cup ToSet(v.returns)
      BY <1>13, <1>14, <3>1
    <3>3. x.name = f.name /\ x.ref = LookedUp(t, f) /\ ~x.hidden
      BY <1>13, <1>15, <3>1
    <3> QED BY <3>2, <3>3
  <2> QED BY <2>1, <2>2 DEF SameMembers
<1>18. ASSUME t.returns = <<>> PROVE v.returns = <<>>
  <2>1. ToSet(u.returns) = {}
    BY <1>2, <1>18 DEF MembersKept
  <2>2. v.returns \in Seq(FieldSet) /\ ToSet(v.returns) = {}
    BY <1>4, <1>14, <2>1 DEF ItemSet
  <2> QED BY <2>2, NoElementsIn
<1> QED BY <1>1, <1>4, <1>16, <1>17, <1>18 DEF Becomes

-----------------------------------------------------------------------------
(* addEnumValues: the enums of the members join the types.                 *)

Values(t) == IF t.enum = <<>> THEN {} ELSE ToSet(t.enum[1])

Once(s) == \A k, l \in 1 .. Len(s) : s[k] = s[l] => k = l

LEMMA EnumCases ==
  ASSUME NEW e \in EnumValues
  PROVE  e = <<>> \/ (e = <<e[1]>> /\ e[1] \in Names /\ e # <<>>)
<1>1. e \in Seq(Names) /\ Len(e) \in Nat /\ Len(e) <= 1
  BY DEF EnumValues
<1>2. CASE Len(e) = 0
  BY <1>1, <1>2
<1>3. CASE Len(e) = 1
  <2>1. e[1] \in Names /\ e = [i \in 1 .. 1 |-> e[1]]
    BY <1>1, <1>3
  <2>2. e = <<e[1]>>
    BY <1>1, <1>3, <2>1
  <2> QED BY <1>1, <1>3, <2>1, <2>2
<1>4. Len(e) = 0 \/ Len(e) = 1
  <2>1. \A n \in Nat : n <= 1 => n = 0 \/ n = 1
    OBVIOUS
  <2> QED BY <1>1, <2>1, Zenon
<1> QED BY <1>2, <1>3, <1>4

(* The place of a name among the types.                                    *)
LEMMA PlaceOfRaw ==
  ASSUME NEW ts \in Seq(ItemSet), NEW r, NEW i, i = PlaceOf(r, ts)
  PROVE  \/ i = 0 /\ \A k \in 1 .. Len(ts) : ts[k].raw # r
         \/ i \in 1 .. Len(ts) /\ ts[i].raw = r
<1>1. PICK I : I = {k \in 1 .. Len(ts) : ts[k].raw = r}
  OBVIOUS
<1>2. i = IF I # {} THEN Min(I) ELSE 0
  BY <1>1 DEF PlaceOf, SelectInSeq
<1>3. CASE I = {}
  BY <1>1, <1>2, <1>3
<1>4. CASE I # {}
  <2>1. I \subseteq Nat
    BY <1>1
  <2>2. Min(I) \in I
    BY <1>4, <2>1, FirstOf
  <2> QED BY <1>1, <1>2, <1>4, <2>2
<1> QED BY <1>3, <1>4

LEMMA SetEnum ==
  ASSUME NEW t \in ItemSet, NEW w \in Names, NEW u, u = [t EXCEPT !.enum = <<w>>]
  PROVE  /\ u \in ItemSet /\ u.enum = <<w>> /\ u.enum # <<>> /\ u.enum[1] = w
         /\ u.raw = t.raw /\ u.kind = t.kind /\ u.name = t.name /\ u.typ = t.typ /\ u.array = t.array
         /\ u.ref = t.ref /\ u.circular = t.circular /\ u.deprecated = t.deprecated
         /\ u.fields = t.fields /\ u.returns = t.returns
<1>1. PICK e : e = <<w>>
  OBVIOUS
<1>2. e \in EnumValues /\ e # <<>> /\ e[1] = w
  BY <1>1 DEF EnumValues
<1>3. u = [t EXCEPT !.enum = e]
  BY <1>1
<1>4. u \in ItemSet /\ u.enum = e
         /\ u.raw = t.raw /\ u.kind = t.kind /\ u.name = t.name /\ u.typ = t.typ /\ u.array = t.array
         /\ u.ref = t.ref /\ u.circular = t.circular /\ u.deprecated = t.deprecated
         /\ u.fields = t.fields /\ u.returns = t.returns
  BY <1>2, <1>3 DEF ItemSet
<1> QED BY <1>1, <1>2, <1>4

(* u is t with other values.                                               *)
Revalued(t, u) ==
  /\ u \in ItemSet /\ u.enum # <<>> /\ u.enum[1] \in Names /\ Once(u.enum[1])
  /\ u.raw = t.raw /\ u.kind = t.kind /\ u.name = t.name /\ u.typ = t.typ /\ u.array = t.array
  /\ u.ref = t.ref /\ u.circular = t.circular /\ u.deprecated = t.deprecated
  /\ u.fields = t.fields /\ u.returns = t.returns

LEMMA DistinctNames ==
  ASSUME NEW s \in Names, NEW w, w = Distinct(s)
  PROVE  w \in Names /\ ToSet(w) = ToSet(s) /\ Once(w)
<1>1. s \in Seq(Words)
  BY DEF Names
<1>2. IsSeq(s)
  BY <1>1, TypedSeq
<1>3. /\ IsSeq(Distinct(s)) /\ ToSet(Distinct(s)) = ToSet(s)
      /\ \A k, l \in 1 .. Len(Distinct(s)) : Distinct(s)[k] = Distinct(s)[l] => k = l
  BY <1>2, DistinctOnce
<1>4. \A x \in ToSet(s) : x \in Words
  BY <1>1, TypedSeq
<1>5. IsSeq(w) /\ ToSet(w) = ToSet(s) /\ Once(w)
  BY <1>3 DEF Once
<1>6. w \in Seq(Words)
  BY <1>4, <1>5, Typed
<1> QED BY <1>5, <1>6 DEF Names

(* One enum joins the types.                                               *)
Joined(ts, e, r) ==
  \/ /\ \A k \in 1 .. Len(ts) : ts[k].raw # e.raw
     /\ \E u : r = Append(ts, u) /\ Revalued(e, u) /\ Values(u) = Values(e)
  \/ \E i \in 1 .. Len(ts) : \E u :
       /\ ts[i].raw = e.raw /\ r = [ts EXCEPT ![i] = u]
       /\ Revalued(ts[i], u) /\ Values(u) = Values(ts[i]) \cup Values(e)

LEMMA OneJoins ==
  ASSUME NEW ts \in Seq(ItemSet), NEW e \in ItemSet, e.enum # <<>>,
         NEW r, r = AddEnumValues(ts, e)
  PROVE  Joined(ts, e, r)
<1>1. PICK i : i = PlaceOf(e.raw, ts)
  OBVIOUS
<1>2. \/ i = 0 /\ \A k \in 1 .. Len(ts) : ts[k].raw # e.raw
      \/ i \in 1 .. Len(ts) /\ ts[i].raw = e.raw
  BY <1>1, PlaceOfRaw
<1>3. \A k \in 1 .. Len(ts) : ts[k] \in ItemSet
  BY TypedSeq
<1>4. e.enum[1] \in Names /\ e.enum = <<e.enum[1]>> /\ e.enum \in EnumValues
  BY EnumCases DEF ItemSet
<1>5. <<>> \in Names /\ ToSet(<<>>) = {}
  BY NoElements DEF Names
<1>6. PICK old : old = IF i = 0 \/ ts[i].enum = <<>> THEN <<>> ELSE ts[i].enum[1]
  OBVIOUS
<1>7. old \in Names /\ (i # 0 => ToSet(old) = Values(ts[i])) /\ (i = 0 => ToSet(old) = {})
  <2>1. CASE i = 0
    BY <1>5, <1>6, <2>1
  <2>2. CASE i \in 1 .. Len(ts)
    <3>1. ts[i].enum \in EnumValues
      BY <1>3, <2>2 DEF ItemSet
    <3>2. ts[i].enum = <<>> \/ ts[i].enum[1] \in Names
      BY <3>1, EnumCases
    <3> QED BY <1>5, <1>6, <2>2, <3>2 DEF Values
  <2> QED BY <1>2, <2>1, <2>2
<1>8. PICK w : w = Distinct(old \o e.enum[1])
  OBVIOUS
<1>9. old \o e.enum[1] \in Names /\ ToSet(old \o e.enum[1]) = ToSet(old) \cup ToSet(e.enum[1])
  BY <1>4, <1>7, TypedConcat DEF Names
<1>10. w \in Names /\ ToSet(w) = ToSet(old) \cup Values(e) /\ Once(w)
  <2>1. w \in Names /\ ToSet(w) = ToSet(old \o e.enum[1]) /\ Once(w)
    BY <1>8, <1>9, DistinctNames
  <2> QED BY <1>9, <2>1 DEF Values
<1>11. r = IF i = 0 THEN Append(ts, [e EXCEPT !.enum = <<w>>]) ELSE [ts EXCEPT ![i].enum = <<w>>]
  BY <1>1, <1>6, <1>8 DEF AddEnumValues
<1>12. CASE i = 0
  <2>1. PICK u : u = [e EXCEPT !.enum = <<w>>]
    OBVIOUS
  <2>2. Revalued(e, u) /\ u.enum[1] = w /\ u.enum # <<>>
    BY <1>10, <2>1, SetEnum DEF Revalued
  <2>3. Values(u) = Values(e)
    BY <1>7, <1>10, <1>12, <2>2 DEF Values
  <2>4. r = Append(ts, u)
    BY <1>11, <1>12, <2>1
  <2>5. \A k \in 1 .. Len(ts) : ts[k].raw # e.raw
    BY <1>2, <1>12
  <2> QED BY <2>2, <2>3, <2>4, <2>5 DEF Joined
<1>13. CASE i \in 1 .. Len(ts)
  <2>1. PICK u : u = [ts[i] EXCEPT !.enum = <<w>>]
    OBVIOUS
  <2>2. Revalued(ts[i], u) /\ u.enum[1] = w /\ u.enum # <<>>
    BY <1>3, <1>10, <1>13, <2>1, SetEnum DEF Revalued
  <2>3. i # 0 /\ ts[i].raw = e.raw
    BY <1>2, <1>13
  <2>4. Values(u) = Values(ts[i]) \cup Values(e)
    BY <1>7, <1>10, <2>2, <2>3 DEF Values
  <2>5. r = [ts EXCEPT ![i] = u]
    BY <1>11, <2>1, <2>3
  <2> QED BY <1>13, <2>2, <2>3, <2>4, <2>5 DEF Joined
<1> QED BY <1>2, <1>12, <1>13
-----------------------------------------------------------------------------
(* All enums join the types, one after the other.                          *)

(* all is what has become of the types base with the first n of the enums. *)
Join(all, base, enums, n) ==
  /\ all \in Seq(ItemSet) /\ Len(all) >= Len(base)
  /\ \A i \in 1 .. Len(base) : all[i] = base[i] \/ Revalued(base[i], all[i])
  /\ \A i \in 1 .. Len(all) : i > Len(base) => \E j \in 1 .. n : Revalued(enums[j], all[i])
  /\ \A i, k \in 1 .. Len(all) : all[i].raw = all[k].raw => i = k
  /\ \A j \in 1 .. n : \E i \in 1 .. Len(all) :
       all[i].raw = enums[j].raw /\ all[i].enum # <<>> /\ Once(all[i].enum[1])
  /\ \A i \in 1 .. Len(all) : \A x : x \in Values(all[i]) <=>
       \/ i <= Len(base) /\ x \in Values(base[i])
       \/ \E j \in 1 .. n : enums[j].raw = all[i].raw /\ x \in Values(enums[j])

LEMMA JoinNone ==
  ASSUME NEW base \in Seq(ItemSet), NEW enums,
         \A i, k \in 1 .. Len(base) : base[i].raw = base[k].raw => i = k
  PROVE  Join(base, base, enums, 0)
<1>1. Len(base) \in Nat
  BY TypedSeq
<1> QED BY <1>1 DEF Join

LEMMA RevaluedTwice ==
  ASSUME NEW a, NEW b, NEW c, a = b \/ Revalued(a, b), Revalued(b, c)
  PROVE  Revalued(a, c)
  BY DEF Revalued

LEMMA JoinNew ==
  ASSUME NEW base \in Seq(ItemSet), NEW enums \in Seq(ItemSet), NEW n \in Nat, n + 1 \in 1 .. Len(enums),
         NEW ts, Join(ts, base, enums, n), NEW e, e = enums[n + 1], NEW u, Revalued(e, u), Values(u) = Values(e),
         \A k \in 1 .. Len(ts) : ts[k].raw # e.raw,
         NEW r, r = Append(ts, u)
  PROVE  Join(r, base, enums, n + 1)
<1>1. ts \in Seq(ItemSet) /\ Len(ts) \in Nat /\ Len(base) \in Nat /\ Len(ts) >= Len(base) /\ u \in ItemSet
  BY TypedSeq DEF Join, Revalued
<1>2. PICK m : m = n + 1
  OBVIOUS
<1>3. \A j : j \in 1 .. m <=> j \in 1 .. n \/ j = m
  BY <1>2
<1>4. PICK a : a = Len(ts)
  OBVIOUS
<1>5. /\ r \in Seq(ItemSet) /\ Len(r) = a + 1 /\ r[a + 1] = u
      /\ \A i \in 1 .. a : r[i] = ts[i]
  BY <1>1, <1>4
<1>6. \A i : i \in 1 .. a + 1 <=> i \in 1 .. a \/ i = a + 1
  BY <1>1, <1>4
<1>7. \A i \in 1 .. Len(base) : i \in 1 .. a
  BY <1>1, <1>4
<1>8. a + 1 > Len(base) /\ a + 1 >= Len(base) /\ ~(a + 1 <= Len(base)) /\ a + 1 \notin 1 .. a
  BY <1>1, <1>4
<1>9. u.raw = e.raw /\ u.enum # <<>> /\ Once(u.enum[1]) /\ enums[m] = e
  BY <1>2 DEF Revalued
<1>10. \A i \in 1 .. Len(base) : r[i] = base[i] \/ Revalued(base[i], r[i])
  BY <1>5, <1>7 DEF Join
<1>11. ASSUME NEW i \in 1 .. a + 1, i > Len(base) PROVE \E j \in 1 .. m : Revalued(enums[j], r[i])
  <2>1. CASE i \in 1 .. a
    <3>1. \E j \in 1 .. n : Revalued(enums[j], ts[i])
      BY <1>4, <1>11, <2>1 DEF Join
    <3> QED BY <1>3, <1>5, <2>1, <3>1
  <2>2. CASE i = a + 1
    BY <1>3, <1>5, <1>9, <2>2
  <2> QED BY <1>6, <2>1, <2>2
<1>12. ASSUME NEW i \in 1 .. a + 1, NEW k \in 1 .. a + 1, r[i].raw = r[k].raw PROVE i = k
  BY <1>4, <1>5, <1>6, <1>9, <1>12 DEF Join
<1>13. ASSUME NEW j \in 1 .. m
       PROVE  \E i \in 1 .. a + 1 : r[i].raw = enums[j].raw /\ r[i].enum # <<>> /\ Once(r[i].enum[1])
  <2>1. CASE j \in 1 .. n
    <3>1. PICK i \in 1 .. a : ts[i].raw = enums[j].raw /\ ts[i].enum # <<>> /\ Once(ts[i].enum[1])
      BY <1>4, <2>1 DEF Join
    <3> QED BY <1>5, <1>6, <3>1
  <2>2. CASE j = m
    BY <1>5, <1>6, <1>9, <2>2
  <2> QED BY <1>3, <2>1, <2>2
<1>14. ASSUME NEW i \in 1 .. a + 1, NEW x
       PROVE  x \in Values(r[i]) <=>
                \/ i <= Len(base) /\ x \in Values(base[i])
                \/ \E j \in 1 .. m : enums[j].raw = r[i].raw /\ x \in Values(enums[j])
  <2>1. CASE i \in 1 .. a
    <3>1. x \in Values(ts[i]) <=>
                \/ i <= Len(base) /\ x \in Values(base[i])
                \/ \E j \in 1 .. n : enums[j].raw = ts[i].raw /\ x \in Values(enums[j])
      BY <1>4, <2>1 DEF Join
    <3>2. r[i] = ts[i] /\ enums[m].raw # ts[i].raw
      BY <1>4, <1>5, <1>9, <2>1
    <3> QED BY <1>3, <3>1, <3>2
  <2>2. CASE i = a + 1
    <3>1. r[i] = u /\ ~(i <= Len(base))
      BY <1>5, <1>8, <2>2
    <3>2. ASSUME NEW j \in 1 .. n PROVE enums[j].raw # e.raw
      BY DEF Join
    <3> QED BY <1>3, <1>9, <3>1, <3>2
  <2> QED BY <1>6, <2>1, <2>2
<1>15. Join(r, base, enums, m)
  BY <1>5, <1>8, <1>10, <1>11, <1>12, <1>13, <1>14 DEF Join
<1> QED BY <1>2, <1>15

LEMMA JoinOld ==
  ASSUME NEW base \in Seq(ItemSet), NEW enums \in Seq(ItemSet), NEW n \in Nat, n + 1 \in 1 .. Len(enums),
         NEW ts, Join(ts, base, enums, n), NEW e, e = enums[n + 1], NEW u, NEW p \in 1 .. Len(ts),
         ts[p].raw = e.raw, Revalued(ts[p], u), Values(u) = Values(ts[p]) \cup Values(e),
         NEW r, r = [ts EXCEPT ![p] = u]
  PROVE  Join(r, base, enums, n + 1)
<1>1. ts \in Seq(ItemSet) /\ Len(ts) \in Nat /\ Len(base) \in Nat /\ Len(ts) >= Len(base) /\ u \in ItemSet
  BY TypedSeq DEF Join, Revalued
<1>2. PICK m : m = n + 1
  OBVIOUS
<1>3. \A j : j \in 1 .. m <=> j \in 1 .. n \/ j = m
  BY <1>2
<1>4. PICK a : a = Len(ts)
  OBVIOUS
<1>5. /\ r \in Seq(ItemSet) /\ Len(r) = a /\ r[p] = u
      /\ \A i \in 1 .. a : i # p => r[i] = ts[i]
  BY <1>1, <1>4
<1>6. \A i \in 1 .. Len(base) : i \in 1 .. a
  BY <1>1, <1>4
<1>7. u.raw = ts[p].raw /\ u.enum # <<>> /\ Once(u.enum[1]) /\ enums[m] = e /\ p \in 1 .. a
  BY <1>2, <1>4 DEF Revalued
<1>8. \A i \in 1 .. a : r[i].raw = ts[i].raw
  BY <1>5, <1>7
<1>9. \A i \in 1 .. Len(base) : r[i] = base[i] \/ Revalued(base[i], r[i])
  <2>1. \A i \in 1 .. Len(base) : ts[i] = base[i] \/ Revalued(base[i], ts[i])
    BY DEF Join
  <2> QED BY <1>5, <1>6, <2>1, RevaluedTwice
<1>10. ASSUME NEW i \in 1 .. a, i > Len(base) PROVE \E j \in 1 .. m : Revalued(enums[j], r[i])
  <2>1. PICK j \in 1 .. n : Revalued(enums[j], ts[i])
    BY <1>4, <1>10 DEF Join
  <2>2. j \in 1 .. m
    BY <1>3
  <2>3. Revalued(enums[j], r[i])
    BY <1>5, <2>1, RevaluedTwice
  <2> QED BY <2>2, <2>3
<1>11. ASSUME NEW i \in 1 .. a, NEW k \in 1 .. a, r[i].raw = r[k].raw PROVE i = k
  BY <1>4, <1>8, <1>11 DEF Join
<1>12. ASSUME NEW j \in 1 .. m
       PROVE  \E i \in 1 .. a : r[i].raw = enums[j].raw /\ r[i].enum # <<>> /\ Once(r[i].enum[1])
  <2>1. CASE j \in 1 .. n
    <3>1. PICK i \in 1 .. a : ts[i].raw = enums[j].raw /\ ts[i].enum # <<>> /\ Once(ts[i].enum[1])
      BY <1>4, <2>1 DEF Join
    <3> QED BY <1>5, <1>7, <1>8, <3>1
  <2>2. CASE j = m
    BY <1>5, <1>7, <2>2
  <2> QED BY <1>3, <2>1, <2>2
<1>13. ASSUME NEW i \in 1 .. a, NEW x
       PROVE  x \in Values(r[i]) <=>
                \/ i <= Len(base) /\ x \in Values(base[i])
                \/ \E j \in 1 .. m : enums[j].raw = r[i].raw /\ x \in Values(enums[j])
  <2>1. x \in Values(ts[i]) <=>
                \/ i <= Len(base) /\ x \in Values(base[i])
                \/ \E j \in 1 .. n : enums[j].raw = ts[i].raw /\ x \in Values(enums[j])
    BY <1>4 DEF Join
  <2>2. r[i].raw = ts[i].raw
    BY <1>8
  <2>3. CASE i = p
    BY <1>3, <1>5, <1>7, <2>1, <2>2, <2>3
  <2>4. CASE i # p
    <3>1. r[i] = ts[i] /\ ts[i].raw # e.raw
      BY <1>4, <1>5, <1>7, <2>4 DEF Join
    <3> QED BY <1>3, <1>7, <2>1, <3>1
  <2> QED BY <2>3, <2>4
<1>14. Join(r, base, enums, m)
  BY <1>1, <1>4, <1>5, <1>9, <1>10, <1>11, <1>12, <1>13 DEF Join
<1> QED BY <1>2, <1>14

(* The types when the enums up to the nth have joined.                     *)
JoinStep(g, base, enums, n) == IF n = 0 THEN base ELSE AddEnumValues(g[n - 1], enums[n])

LEMMA JoinExists ==
  ASSUME NEW base, NEW enums, NEW n \in Nat
  PROVE  \E g : g = [i \in 0 .. n |-> JoinStep(g, base, enums, i)]
<1> DEFINE S == {m \in Nat : \E g : g = [i \in 0 .. m |-> JoinStep(g, base, enums, i)]}
<1>1. 0 \in S
  <2> DEFINE g == [i \in 0 .. 0 |-> base]
  <2>1. g = [i \in 0 .. 0 |-> JoinStep(g, base, enums, i)]
    BY DEF JoinStep
  <2> HIDE DEF g
  <2> QED BY <2>1
<1>2. ASSUME NEW m \in Nat, m \in S PROVE m + 1 \in S
  <2>1. PICK g : g = [i \in 0 .. m |-> JoinStep(g, base, enums, i)]
    BY <1>2
  <2> DEFINE h == [i \in 0 .. m + 1 |-> IF i <= m THEN g[i] ELSE JoinStep(g, base, enums, i)]
  <2>2. ASSUME NEW i \in 0 .. m + 1 PROVE h[i] = JoinStep(h, base, enums, i)
    <3>1. i > 0 => i - 1 \in 0 .. m
      OBVIOUS
    <3>2. i > 0 => h[i - 1] = g[i - 1]
      BY <3>1
    <3>3. JoinStep(h, base, enums, i) = JoinStep(g, base, enums, i)
      BY <3>2 DEF JoinStep
    <3>4. CASE i <= m
      BY <2>1, <3>3, <3>4
    <3> QED BY <3>3, <3>4
  <2>3. h = [i \in 0 .. m + 1 |-> JoinStep(h, base, enums, i)]
    BY <2>2
  <2> HIDE DEF h
  <2> QED BY <2>3
<1> HIDE DEF S
<1>3. Nat \subseteq S
  BY <1>1, <1>2, Numbers
<1> QED BY <1>3 DEF S

LEMMA JoinAll ==
  ASSUME NEW base \in Seq(ItemSet), NEW enums \in Seq(ItemSet),
         \A j \in 1 .. Len(enums) : enums[j].enum # <<>>,
         \A i, k \in 1 .. Len(base) : base[i].raw = base[k].raw => i = k,
         NEW g, g = [i \in 0 .. Len(enums) |-> JoinStep(g, base, enums, i)]
  PROVE  Join(g[Len(enums)], base, enums, Len(enums))
<1> DEFINE S == {n \in Nat : n \in 0 .. Len(enums) => Join(g[n], base, enums, n)}
<1>1. Len(enums) \in Nat /\ \A j \in 1 .. Len(enums) : enums[j] \in ItemSet
  BY TypedSeq
<1>2. 0 \in S
  <2>1. g[0] = base
    BY <1>1 DEF JoinStep
  <2> QED BY <2>1, JoinNone
<1>3. ASSUME NEW n \in Nat, n \in S, n + 1 \in 0 .. Len(enums)
      PROVE  Join(g[n + 1], base, enums, n + 1)
  <2>1. n \in 0 .. Len(enums) /\ n + 1 \in 1 .. Len(enums) /\ n + 1 # 0 /\ (n + 1) - 1 = n
    BY <1>1, <1>3
  <2>2. Join(g[n], base, enums, n)
    BY <1>3, <2>1
  <2>3. PICK ts : ts = g[n]
    OBVIOUS
  <2>4. PICK e : e = enums[n + 1]
    OBVIOUS
  <2>5. PICK r : r = AddEnumValues(ts, e)
    OBVIOUS
  <2>6. g[n + 1] = r
    BY <1>3, <2>1, <2>3, <2>4, <2>5 DEF JoinStep
  <2>7. e \in ItemSet /\ e.enum # <<>> /\ ts \in Seq(ItemSet) /\ Join(ts, base, enums, n)
    BY <1>1, <2>1, <2>2, <2>3, <2>4 DEF Join
  <2>8. Joined(ts, e, r)
    BY <2>5, <2>7, OneJoins
  <2>9. CASE \E u : r = Append(ts, u) /\ Revalued(e, u) /\ Values(u) = Values(e)
             /\ \A k \in 1 .. Len(ts) : ts[k].raw # e.raw
    <3>1. PICK u : r = Append(ts, u) /\ Revalued(e, u) /\ Values(u) = Values(e)
      BY <2>9
    <3>2. Join(r, base, enums, n + 1)
      BY <2>1, <2>4, <2>7, <2>9, <3>1, JoinNew
    <3> QED BY <2>6, <3>2
  <2>10. CASE \E i \in 1 .. Len(ts) : \E u :
       /\ ts[i].raw = e.raw /\ r = [ts EXCEPT ![i] = u]
       /\ Revalued(ts[i], u) /\ Values(u) = Values(ts[i]) \cup Values(e)
    <3>1. PICK i, u :
       /\ i \in 1 .. Len(ts)
       /\ ts[i].raw = e.raw /\ r = [ts EXCEPT ![i] = u]
       /\ Revalued(ts[i], u) /\ Values(u) = Values(ts[i]) \cup Values(e)
      BY <2>10
    <3>2. Join(r, base, enums, n + 1)
      BY <2>1, <2>4, <2>7, <3>1, JoinOld
    <3> QED BY <2>6, <3>2
  <2> QED BY <2>8, <2>9, <2>10 DEF Joined
<1> HIDE DEF S
<1>4. ASSUME NEW n \in Nat, n \in S PROVE n + 1 \in S
  <2>1. n + 1 \in Nat
    OBVIOUS
  <2>2. n + 1 \in 0 .. Len(enums) => Join(g[n + 1], base, enums, n + 1)
    BY <1>3, <1>4
  <2> QED BY <2>1, <2>2 DEF S
<1>5. Nat \subseteq S
  BY <1>2, <1>4, Numbers
<1>6. Len(enums) \in 0 .. Len(enums)
  BY <1>1
<1> QED BY <1>1, <1>5, <1>6 DEF S

LEMMA StepsOfWithEnums ==
  ASSUME NEW base, NEW enums, Len(enums) \in Nat
  PROVE  \E g : /\ g = [i \in 0 .. Len(enums) |-> JoinStep(g, base, enums, i)]
                /\ WithEnums(base, enums) = g[Len(enums)]
<1> DEFINE P(f) == f = [n \in 0 .. Len(enums) |->
                          IF n = 0 THEN base ELSE AddEnumValues(f[n - 1], enums[n])]
<1>1. \E f : P(f)
  <2>1. PICK f : f = [i \in 0 .. Len(enums) |-> JoinStep(f, base, enums, i)]
    BY JoinExists
  <2>2. P(f)
    BY <2>1, Zenon DEF JoinStep
  <2> HIDE DEF P
  <2> QED BY <2>2, Zenon
<1>2. P(CHOOSE f : P(f))
  BY <1>1, Zenon
<1>3. PICK f : P(f) /\ f = CHOOSE x : P(x)
  BY <1>2
<1>4. WithEnums(base, enums) = f[Len(enums)]
  BY <1>3 DEF WithEnums
<1>5. f = [i \in 0 .. Len(enums) |-> JoinStep(f, base, enums, i)]
  BY <1>3, Zenon DEF JoinStep
<1> HIDE DEF P
<1> QED BY <1>4, <1>5, Zenon

(* WithEnums: what the types are when all enums have joined them.          *)
LEMMA AllJoin ==
  ASSUME NEW base \in Seq(ItemSet), NEW enums \in Seq(ItemSet),
         \A j \in 1 .. Len(enums) : enums[j].enum # <<>>,
         \A i, k \in 1 .. Len(base) : base[i].raw = base[k].raw => i = k
  PROVE  Join(WithEnums(base, enums), base, enums, Len(enums))
<1>1. Len(enums) \in Nat
  BY TypedSeq
<1>2. PICK g : /\ g = [i \in 0 .. Len(enums) |-> JoinStep(g, base, enums, i)]
               /\ WithEnums(base, enums) = g[Len(enums)]
  BY <1>1, StepsOfWithEnums
<1>3. Join(g[Len(enums)], base, enums, Len(enums))
  BY <1>2, JoinAll
<1> QED BY <1>2, <1>3

-----------------------------------------------------------------------------
(* The types that the enums of an item are made into.                      *)

EnumItem(u, f) == Flagged(EnumType(u.raw[1], EnumName(u, f), "string", f.enum[1]), f.circular)

LEMMA StringIsSimple == "string" \in Words /\ Simple("string")
  BY FixupWords DEF Simple

LEMMA EnumItemType ==
  ASSUME NEW u \in ItemSet, NEW f \in FieldSet, Extracted(f), NEW e, e = EnumItem(u, f)
  PROVE  /\ e \in ItemSet /\ Bare(e) /\ Simple(e.typ) /\ e.raw = <<u.raw[1], EnumName(u, f)>>
         /\ e.enum = f.enum /\ e.enum # <<>> /\ e.circular = f.circular
<1>1. PICK typ : typ = "string"
  OBVIOUS
<1>2. typ \in Words /\ Simple(typ)
  BY <1>1, StringIsSimple
<1>3. PICK name, dom, values, c : name = EnumName(u, f) /\ dom = u.raw[1] /\ values = f.enum[1] /\ c = f.circular
  OBVIOUS
<1>4. name \in Names /\ dom \in DomainNames /\ c \in BOOLEAN
  BY <1>3, EnumNameType DEF ItemSet, FieldSet
<1>5. f.enum = <<values>> /\ values \in Names /\ f.enum # <<>>
  BY <1>3, EnumCases DEF FieldSet, Extracted
<1>6. PICK b : b = EnumType(dom, name, typ, values)
  OBVIOUS
<1>7. /\ b \in ItemSet /\ b.raw = <<dom, name>> /\ b.kind = "type" /\ ~b.array /\ b.ref = <<>>
      /\ b.enum = <<values>> /\ b.fields = <<>> /\ b.returns = <<>> /\ b.typ = typ
  BY <1>2, <1>4, <1>5, <1>6, EnumTypeType
<1>8. e = Flagged(b, c)
  BY <1>1, <1>3, <1>6 DEF EnumItem
<1>9. /\ e \in ItemSet /\ e.circular = c /\ e.raw = b.raw /\ e.kind = b.kind /\ e.typ = b.typ /\ e.array = b.array
      /\ e.ref = b.ref /\ e.enum = b.enum /\ e.fields = b.fields /\ e.returns = b.returns
  BY <1>4, <1>7, <1>8, FlaggedType
<1> QED BY <1>2, <1>3, <1>5, <1>7, <1>9 DEF Bare

LEMMA EnumsOfType ==
  ASSUME NEW u \in ItemSet, NEW es, es = EnumsOf(u)
  PROVE  /\ es \in Seq(ItemSet)
         /\ \A x : x \in ToSet(es) <=>
              \E f \in ToSet(u.fields) \cup ToSet(u.returns) : Extracted(f) /\ x = EnumItem(u, f)
<1>1. PICK fs : fs = u.fields \o u.returns
  OBVIOUS
<1>2. fs \in Seq(FieldSet) /\ ToSet(fs) = ToSet(u.fields) \cup ToSet(u.returns)
  BY <1>1, TypedConcat DEF ItemSet
<1>3. PICK I : I = {i \in 1 .. Len(fs) : Extracted(fs[i])}
  OBVIOUS
<1>4. PICK p : p = Picked(fs, I)
  OBVIOUS
<1>5. es = [i \in 1 .. Len(p) |-> EnumItem(u, p[i])]
  BY <1>1, <1>3, <1>4 DEF EnumsOf, Filter, MapSeq, EnumItem
<1>6. p \in Seq(FieldSet)
  BY <1>2, <1>4, PickedType
<1>7. \A f : f \in ToSet(p) <=> f \in ToSet(fs) /\ Extracted(f)
  <2>1. IsSeq(fs) /\ \A x : x \in ToSet(fs) <=> \E i \in 1 .. Len(fs) : fs[i] = x
    BY <1>2, TypedSeq
  <2>2. \A f : f \in ToSet(p) <=> \E i \in 1 .. Len(fs) : i \in I /\ fs[i] = f
    BY <1>4, <2>1, PickedElements
  <2> QED BY <1>3, <2>1, <2>2
<1>8. /\ Len(p) \in Nat /\ \A i \in 1 .. Len(p) : p[i] \in ToSet(p) /\ p[i] \in FieldSet
      /\ \A x : x \in ToSet(p) <=> \E i \in 1 .. Len(p) : p[i] = x
  BY <1>6, TypedSeq
<1>9. \A i \in 1 .. Len(p) : es[i] = EnumItem(u, p[i]) /\ es[i] \in ItemSet
  BY <1>5, <1>7, <1>8, EnumItemType
<1>10. es \in Seq(ItemSet) /\ Len(es) = Len(p)
  <2>1. es \in [1 .. Len(p) -> ItemSet]
    BY <1>5, <1>9
  <2> QED BY <1>8, <2>1
<1>11. \A x : x \in ToSet(es) <=> \E i \in 1 .. Len(p) : es[i] = x
  <2>1. \A x : x \in ToSet(es) <=> \E i \in 1 .. Len(es) : es[i] = x
    BY <1>10, TypedSeq
  <2> QED BY <1>10, <2>1, Zenon
<1>12. \A x : x \in ToSet(es) <=> \E f \in ToSet(p) : x = EnumItem(u, f)
  BY <1>8, <1>9, <1>11
<1> QED BY <1>2, <1>7, <1>10, <1>12

(* Which they are, said of the item as it was given.                       *)
MadeOf(t, f, e) ==
  /\ f \in Members(t) /\ Extracted(f) /\ e \in ItemSet /\ Bare(e) /\ Simple(e.typ)
  /\ e.raw = <<t.raw[1], EnumName(AsFixed(t), f)>>
  /\ e.enum = f.enum /\ e.enum # <<>> /\ e.circular = f.circular

LEMMA EnumsMade ==
  ASSUME NEW t \in ItemSet, \A f \in ToSet(t.fields \o t.returns) : ~f.hidden /\ TypeOrRef(f),
         NEW es, es = EnumsOf(Now(t))
  PROVE  /\ es \in Seq(ItemSet)
         /\ \A e \in ToSet(es) : \E f : MadeOf(t, f, e)
         /\ \A f \in Members(t) : Extracted(f) => \E e \in ToSet(es) : MadeOf(t, f, e)
<1>1. PICK u : u = Now(t)
  OBVIOUS
<1>2. u \in ItemSet /\ u.raw = t.raw /\ MembersKept(t, u)
  BY <1>1, ItemNow
<1>3. /\ es \in Seq(ItemSet)
      /\ \A x : x \in ToSet(es) <=>
              \E f \in ToSet(u.fields) \cup ToSet(u.returns) : Extracted(f) /\ x = EnumItem(u, f)
  BY <1>1, <1>2, EnumsOfType
<1>4. ASSUME NEW f \in Members(t), Extracted(f), NEW e, e = EnumItem(u, f) PROVE MadeOf(t, f, e)
  <2>1. f \in FieldSet /\ EnumName(u, f) = EnumName(AsFixed(t), f)
    BY <1>2, MemberType DEF MembersKept
  <2>2. /\ e \in ItemSet /\ Bare(e) /\ Simple(e.typ) /\ e.raw = <<u.raw[1], EnumName(u, f)>>
        /\ e.enum = f.enum /\ e.enum # <<>> /\ e.circular = f.circular
    BY <1>2, <1>4, <2>1, EnumItemType
  <2> QED BY <1>2, <1>4, <2>1, <2>2 DEF MadeOf
<1>5. ASSUME NEW e \in ToSet(es) PROVE \E f : MadeOf(t, f, e)
  <2>1. PICK f \in ToSet(u.fields) \cup ToSet(u.returns) : Extracted(f) /\ e = EnumItem(u, f)
    BY <1>3
  <2>2. f \in Members(t)
    BY <1>2, <2>1 DEF MembersKept, Extra, Extracted
  <2> QED BY <1>4, <2>1, <2>2
<1>6. ASSUME NEW f \in Members(t), Extracted(f) PROVE \E e \in ToSet(es) : MadeOf(t, f, e)
  <2>1. PICK e : e = EnumItem(u, f)
    OBVIOUS
  <2>2. e \in ToSet(es)
    BY <1>2, <1>3, <1>6, <2>1 DEF MembersKept
  <2> QED BY <1>4, <1>6, <2>1, <2>2
<1> QED BY <1>3, <1>5, <1>6

-----------------------------------------------------------------------------
(* Sequences of items that are cleaned, changed and converted.             *)

Sound(t) == t \in ItemSet /\ \A f \in ToSet(t.fields \o t.returns) : ~f.hidden /\ TypeOrRef(f)

Nows(ts) == MapSeq(ts, Now)
Results(ts) == MapSeq(Nows(ts), ConvertedItem)

LEMMA NowsType ==
  ASSUME NEW ts \in Seq(ItemSet), \A t \in ToSet(ts) : Sound(t), NEW us, us = Nows(ts)
  PROVE  us \in Seq(ItemSet) /\ Len(us) = Len(ts) /\ \A i \in 1 .. Len(ts) : us[i] = Now(ts[i])
<1>1. Len(ts) \in Nat /\ \A i \in 1 .. Len(ts) : ts[i] \in ToSet(ts)
  BY TypedSeq
<1>2. us = [i \in 1 .. Len(ts) |-> Now(ts[i])]
  BY DEF Nows, MapSeq
<1>3. \A i \in 1 .. Len(ts) : us[i] = Now(ts[i]) /\ us[i] \in ItemSet
  BY <1>1, <1>2, ItemNow DEF Sound
<1>4. us \in [1 .. Len(ts) -> ItemSet]
  BY <1>2, <1>3
<1> QED BY <1>1, <1>3, <1>4

LEMMA ResultsType ==
  ASSUME NEW ts \in Seq(ItemSet), \A t \in ToSet(ts) : Sound(t), NEW vs, vs = Results(ts)
  PROVE  /\ vs \in Seq(ItemSet) /\ Len(vs) = Len(ts)
         /\ \A i \in 1 .. Len(ts) : Becomes(ts[i], vs[i]) /\ vs[i].enum = ts[i].enum
<1>1. Len(ts) \in Nat /\ \A i \in 1 .. Len(ts) : ts[i] \in ToSet(ts)
  BY TypedSeq
<1>2. PICK us : us = Nows(ts)
  OBVIOUS
<1>3. us \in Seq(ItemSet) /\ Len(us) = Len(ts) /\ \A i \in 1 .. Len(ts) : us[i] = Now(ts[i])
  BY <1>2, NowsType
<1>4. vs = [i \in 1 .. Len(ts) |-> ConvertedItem(us[i])]
  BY <1>2, <1>3 DEF Results, MapSeq
<1>5. ASSUME NEW i \in 1 .. Len(ts) PROVE Becomes(ts[i], vs[i]) /\ vs[i].enum = ts[i].enum
  <2>1. PICK v : v = ConvertedItem(us[i])
    OBVIOUS
  <2>2. Becomes(ts[i], v) /\ v.enum = ts[i].enum
    BY <1>1, <1>3, <2>1, ItemBecomes DEF Sound
  <2> QED BY <1>4, <2>1, <2>2
<1>6. vs \in [1 .. Len(ts) -> ItemSet]
  BY <1>4, <1>5 DEF Becomes
<1> QED BY <1>1, <1>5, <1>6

(* What Filter(ts, Live) has.                                              *)
LiveOnes(ts) == Filter(ts, Live)

(* p is made of elements of ts, in their order.                            *)
PartOf(p, ts) ==
  \E pos : \A k \in 1 .. Len(p) : /\ pos[k] \in 1 .. Len(ts) /\ p[k] = ts[pos[k]]
                                  /\ \A l \in 1 .. Len(p) : k < l => pos[k] < pos[l]

LEMMA LiveOnesAre ==
  ASSUME NEW ts \in Seq(ItemSet), NEW p, p = LiveOnes(ts)
  PROVE  /\ p \in Seq(ItemSet) /\ \A t : t \in ToSet(p) <=> t \in ToSet(ts) /\ Live(t)
         /\ PartOf(p, ts)
<1>1. PICK I : I = {i \in 1 .. Len(ts) : Live(ts[i])}
  OBVIOUS
<1>2. p = Picked(ts, I)
  BY <1>1 DEF LiveOnes, Filter
<1>3. p \in Seq(ItemSet)
  BY <1>2, PickedType
<1>4. IsSeq(ts) /\ \A x : x \in ToSet(ts) <=> \E i \in 1 .. Len(ts) : ts[i] = x
  BY TypedSeq
<1>5. \A x : x \in ToSet(p) <=> \E i \in 1 .. Len(ts) : i \in I /\ ts[i] = x
  BY <1>2, <1>4, PickedElements
<1>6. Selection(p, ts, I)
  BY <1>2, <1>4, PickedSelection
<1>7. PICK pos : Picks(p, ts, Len(ts), I, pos)
  BY <1>6 DEF Selection
<1>8. \A k \in 1 .. Len(p) : /\ pos[k] \in 1 .. Len(ts) /\ p[k] = ts[pos[k]]
                             /\ \A l \in 1 .. Len(p) : k < l => pos[k] < pos[l]
  BY <1>7 DEF Picks
<1>9. PartOf(p, ts)
  BY <1>8 DEF PartOf
<1> QED BY <1>1, <1>3, <1>4, <1>5, <1>9

LEMMA CleanedOnes ==
  ASSUME NEW ts \in Seq(ItemSet), NEW p, p = LiveOnes(ts), NEW cs, cs = CleanupTypes(ts)
  PROVE  cs \in Seq(ItemSet) /\ Len(cs) = Len(p) /\ \A i \in 1 .. Len(p) : cs[i] = CleanItem(p[i])
<1>1. p \in Seq(ItemSet)
  BY LiveOnesAre
<1>2. Len(p) \in Nat /\ \A i \in 1 .. Len(p) : p[i] \in ItemSet
  BY <1>1, TypedSeq
<1>3. cs = [i \in 1 .. Len(p) |-> CleanItem(p[i])]
  BY DEF CleanupTypes, LiveOnes, MapSeq, CleanItem
<1>4. \A i \in 1 .. Len(p) : cs[i] = CleanItem(p[i]) /\ cs[i] \in ItemSet
  BY <1>2, <1>3, CleanItemType
<1>5. cs \in [1 .. Len(p) -> ItemSet]
  BY <1>3, <1>4
<1> QED BY <1>2, <1>4, <1>5

(* The three kinds of items are changed as Now says.                       *)
LEMMA CommandsNow ==
  ASSUME NEW ts \in Seq(ItemSet), \A t \in ToSet(ts) : t.kind = "command"
  PROVE  CleanupTypes(ts) = Nows(LiveOnes(ts))
<1>1. PICK p : p = LiveOnes(ts)
  OBVIOUS
<1>2. PICK cs : cs = CleanupTypes(ts)
  OBVIOUS
<1>3. p \in Seq(ItemSet) /\ \A t : t \in ToSet(p) <=> t \in ToSet(ts) /\ Live(t)
  BY <1>1, LiveOnesAre
<1>4. cs \in Seq(ItemSet) /\ Len(cs) = Len(p) /\ \A i \in 1 .. Len(p) : cs[i] = CleanItem(p[i])
  BY <1>1, <1>2, CleanedOnes
<1>5. Len(p) \in Nat /\ \A i \in 1 .. Len(p) : p[i] \in ItemSet /\ p[i] \in ToSet(p)
  BY <1>3, TypedSeq
<1>6. ASSUME NEW i \in 1 .. Len(p) PROVE cs[i] = Now(p[i])
  <2>1. PICK c : c = CleanItem(p[i])
    OBVIOUS
  <2>2. c.kind = "command"
    BY <1>3, <1>5, <2>1, CleanItemType
  <2>3. AsFixed(c) = c
    BY <2>2 DEF AsFixed
  <2> QED BY <1>4, <2>1, <2>3 DEF Now
<1>7. cs = [i \in 1 .. Len(p) |-> Now(p[i])]
  BY <1>4, <1>5, <1>6
<1> QED BY <1>1, <1>2, <1>7 DEF Nows, MapSeq

LEMMA EventsNow ==
  ASSUME NEW ts \in Seq(ItemSet), \A t \in ToSet(ts) : t.kind = "event"
  PROVE  MapSeq(CleanupTypes(ts), ChangedEvent) = Nows(LiveOnes(ts))
<1>1. PICK p : p = LiveOnes(ts)
  OBVIOUS
<1>2. PICK cs : cs = CleanupTypes(ts)
  OBVIOUS
<1>3. p \in Seq(ItemSet) /\ \A t : t \in ToSet(p) <=> t \in ToSet(ts) /\ Live(t)
  BY <1>1, LiveOnesAre
<1>4. cs \in Seq(ItemSet) /\ Len(cs) = Len(p) /\ \A i \in 1 .. Len(p) : cs[i] = CleanItem(p[i])
  BY <1>1, <1>2, CleanedOnes
<1>5. Len(p) \in Nat /\ \A i \in 1 .. Len(p) : p[i] \in ItemSet /\ p[i] \in ToSet(p)
  BY <1>3, TypedSeq
<1>6. ASSUME NEW i \in 1 .. Len(p) PROVE ChangedEvent(cs[i]) = Now(p[i])
  <2>1. PICK c : c = CleanItem(p[i])
    OBVIOUS
  <2>2. c.kind = "event"
    BY <1>3, <1>5, <2>1, CleanItemType
  <2>3. AsFixed(c) = ChangedEvent(c)
    BY <2>2 DEF AsFixed
  <2> QED BY <1>4, <2>1, <2>3 DEF Now
<1>7. [i \in 1 .. Len(cs) |-> ChangedEvent(cs[i])] = [i \in 1 .. Len(p) |-> Now(p[i])]
  BY <1>4, <1>6
<1> QED BY <1>1, <1>2, <1>7 DEF Nows, MapSeq

-----------------------------------------------------------------------------
(* The types of a domain: the live ones and those that are added.          *)

LEMMA AddedNow ==
  ASSUME NEW dom \in DomainNames, NEW t \in ToSet(Added(dom))
  PROVE  /\ Sound(t) /\ CleanItem(t) = t /\ t.kind = "type" /\ ~t.array /\ t.ref = <<>>
         /\ t.raw[1] = dom /\ Members(t) = {} /\ AsFixed(t).typ # "object" /\ t.enum # <<>>
<1>1. t \in ItemSet /\ Bare(t) /\ t.raw[1] = dom /\ t.enum # <<>> /\ Simple(t.typ)
  BY AddedTypes, TypedSeq
<1>2. t.fields = <<>> /\ t.returns = <<>> /\ <<>> \in Seq(FieldSet) /\ ToSet(<<>>) = {}
  BY <1>1, NoElements DEF Bare
<1>3. LiveFields(<<>>) = <<>>
  <2>1. PICK e : e = <<>>
    OBVIOUS
  <2>2. /\ LiveFields(e) \in Seq(FieldSet) /\ \A x : x \in ToSet(LiveFields(e)) <=> x \in ToSet(e) /\ ~x.deprecated
    BY <1>2, <2>1, LiveFieldsType
  <2>3. ToSet(LiveFields(e)) = {}
    BY <1>2, <2>1, <2>2
  <2> QED BY <2>1, <2>2, <2>3, NoElementsIn
<1>4. CleanItem(t) = t
  <2>1. CleanItem(t) = [t EXCEPT !.fields = <<>>, !.returns = <<>>]
    BY <1>2, <1>3 DEF CleanItem
  <2>2. \A f, r : f = t.fields /\ r = t.returns => [t EXCEPT !.fields = f, !.returns = r] = t
    BY <1>1 DEF ItemSet
  <2> QED BY <1>2, <2>1, <2>2
<1>5. ToSet(t.fields \o t.returns) = {}
  <2>1. <<>> \o <<>> = <<>>
    OBVIOUS
  <2> QED BY <1>2, <2>1
<1>6. Members(t) = {}
  BY <1>1, <1>2, MembersAre
<1>7. AsFixed(t).typ # "object"
  <2>1. t.kind = "type" /\ "typ" \in DOMAIN t
    BY <1>1 DEF Bare, ItemSet
  <2>2. AsFixed(t) = Changed(t)
    BY <2>1 DEF AsFixed
  <2>3. Changed(t).typ = NewType(t)
    BY <2>1 DEF Changed
  <2>4. NewType(t) \in {"timestamp", "map", t.typ}
    BY DEF NewType
  <2>5. t.typ # "object"
    BY <1>1 DEF Simple
  <2> QED BY <2>2, <2>3, <2>4, <2>5
<1> QED BY <1>1, <1>4, <1>5, <1>6, <1>7 DEF Sound, Bare

LEMMA NamesLeft ==
  ASSUME NEW ts \in Seq(ItemSet), NEW a \in Seq(ItemSet), NEW p \in Seq(ItemSet), NEW pos,
         \A k \in 1 .. Len(p) : /\ pos[k] \in 1 .. Len(ts) /\ p[k] = ts[pos[k]]
                                /\ \A l \in 1 .. Len(p) : k < l => pos[k] < pos[l],
         \A i, j \in 1 .. Len(ts \o a) : (ts \o a)[i].raw = (ts \o a)[j].raw => i = j
  PROVE  \A i, j \in 1 .. Len(p \o a) : (p \o a)[i].raw = (p \o a)[j].raw => i = j
<1>1. PICK w : w = p \o a
  OBVIOUS
<1>2. PICK all : all = ts \o a
  OBVIOUS
<1>3. PICK m, n, q : m = Len(p) /\ n = Len(a) /\ q = Len(ts)
  OBVIOUS
<1>4. m \in Nat /\ n \in Nat /\ q \in Nat
  BY <1>3
<1>5. Len(w) = m + n /\ (\A i \in 1 .. m : w[i] = p[i]) /\ \A i \in 1 .. n : w[m + i] = a[i]
  BY <1>1, <1>3, TypedConcat
<1>6. Len(all) = q + n /\ (\A i \in 1 .. q : all[i] = ts[i]) /\ \A i \in 1 .. n : all[q + i] = a[i]
  BY <1>2, <1>3, TypedConcat
<1>7. \A i, j \in 1 .. q + n : all[i].raw = all[j].raw => i = j
  BY <1>2, <1>6
<1>8. \A k \in 1 .. m : /\ pos[k] \in 1 .. q /\ w[k] = all[pos[k]]
                        /\ \A l \in 1 .. m : k < l => pos[k] < pos[l]
  BY <1>3, <1>5, <1>6
<1>9. \A i \in 1 .. m + n : i \in 1 .. m \/ (i - m \in 1 .. n /\ w[i] = all[q + (i - m)])
  <2>1. ASSUME NEW i \in 1 .. m + n, i > m PROVE i - m \in 1 .. n /\ m + (i - m) = i
    BY <1>4, <2>1
  <2>2. \A i \in 1 .. m + n : i > m => w[i] = all[q + (i - m)]
    BY <1>5, <1>6, <2>1
  <2> QED BY <1>4, <2>1, <2>2
<1>10. ASSUME NEW i \in 1 .. m + n, NEW j \in 1 .. m + n, i < j, w[i].raw = w[j].raw PROVE FALSE
  <2>1. CASE j \in 1 .. m
    <3>1. i \in 1 .. m
      BY <1>4, <1>10, <2>1
    <3>2. pos[i] \in 1 .. q + n /\ pos[j] \in 1 .. q + n /\ pos[i] < pos[j]
      BY <1>4, <1>8, <1>10, <2>1, <3>1
    <3>3. pos[i] = pos[j]
      BY <1>7, <1>8, <1>10, <2>1, <3>1, <3>2
    <3> QED BY <1>4, <3>2, <3>3
  <2>2. CASE i \in 1 .. m /\ j - m \in 1 .. n /\ w[j] = all[q + (j - m)]
    <3>1. pos[i] \in 1 .. q /\ w[i] = all[pos[i]]
      BY <1>8, <2>2
    <3>2. PICK l : l = q + (j - m)
      OBVIOUS
    <3>3. l \in 1 .. q + n /\ l > q /\ pos[i] \in 1 .. q + n
      BY <1>4, <2>2, <3>1, <3>2
    <3>4. pos[i] = l
      BY <1>7, <1>10, <2>2, <3>1, <3>2, <3>3
    <3> QED BY <1>4, <3>1, <3>3, <3>4
  <2>3. CASE i - m \in 1 .. n /\ w[i] = all[q + (i - m)] /\ j - m \in 1 .. n /\ w[j] = all[q + (j - m)]
    <3>1. PICK k, l : k = q + (i - m) /\ l = q + (j - m)
      OBVIOUS
    <3>2. PICK b, c : b = i - m /\ c = j - m
      OBVIOUS
    <3>3. b \in 1 .. n /\ c \in 1 .. n /\ b < c
      BY <1>4, <1>10, <2>3, <3>2
    <3>4. k \in 1 .. q + n /\ l \in 1 .. q + n /\ k < l
      BY <1>4, <3>1, <3>2, <3>3
    <3>5. k = l
      BY <1>7, <1>10, <2>3, <3>1, <3>4
    <3> QED BY <1>4, <3>4, <3>5
  <2>4. i \in 1 .. m \/ j \notin 1 .. m
    BY <1>4, <1>10
  <2> QED BY <1>9, <2>1, <2>2, <2>3, <2>4
<1>11. ASSUME NEW i \in 1 .. m + n, NEW j \in 1 .. m + n, w[i].raw = w[j].raw PROVE i = j
  <2>1. i < j \/ i = j \/ j < i
    BY <1>4
  <2> QED BY <1>10, <1>11, <2>1
<1> QED BY <1>1, <1>5, <1>11

GivenSeq(s) == LiveOnes(s.types) \o Added(s.name)
GivenIn(s) == {t \in ToSet(s.types) : Live(t)} \cup ToSet(Added(s.name))

(* The types of a domain are as WellFormedDomain says.                     *)
TypesGiven(ts, dom) ==
  /\ ts \in Seq(ItemSet) /\ dom \in DomainNames
  /\ \A t \in ToSet(ts) : t.kind = "type" /\ Sound(t)
  /\ \A i, j \in 1 .. Len(ts \o Added(dom)) : (ts \o Added(dom))[i].raw = (ts \o Added(dom))[j].raw => i = j

LEMMA GivenSeqIs ==
  ASSUME NEW s, TypesGiven(s.types, s.name), NEW w, w = GivenSeq(s)
  PROVE  /\ w \in Seq(ItemSet) /\ ToSet(w) = GivenIn(s)
         /\ \A t \in ToSet(w) : Sound(t) /\ t.kind = "type"
         /\ \A i, j \in 1 .. Len(w) : w[i].raw = w[j].raw => i = j
<1>1. PICK ts : ts = s.types
  OBVIOUS
<1>2. PICK dom : dom = s.name
  OBVIOUS
<1>3. PICK a : a = Added(dom)
  OBVIOUS
<1>4. PICK p : p = LiveOnes(ts)
  OBVIOUS
<1>5. /\ ts \in Seq(ItemSet) /\ dom \in DomainNames /\ \A t \in ToSet(ts) : t.kind = "type" /\ Sound(t)
      /\ \A i, j \in 1 .. Len(ts \o a) : (ts \o a)[i].raw = (ts \o a)[j].raw => i = j
  BY <1>1, <1>2, <1>3 DEF TypesGiven
<1>6. a \in Seq(ItemSet)
  BY <1>3, <1>5, AddedTypes
<1>7. /\ p \in Seq(ItemSet) /\ \A t : t \in ToSet(p) <=> t \in ToSet(ts) /\ Live(t)
      /\ PartOf(p, ts)
  BY <1>4, <1>5, LiveOnesAre
<1>8. \A i, j \in 1 .. Len(p \o a) : (p \o a)[i].raw = (p \o a)[j].raw => i = j
  BY <1>5, <1>6, <1>7, NamesLeft DEF PartOf
<1>9. w = p \o a
  BY <1>1, <1>2, <1>3, <1>4 DEF GivenSeq
<1>10. w \in Seq(ItemSet) /\ ToSet(w) = ToSet(p) \cup ToSet(a)
  BY <1>6, <1>7, <1>9, TypedConcat
<1>11. ToSet(w) = GivenIn(s)
  BY <1>1, <1>2, <1>3, <1>7, <1>10 DEF GivenIn
<1>12. \A t \in ToSet(w) : Sound(t) /\ t.kind = "type"
  BY <1>3, <1>5, <1>7, <1>10, AddedNow
<1> QED BY <1>8, <1>9, <1>10, <1>11, <1>12

LEMMA TypesNow ==
  ASSUME NEW s, TypesGiven(s.types, s.name)
  PROVE  MapSeq(CleanupTypes(s.types) \o Added(s.name), Changed) = Nows(GivenSeq(s))
<1>1. PICK ts, a, p, cs : ts = s.types /\ a = Added(s.name) /\ p = LiveOnes(ts) /\ cs = CleanupTypes(ts)
  OBVIOUS
<1>2. PICK w : w = GivenSeq(s)
  OBVIOUS
<1>3. w \in Seq(ItemSet) /\ (\A t \in ToSet(w) : t.kind = "type") /\ w = p \o a
  BY <1>1, <1>2, GivenSeqIs DEF GivenSeq
<1>4. ts \in Seq(ItemSet) /\ a \in Seq(ItemSet) /\ s.name \in DomainNames
  BY <1>1, AddedTypes DEF TypesGiven
<1>5. p \in Seq(ItemSet) /\ \A t : t \in ToSet(p) => t \in ToSet(ts)
  BY <1>1, <1>4, LiveOnesAre
<1>6. cs \in Seq(ItemSet) /\ Len(cs) = Len(p) /\ \A i \in 1 .. Len(p) : cs[i] = CleanItem(p[i])
  BY <1>1, <1>4, CleanedOnes
<1>7. PICK c : c = cs \o a
  OBVIOUS
<1>8. PICK m, n : m = Len(p) /\ n = Len(a)
  OBVIOUS
<1>9. m \in Nat /\ n \in Nat
  BY <1>4, <1>5, <1>8
<1>10. Len(w) = m + n /\ (\A i \in 1 .. m : w[i] = p[i]) /\ \A i \in 1 .. n : w[m + i] = a[i]
  BY <1>3, <1>4, <1>5, <1>8, TypedConcat
<1>11. Len(c) = m + n /\ (\A i \in 1 .. m : c[i] = cs[i]) /\ \A i \in 1 .. n : c[m + i] = a[i]
  <2>1. Len(cs) = m
    BY <1>6, <1>8
  <2>2. cs \in Seq(ItemSet) /\ a \in Seq(ItemSet)
    BY <1>4, <1>6
  <2>3. /\ Len(cs \o a) = Len(cs) + Len(a) /\ \A i \in 1 .. Len(cs) : (cs \o a)[i] = cs[i]
        /\ \A i \in 1 .. Len(a) : (cs \o a)[Len(cs) + i] = a[i]
    BY <2>2, TypedConcat
  <2> QED BY <1>7, <1>8, <2>1, <2>3, Zenon
<1>12. \A i \in 1 .. n : CleanItem(a[i]) = a[i]
  BY <1>1, <1>4, <1>8, TypedSeq, AddedNow
<1>13. ASSUME NEW i \in 1 .. m + n PROVE c[i] = CleanItem(w[i])
  <2>1. CASE i \in 1 .. m
    BY <1>6, <1>8, <1>10, <1>11, <2>1
  <2>2. CASE i > m
    <3>1. PICK j : j = i - m
      OBVIOUS
    <3>2. j \in 1 .. n /\ m + j = i
      BY <1>9, <2>2, <3>1
    <3> QED BY <1>10, <1>11, <1>12, <3>2
  <2> QED BY <1>9, <2>1, <2>2
<1>14. ASSUME NEW i \in 1 .. m + n PROVE Changed(c[i]) = Now(w[i])
  <2>1. w[i] \in ItemSet /\ w[i].kind = "type"
    BY <1>3, <1>10, TypedSeq
  <2>2. PICK x : x = CleanItem(w[i])
    OBVIOUS
  <2>3. x.kind = "type"
    BY <2>1, <2>2, CleanItemType
  <2>4. AsFixed(x) = Changed(x)
    BY <2>3 DEF AsFixed
  <2> QED BY <1>13, <2>2, <2>4 DEF Now
<1>15. [i \in 1 .. m + n |-> Changed(c[i])] = [i \in 1 .. m + n |-> Now(w[i])]
  BY <1>14
<1>16. MapSeq(c, Changed) = Nows(w)
  BY <1>10, <1>11, <1>15 DEF Nows, MapSeq
<1> QED BY <1>1, <1>2, <1>7, <1>16

(* The enums and the types of a domain. *)
ItemsNow(s) == Nows(GivenSeq(s)) \o Nows(LiveOnes(s.events)) \o Nows(LiveOnes(s.commands))

EnumsOfDomain(s) == FlattenSeq(MapSeq(ItemsNow(s), EnumsOf))

TypesOfDomain(s) == WithEnums(Results(GivenSeq(s)), EnumsOfDomain(s))

Renamed(ts) == MapSeq(ts, Unstuttered)

DomainGiven(s) ==
  /\ s \in DomainSet /\ TypesGiven(s.types, s.name)
  /\ \A t \in ToSet(s.commands) : t.kind = "command" /\ Sound(t)
  /\ \A t \in ToSet(s.events) : t.kind = "event" /\ Sound(t)

LEMMA FixedParts ==
  ASSUME NEW s, DomainGiven(s), NEW d, d = Fixed(Cleaned(s))
  PROVE  /\ d.name = s.name /\ d.deprecated = s.deprecated
         /\ d = [name |-> d.name, deprecated |-> d.deprecated, types |-> d.types, commands |-> d.commands,
                 events |-> d.events]
         /\ d.types = Renamed(TypesOfDomain(s))
         /\ d.commands = Results(LiveOnes(s.commands))
         /\ d.events = Results(LiveOnes(s.events))
<1>1. PICK c : c = Cleaned(s)
  OBVIOUS
<1>2. /\ c.name = s.name /\ c.deprecated = s.deprecated /\ c.types = CleanupTypes(s.types)
      /\ c.commands = CleanupTypes(s.commands) /\ c.events = CleanupTypes(s.events)
      /\ c = [name |-> s.name, deprecated |-> s.deprecated, types |-> c.types, commands |-> c.commands,
              events |-> c.events]
  BY <1>1 DEF Cleaned, DomainGiven, DomainSet
<1>3. PICK types : types = MapSeq(c.types \o Added(c.name), Changed)
  OBVIOUS
<1>4. PICK events : events = MapSeq(c.events, ChangedEvent)
  OBVIOUS
<1>5. types = Nows(GivenSeq(s))
  BY <1>2, <1>3, TypesNow DEF DomainGiven
<1>6. s.commands \in Seq(ItemSet) /\ s.events \in Seq(ItemSet)
  BY DEF DomainGiven, DomainSet
<1>7. events = Nows(LiveOnes(s.events))
  BY <1>2, <1>4, <1>6, EventsNow DEF DomainGiven
<1>8. c.commands = Nows(LiveOnes(s.commands))
  BY <1>2, <1>6, CommandsNow DEF DomainGiven
<1>9. PICK all : all = TypesOfDomain(s)
  OBVIOUS
<1>10. all = WithEnums(MapSeq(types, ConvertedItem), FlattenSeq(MapSeq(types \o events \o c.commands, EnumsOf)))
  BY <1>5, <1>7, <1>8, <1>9 DEF TypesOfDomain, EnumsOfDomain, ItemsNow, Results
<1>11. PICK x, y, z : x = MapSeq(all, Unstuttered) /\ y = MapSeq(events, ConvertedItem) /\ z = MapSeq(c.commands, ConvertedItem)
  OBVIOUS
<1>12. d = [c EXCEPT !.types = x, !.events = y, !.commands = z]
  BY <1>1, <1>3, <1>4, <1>10, <1>11 DEF Fixed
<1>13. /\ d.name = s.name /\ d.deprecated = s.deprecated /\ d.types = x /\ d.events = y /\ d.commands = z
       /\ d = [name |-> d.name, deprecated |-> d.deprecated, types |-> d.types, commands |-> d.commands,
                 events |-> d.events]
  BY <1>2, <1>12
<1>14. x = Renamed(TypesOfDomain(s))
  BY <1>9, <1>11 DEF Renamed
<1>15. y = Results(LiveOnes(s.events)) /\ z = Results(LiveOnes(s.commands))
  BY <1>7, <1>8, <1>11 DEF Results
<1> QED BY <1>13, <1>14, <1>15

-----------------------------------------------------------------------------
(* The enums of a domain: those of its live items.                         *)

ItemsIn(s) == {t \in ToSet(s.types) \cup ToSet(s.commands) \cup ToSet(s.events) : Live(t)}

LEMMA NowsElements ==
  ASSUME NEW ts \in Seq(ItemSet), \A t \in ToSet(ts) : Sound(t)
  PROVE  Nows(ts) \in Seq(ItemSet) /\ \A u : u \in ToSet(Nows(ts)) <=> \E t \in ToSet(ts) : u = Now(t)
<1>1. PICK us : us = Nows(ts)
  OBVIOUS
<1>2. us \in Seq(ItemSet) /\ Len(us) = Len(ts) /\ \A i \in 1 .. Len(ts) : us[i] = Now(ts[i])
  BY <1>1, NowsType
<1>3. \A x : x \in ToSet(us) <=> \E i \in 1 .. Len(us) : us[i] = x
  BY <1>2, TypedSeq
<1>4. \A x : x \in ToSet(ts) <=> \E i \in 1 .. Len(ts) : ts[i] = x
  BY TypedSeq
<1>5. \A x : x \in ToSet(us) <=> \E i \in 1 .. Len(ts) : us[i] = x
  BY <1>2, <1>3, Zenon
<1> QED BY <1>1, <1>2, <1>4, <1>5

LEMMA ItemsOfDomain ==
  ASSUME NEW s, DomainGiven(s), NEW us, us = ItemsNow(s)
  PROVE  /\ us \in Seq(ItemSet)
         /\ \A u : u \in ToSet(us) <=> \E t \in ItemsIn(s) \cup ToSet(Added(s.name)) : u = Now(t)
<1>1. PICK w : w = GivenSeq(s)
  OBVIOUS
<1>2. PICK p : p = LiveOnes(s.events)
  OBVIOUS
<1>3. PICK q : q = LiveOnes(s.commands)
  OBVIOUS
<1>4. w \in Seq(ItemSet) /\ ToSet(w) = GivenIn(s) /\ \A t \in ToSet(w) : Sound(t)
  BY <1>1, GivenSeqIs DEF DomainGiven
<1>5. s.commands \in Seq(ItemSet) /\ s.events \in Seq(ItemSet)
  BY DEF DomainGiven, DomainSet
<1>6. p \in Seq(ItemSet) /\ (\A t : t \in ToSet(p) <=> t \in ToSet(s.events) /\ Live(t)) /\ \A t \in ToSet(p) : Sound(t)
  BY <1>2, <1>5, LiveOnesAre DEF DomainGiven
<1>7. q \in Seq(ItemSet) /\ (\A t : t \in ToSet(q) <=> t \in ToSet(s.commands) /\ Live(t)) /\ \A t \in ToSet(q) : Sound(t)
  BY <1>3, <1>5, LiveOnesAre DEF DomainGiven
<1>8. PICK a : a = Nows(w)
  OBVIOUS
<1>9. PICK b : b = Nows(p)
  OBVIOUS
<1>10. PICK c : c = Nows(q)
  OBVIOUS
<1>11. a \in Seq(ItemSet) /\ \A u : u \in ToSet(a) <=> \E t \in ToSet(w) : u = Now(t)
  BY <1>4, <1>8, NowsElements
<1>12. b \in Seq(ItemSet) /\ \A u : u \in ToSet(b) <=> \E t \in ToSet(p) : u = Now(t)
  BY <1>6, <1>9, NowsElements
<1>13. c \in Seq(ItemSet) /\ \A u : u \in ToSet(c) <=> \E t \in ToSet(q) : u = Now(t)
  BY <1>7, <1>10, NowsElements
<1>14. PICK ab : ab = a \o b
  OBVIOUS
<1>15. ab \in Seq(ItemSet) /\ ToSet(ab) = ToSet(a) \cup ToSet(b)
  BY <1>11, <1>12, <1>14, TypedConcat
<1>16. us = ab \o c
  BY <1>1, <1>2, <1>3, <1>8, <1>9, <1>10, <1>14 DEF ItemsNow
<1>17. us \in Seq(ItemSet) /\ ToSet(us) = ToSet(a) \cup ToSet(b) \cup ToSet(c)
  BY <1>13, <1>15, <1>16, TypedConcat
<1>18. ASSUME NEW u PROVE u \in ToSet(us) <=> \E t \in ToSet(w) \cup ToSet(p) \cup ToSet(q) : u = Now(t)
  BY <1>11, <1>12, <1>13, <1>17
<1>19. ToSet(w) \cup ToSet(p) \cup ToSet(q) = ItemsIn(s) \cup ToSet(Added(s.name))
  BY <1>4, <1>6, <1>7 DEF GivenIn, ItemsIn
<1> QED BY <1>17, <1>18, <1>19

LEMMA ItemsSound ==
  ASSUME NEW s, DomainGiven(s), NEW t \in ItemsIn(s) \cup ToSet(Added(s.name))
  PROVE  Sound(t)
  BY AddedNow DEF DomainGiven, TypesGiven, ItemsIn

LEMMA EnumsOfDomainAre ==
  ASSUME NEW s, DomainGiven(s), NEW es, es = EnumsOfDomain(s)
  PROVE  /\ es \in Seq(ItemSet)
         /\ \A e \in ToSet(es) : \E t \in ItemsIn(s) : \E f : MadeOf(t, f, e)
         /\ \A t \in ItemsIn(s) : \A f \in Members(t) : Extracted(f) => \E e \in ToSet(es) : MadeOf(t, f, e)
<1>1. PICK us : us = ItemsNow(s)
  OBVIOUS
<1>2. /\ us \in Seq(ItemSet)
      /\ \A u : u \in ToSet(us) <=> \E t \in ItemsIn(s) \cup ToSet(Added(s.name)) : u = Now(t)
  BY <1>1, ItemsOfDomain
<1>3. PICK ss : ss = MapSeq(us, EnumsOf)
  OBVIOUS
<1>4. /\ Len(us) \in Nat /\ \A i \in 1 .. Len(us) : us[i] \in ItemSet
      /\ \A x : x \in ToSet(us) <=> \E i \in 1 .. Len(us) : us[i] = x
  BY <1>2, TypedSeq
<1>5. ss = [i \in 1 .. Len(us) |-> ss[i]] /\ \A i \in 1 .. Len(us) : ss[i] = EnumsOf(us[i])
  BY <1>3 DEF MapSeq
<1>6. IsSeq(ss) /\ Len(ss) = Len(us)
  BY <1>4, <1>5, SeqFunction
<1>7. ASSUME NEW i \in 1 .. Len(us) PROVE ss[i] \in Seq(ItemSet) /\ IsSeq(ss[i])
  <2>1. ss[i] \in Seq(ItemSet)
    BY <1>4, <1>5, EnumsOfType
  <2> QED BY <2>1, AnySeq
<1>8. es = FlattenSeq(ss)
  BY <1>1, <1>3 DEF EnumsOfDomain
<1>9. /\ IsSeq(es) /\ \A x : x \in ToSet(es) <=> \E i \in 1 .. Len(ss) : x \in ToSet(ss[i])
  <2>1. \A i \in 1 .. Len(ss) : IsSeq(ss[i])
    BY <1>6, <1>7
  <2> QED BY <1>6, <1>8, <2>1, FlattenElements
<1>10. \A x : x \in ToSet(es) <=> \E u \in ToSet(us) : x \in ToSet(EnumsOf(u))
  BY <1>4, <1>5, <1>6, <1>9
<1>11. ASSUME NEW e \in ToSet(es) PROVE e \in ItemSet /\ \E t \in ItemsIn(s) : \E f : MadeOf(t, f, e)
  <2>1. PICK t \in ItemsIn(s) \cup ToSet(Added(s.name)) : e \in ToSet(EnumsOf(Now(t)))
    BY <1>2, <1>10
  <2>2. Sound(t)
    BY ItemsSound
  <2>3. PICK f : MadeOf(t, f, e)
    BY <2>1, <2>2, EnumsMade DEF Sound
  <2>4. t \in ItemsIn(s)
    BY <2>3, AddedNow DEF MadeOf, DomainGiven, TypesGiven
  <2> QED BY <2>3, <2>4 DEF MadeOf
<1>12. ASSUME NEW t \in ItemsIn(s), NEW f \in Members(t), Extracted(f)
       PROVE  \E e \in ToSet(es) : MadeOf(t, f, e)
  <2>1. Sound(t)
    BY ItemsSound
  <2>2. PICK e \in ToSet(EnumsOf(Now(t))) : MadeOf(t, f, e)
    BY <1>12, <2>1, EnumsMade DEF Sound
  <2>3. Now(t) \in ToSet(us)
    BY <1>2
  <2> QED BY <1>10, <2>2, <2>3
<1>13. es \in Seq(ItemSet)
  BY <1>9, <1>11, Typed
<1> QED BY <1>11, <1>12, <1>13

-----------------------------------------------------------------------------
(* The types of a domain: what has become of those that were given, and    *)
(* what the enums have been made into.                                     *)

LEMMA UnstutteredType ==
  ASSUME NEW t \in ItemSet, NEW v, v = Unstuttered(t)
  PROVE  /\ v \in ItemSet /\ v.raw = t.raw /\ v.kind = t.kind /\ v.typ = t.typ /\ v.array = t.array
         /\ v.ref = t.ref /\ v.enum = t.enum /\ v.circular = t.circular /\ v.fields = t.fields
         /\ v.returns = t.returns
<1>1. PICK words : words = t.raw[2]
  OBVIOUS
<1>2. PICK w : w = IF t.raw[1] = "Accessibility" THEN "AX" ELSE t.raw[1]
  OBVIOUS
<1>3. PICK name : name = WithoutPrefix(words, w)
  OBVIOUS
<1>4. words \in Seq(Words)
  BY <1>1 DEF ItemSet, Names
<1>5. name \in Names
  <2>1. words # <<>> => Tail(words) \in Seq(Words)
    BY <1>4
  <2> QED BY <1>3, <1>4, <2>1 DEF WithoutPrefix, Names
<1>6. v = IF t.circular \/ name = <<>> THEN t ELSE [t EXCEPT !.name = name]
  BY <1>1, <1>2, <1>3 DEF Unstuttered
<1>7. CASE v = t
  BY <1>7
<1>8. CASE v = [t EXCEPT !.name = name]
  BY <1>5, <1>8 DEF ItemSet
<1> QED BY <1>6, <1>7, <1>8

(* A type that an enum is made into when there is none of its name.        *)
NewFor(s, v) ==
  /\ v \in ItemSet /\ Bare(v) /\ Simple(v.typ) /\ \A g \in GivenIn(s) : g.raw # v.raw
  /\ \E t \in ItemsIn(s) : \E f \in Members(t) :
       Extracted(f) /\ v.raw = <<t.raw[1], EnumName(AsFixed(t), f)>> /\ v.circular = f.circular

(* A value of the type r.                                                  *)
HasValue(s, r, x) ==
  \/ \E t \in GivenIn(s) : t.raw = r /\ x \in Values(t)
  \/ \E t \in ItemsIn(s) : \E f \in Members(t) :
       Extracted(f) /\ r = <<t.raw[1], EnumName(AsFixed(t), f)>> /\ x \in ToSet(f.enum[1])

TypesMade(s, vs) ==
  /\ vs \in Seq(ItemSet) /\ \A i, k \in 1 .. Len(vs) : vs[i].raw = vs[k].raw => i = k
  /\ \A v \in ToSet(vs) : (\E t \in GivenIn(s) : Becomes(t, v)) \/ NewFor(s, v)
  /\ \A t \in GivenIn(s) : \E v \in ToSet(vs) : Becomes(t, v)
  /\ \A t \in ItemsIn(s) : \A f \in Members(t) : Extracted(f) =>
       \E v \in ToSet(vs) : /\ v.raw = <<t.raw[1], EnumName(AsFixed(t), f)>>
                            /\ v.enum # <<>> /\ Once(v.enum[1])
  /\ \A v \in ToSet(vs) : \A x : x \in Values(v) <=> HasValue(s, v.raw, x)

LEMMA BecomesAlso ==
  ASSUME NEW t, NEW b, Becomes(t, b), NEW a, a = b \/ Revalued(b, a), NEW v, v = Unstuttered(a)
  PROVE  Becomes(t, v)
<1>1. /\ a \in ItemSet /\ a.raw = b.raw /\ a.kind = b.kind /\ a.typ = b.typ /\ a.array = b.array
      /\ a.ref = b.ref /\ a.circular = b.circular /\ a.fields = b.fields /\ a.returns = b.returns
  BY DEF Revalued, Becomes
<1>2. /\ v \in ItemSet /\ v.raw = a.raw /\ v.kind = a.kind /\ v.typ = a.typ /\ v.array = a.array
      /\ v.ref = a.ref /\ v.circular = a.circular /\ v.fields = a.fields /\ v.returns = a.returns
  BY <1>1, UnstutteredType
<1>3. FieldsDone(v) /\ SameMembers(v, t)
  BY <1>1, <1>2 DEF Becomes, FieldsDone, SameMembers
<1> QED BY <1>1, <1>2, <1>3 DEF Becomes

LEMMA RenamedType ==
  ASSUME NEW all \in Seq(ItemSet), NEW vs, vs = Renamed(all)
  PROVE  vs \in Seq(ItemSet) /\ Len(vs) = Len(all) /\ \A i \in 1 .. Len(all) : vs[i] = Unstuttered(all[i])
<1>1. Len(all) \in Nat /\ \A i \in 1 .. Len(all) : all[i] \in ItemSet
  BY TypedSeq
<1>2. vs = [i \in 1 .. Len(all) |-> Unstuttered(all[i])]
  BY DEF Renamed, MapSeq
<1>3. \A i \in 1 .. Len(all) : vs[i] = Unstuttered(all[i]) /\ vs[i] \in ItemSet
  BY <1>1, <1>2, UnstutteredType
<1>4. vs \in [1 .. Len(all) -> ItemSet]
  BY <1>2, <1>3
<1> QED BY <1>1, <1>3, <1>4

LEMMA TypesOfDomainAre ==
  ASSUME NEW s, DomainGiven(s), NEW vs, vs = Renamed(TypesOfDomain(s))
  PROVE  TypesMade(s, vs)
<1>1. PICK w : w = GivenSeq(s)
  OBVIOUS
<1>2. PICK base : base = Results(w)
  OBVIOUS
<1>3. PICK es : es = EnumsOfDomain(s)
  OBVIOUS
<1>4. PICK all : all = TypesOfDomain(s)
  OBVIOUS
<1>5. /\ w \in Seq(ItemSet) /\ ToSet(w) = GivenIn(s) /\ \A t \in ToSet(w) : Sound(t)
      /\ \A i, j \in 1 .. Len(w) : w[i].raw = w[j].raw => i = j
  BY <1>1, GivenSeqIs DEF DomainGiven
<1>6. /\ base \in Seq(ItemSet) /\ Len(base) = Len(w)
      /\ \A i \in 1 .. Len(w) : Becomes(w[i], base[i]) /\ base[i].enum = w[i].enum
  BY <1>2, <1>5, ResultsType
<1>7. /\ es \in Seq(ItemSet)
      /\ \A e \in ToSet(es) : \E t \in ItemsIn(s) : \E f : MadeOf(t, f, e)
      /\ \A t \in ItemsIn(s) : \A f \in Members(t) : Extracted(f) => \E e \in ToSet(es) : MadeOf(t, f, e)
  BY <1>3, EnumsOfDomainAre
<1>8. /\ Len(es) \in Nat /\ \A x : x \in ToSet(es) <=> \E j \in 1 .. Len(es) : es[j] = x
  BY <1>7, TypedSeq
<1>9. /\ Len(w) \in Nat /\ \A x : x \in ToSet(w) <=> \E i \in 1 .. Len(w) : w[i] = x
  BY <1>5, TypedSeq
<1>10. \A j \in 1 .. Len(es) : es[j].enum # <<>>
  BY <1>7, <1>8 DEF MadeOf
<1>11. \A i \in 1 .. Len(w) : base[i].raw = w[i].raw /\ Values(base[i]) = Values(w[i])
  BY <1>6 DEF Becomes, Values
<1>12. \A i, k \in 1 .. Len(base) : base[i].raw = base[k].raw => i = k
  BY <1>5, <1>6, <1>11
<1>13. Join(all, base, es, Len(es))
  <2>1. all = WithEnums(base, es)
    BY <1>1, <1>2, <1>3, <1>4 DEF TypesOfDomain
  <2> QED BY <1>6, <1>7, <1>10, <1>12, <2>1, AllJoin
<1>14. PICK m, n : m = Len(w) /\ n = Len(all)
  OBVIOUS
<1>15. all \in Seq(ItemSet) /\ m \in Nat /\ n \in Nat /\ n >= m /\ Len(base) = m
  BY <1>6, <1>9, <1>13, <1>14 DEF Join
<1>16. vs \in Seq(ItemSet) /\ Len(vs) = n /\ \A i \in 1 .. n : vs[i] = Unstuttered(all[i])
  BY <1>4, <1>14, <1>15, RenamedType
<1>17. ASSUME NEW i \in 1 .. n
       PROVE  /\ all[i] \in ItemSet /\ vs[i] \in ItemSet /\ vs[i].raw = all[i].raw /\ vs[i].kind = all[i].kind
              /\ vs[i].typ = all[i].typ /\ vs[i].array = all[i].array /\ vs[i].ref = all[i].ref
              /\ vs[i].enum = all[i].enum /\ vs[i].circular = all[i].circular /\ vs[i].fields = all[i].fields
              /\ vs[i].returns = all[i].returns /\ Values(vs[i]) = Values(all[i])
  <2>1. all[i] \in ItemSet
    BY <1>14, <1>15
  <2>2. PICK v : v = Unstuttered(all[i])
    OBVIOUS
  <2>3. /\ v \in ItemSet /\ v.raw = all[i].raw /\ v.kind = all[i].kind
        /\ v.typ = all[i].typ /\ v.array = all[i].array /\ v.ref = all[i].ref
        /\ v.enum = all[i].enum /\ v.circular = all[i].circular /\ v.fields = all[i].fields
        /\ v.returns = all[i].returns
    BY <2>1, <2>2, UnstutteredType
  <2> QED BY <1>16, <2>1, <2>2, <2>3 DEF Values
<1>18. \A x : x \in ToSet(vs) <=> \E i \in 1 .. n : vs[i] = x
  <2>1. \A x : x \in ToSet(vs) <=> \E i \in 1 .. Len(vs) : vs[i] = x
    BY <1>16, TypedSeq
  <2> QED BY <1>16, <2>1, Zenon
(* The first of them are the ones that were given.                         *)
<1>19. \A i \in 1 .. m : i \in 1 .. n
  BY <1>15
<1>20. ASSUME NEW i \in 1 .. m PROVE Becomes(w[i], vs[i]) /\ vs[i].raw = w[i].raw
  <2>1. all[i] = base[i] \/ Revalued(base[i], all[i])
    BY <1>13, <1>15 DEF Join
  <2>2. PICK v : v = Unstuttered(all[i])
    OBVIOUS
  <2>3. Becomes(w[i], v)
    BY <1>6, <1>14, <2>1, <2>2, BecomesAlso
  <2>4. vs[i] = v
    BY <1>16, <1>19, <2>2
  <2> QED BY <2>3, <2>4 DEF Becomes
<1>21. \A i, k \in 1 .. n : vs[i].raw = vs[k].raw => i = k
  <2>1. \A i, k \in 1 .. n : all[i].raw = all[k].raw => i = k
    BY <1>13, <1>14 DEF Join
  <2> QED BY <1>17, <2>1
<1>22. ASSUME NEW i \in 1 .. n, i > m PROVE NewFor(s, vs[i])
  <2>1. PICK j \in 1 .. Len(es) : Revalued(es[j], all[i])
    BY <1>13, <1>14, <1>15, <1>22 DEF Join
  <2>2. PICK t, f : t \in ItemsIn(s) /\ MadeOf(t, f, es[j])
    BY <1>7, <1>8
  <2>3. PICK e : e = es[j]
    OBVIOUS
  <2>4. /\ f \in Members(t) /\ Extracted(f) /\ Bare(e) /\ Simple(e.typ)
        /\ e.raw = <<t.raw[1], EnumName(AsFixed(t), f)>> /\ e.circular = f.circular
    BY <2>2, <2>3 DEF MadeOf
  <2>5. /\ all[i].raw = e.raw /\ all[i].kind = e.kind /\ all[i].typ = e.typ /\ all[i].array = e.array
        /\ all[i].ref = e.ref /\ all[i].circular = e.circular /\ all[i].fields = e.fields /\ all[i].returns = e.returns
    BY <2>1, <2>3 DEF Revalued
  <2>6. ASSUME NEW g \in GivenIn(s) PROVE g.raw # vs[i].raw
    <3>1. PICK k \in 1 .. m : w[k] = g
      BY <1>5, <1>9, <1>14
    <3>2. k # i /\ k \in 1 .. n
      BY <1>15, <1>19, <1>22
    <3> QED BY <1>20, <1>21, <3>1, <3>2
  <2>7. Bare(vs[i]) /\ Simple(vs[i].typ) /\ vs[i] \in ItemSet /\ vs[i].raw = e.raw /\ vs[i].circular = e.circular
    BY <1>17, <2>4, <2>5 DEF Bare
  <2> QED BY <2>2, <2>4, <2>6, <2>7 DEF NewFor
<1>23. ASSUME NEW v \in ToSet(vs) PROVE (\E t \in GivenIn(s) : Becomes(t, v)) \/ NewFor(s, v)
  <2>1. PICK i \in 1 .. n : vs[i] = v
    BY <1>18
  <2>2. CASE i \in 1 .. m
    BY <1>5, <1>9, <1>14, <1>20, <2>1, <2>2
  <2>3. CASE i > m
    BY <1>22, <2>1, <2>3
  <2> QED BY <1>15, <2>2, <2>3
<1>24. ASSUME NEW t \in GivenIn(s) PROVE \E v \in ToSet(vs) : Becomes(t, v)
  <2>1. PICK k \in 1 .. m : w[k] = t
    BY <1>5, <1>9, <1>14
  <2> QED BY <1>18, <1>19, <1>20, <2>1
<1>25. ASSUME NEW t \in ItemsIn(s), NEW f \in Members(t), Extracted(f)
       PROVE  \E v \in ToSet(vs) : /\ v.raw = <<t.raw[1], EnumName(AsFixed(t), f)>>
                                   /\ v.enum # <<>> /\ Once(v.enum[1])
  <2>1. PICK e \in ToSet(es) : MadeOf(t, f, e)
    BY <1>7, <1>25
  <2>2. PICK j \in 1 .. Len(es) : es[j] = e
    BY <1>8
  <2>3. PICK i \in 1 .. n : all[i].raw = es[j].raw /\ all[i].enum # <<>> /\ Once(all[i].enum[1])
    BY <1>13, <1>14 DEF Join
  <2>4. e.raw = <<t.raw[1], EnumName(AsFixed(t), f)>>
    BY <2>1 DEF MadeOf
  <2>5. vs[i].raw = e.raw /\ vs[i].enum # <<>> /\ Once(vs[i].enum[1]) /\ vs[i] \in ToSet(vs)
    BY <1>17, <1>18, <2>2, <2>3
  <2> QED BY <2>4, <2>5
<1>26. ASSUME NEW v \in ToSet(vs), NEW x PROVE x \in Values(v) <=> HasValue(s, v.raw, x)
  <2>1. PICK i \in 1 .. n : vs[i] = v
    BY <1>18
  <2>2. x \in Values(v) <=>
          \/ i <= m /\ x \in Values(base[i])
          \/ \E j \in 1 .. Len(es) : es[j].raw = v.raw /\ x \in Values(es[j])
    <3>1. x \in Values(all[i]) <=>
            \/ i <= m /\ x \in Values(base[i])
            \/ \E j \in 1 .. Len(es) : es[j].raw = all[i].raw /\ x \in Values(es[j])
      BY <1>13, <1>14, <1>15 DEF Join
    <3> QED BY <1>17, <2>1, <3>1
  <2>3. i <= m /\ x \in Values(base[i]) <=> \E t \in GivenIn(s) : t.raw = v.raw /\ x \in Values(t)
    <3>1. ASSUME i <= m, x \in Values(base[i]) PROVE \E t \in GivenIn(s) : t.raw = v.raw /\ x \in Values(t)
      <4>1. i \in 1 .. m
        BY <1>15, <3>1
      <4> QED BY <1>5, <1>9, <1>11, <1>14, <1>20, <2>1, <3>1, <4>1
    <3>2. ASSUME NEW t \in GivenIn(s), t.raw = v.raw, x \in Values(t) PROVE i <= m /\ x \in Values(base[i])
      <4>1. PICK k \in 1 .. m : w[k] = t
        BY <1>5, <1>9, <1>14
      <4>2. k = i
        BY <1>19, <1>20, <1>21, <2>1, <3>2, <4>1
      <4> QED BY <1>11, <1>14, <1>15, <3>2, <4>1, <4>2
    <3> QED BY <3>1, <3>2
  <2>4. (\E j \in 1 .. Len(es) : es[j].raw = v.raw /\ x \in Values(es[j])) <=>
          \E t \in ItemsIn(s) : \E f \in Members(t) :
             Extracted(f) /\ v.raw = <<t.raw[1], EnumName(AsFixed(t), f)>> /\ x \in ToSet(f.enum[1])
    <3>1. ASSUME NEW j \in 1 .. Len(es), es[j].raw = v.raw, x \in Values(es[j])
          PROVE  \E t \in ItemsIn(s) : \E f \in Members(t) :
                   Extracted(f) /\ v.raw = <<t.raw[1], EnumName(AsFixed(t), f)>> /\ x \in ToSet(f.enum[1])
      <4>1. PICK t, f : t \in ItemsIn(s) /\ MadeOf(t, f, es[j])
        BY <1>7, <1>8
      <4> QED BY <3>1, <4>1 DEF MadeOf, Values
    <3>2. ASSUME NEW t \in ItemsIn(s), NEW f \in Members(t), Extracted(f),
                 v.raw = <<t.raw[1], EnumName(AsFixed(t), f)>>, x \in ToSet(f.enum[1])
          PROVE  \E j \in 1 .. Len(es) : es[j].raw = v.raw /\ x \in Values(es[j])
      <4>1. PICK e \in ToSet(es) : MadeOf(t, f, e)
        BY <1>7, <3>2
      <4>2. PICK j \in 1 .. Len(es) : es[j] = e
        BY <1>8
      <4> QED BY <3>2, <4>1, <4>2 DEF MadeOf, Values
    <3> QED BY <3>1, <3>2
  <2> QED BY <2>2, <2>3, <2>4 DEF HasValue
<1>27. \A i, k \in 1 .. Len(vs) : vs[i].raw = vs[k].raw => i = k
  BY <1>16, <1>21
<1> QED BY <1>16, <1>23, <1>24, <1>25, <1>26, <1>27 DEF TypesMade

-----------------------------------------------------------------------------
(* A domain when it is fixed. *)

LEMMA DomainIsGiven ==
  ASSUME NEW s \in DomainSet, WellFormedDomain(s)
  PROVE  /\ DomainGiven(s)
         /\ \A t \in ItemsIn(s) \cup GivenIn(s) : t.raw[1] = s.name
         /\ \A t \in ItemsIn(s) : WellFormedItem(t)
<1>1. /\ s.types \in Seq(ItemSet) /\ s.commands \in Seq(ItemSet) /\ s.events \in Seq(ItemSet)
      /\ s.name \in DomainNames
  BY DEF DomainSet
<1>2. ToSet(s.types \o s.commands \o s.events) = ToSet(s.types) \cup ToSet(s.commands) \cup ToSet(s.events)
  <2>1. PICK ab : ab = s.types \o s.commands
    OBVIOUS
  <2>2. ab \in Seq(ItemSet) /\ ToSet(ab) = ToSet(s.types) \cup ToSet(s.commands)
    BY <1>1, <2>1, TypedConcat
  <2>3. ToSet(ab \o s.events) = ToSet(ab) \cup ToSet(s.events)
    BY <1>1, <2>2, TypedConcat
  <2> QED BY <2>1, <2>2, <2>3
<1>3. \A t \in ToSet(s.types) \cup ToSet(s.commands) \cup ToSet(s.events) : t.raw[1] = s.name /\ WellFormedItem(t)
  BY <1>2 DEF WellFormedDomain
<1>4. \A t \in ToSet(s.types) \cup ToSet(s.commands) \cup ToSet(s.events) : t \in ItemSet
  BY <1>1, TypedSeq
<1>5. \A t \in ToSet(s.types) \cup ToSet(s.commands) \cup ToSet(s.events) : Sound(t)
  BY <1>3, <1>4 DEF Sound, WellFormedItem, TypeOrRef
<1>6. TypesGiven(s.types, s.name)
  BY <1>1, <1>5 DEF TypesGiven, WellFormedDomain
<1>7. DomainGiven(s)
  BY <1>5, <1>6 DEF DomainGiven, WellFormedDomain
<1>8. \A t \in ToSet(Added(s.name)) : t.raw[1] = s.name
  BY <1>1, AddedNow
<1> QED BY <1>3, <1>7, <1>8 DEF ItemsIn, GivenIn

(* vs is what the items ts have become.                                    *)
ItemsMade(ts, vs) ==
  /\ vs \in Seq(ItemSet)
  /\ \A v \in ToSet(vs) : \E t \in ToSet(ts) : Live(t) /\ Becomes(t, v)
  /\ \A t \in ToSet(ts) : Live(t) => \E v \in ToSet(vs) : Becomes(t, v)

LEMMA LiveOnesBecome ==
  ASSUME NEW ts \in Seq(ItemSet), \A t \in ToSet(ts) : Sound(t), NEW vs, vs = Results(LiveOnes(ts))
  PROVE  ItemsMade(ts, vs)
<1>1. PICK p : p = LiveOnes(ts)
  OBVIOUS
<1>2. p \in Seq(ItemSet) /\ \A t : t \in ToSet(p) <=> t \in ToSet(ts) /\ Live(t)
  BY <1>1, LiveOnesAre
<1>3. vs = Results(p) /\ \A t \in ToSet(p) : Sound(t)
  BY <1>1, <1>2
<1>4. vs \in Seq(ItemSet) /\ Len(vs) = Len(p) /\ \A i \in 1 .. Len(p) : Becomes(p[i], vs[i])
  BY <1>2, <1>3, ResultsType
<1>5. \A x : x \in ToSet(p) <=> \E i \in 1 .. Len(p) : p[i] = x
  BY <1>2, TypedSeq
<1>6. \A x : x \in ToSet(vs) <=> \E i \in 1 .. Len(p) : vs[i] = x
  <2>1. \A x : x \in ToSet(vs) <=> \E i \in 1 .. Len(vs) : vs[i] = x
    BY <1>4, TypedSeq
  <2> QED BY <1>4, <2>1, Zenon
<1> QED BY <1>2, <1>4, <1>5, <1>6 DEF ItemsMade

DomainMade(s, d) ==
  /\ d \in DomainSet /\ d.name = s.name
  /\ TypesMade(s, d.types) /\ ItemsMade(s.commands, d.commands) /\ ItemsMade(s.events, d.events)

(* Fixed, after Cleaned, makes of a domain: its live commands and events    *)
(* with their members converted; its live and added types, with names of    *)
(* their own; a type for each enum of a member, with each of its values     *)
(* once, joined to the type of that name if there is one; and nothing else. *)
THEOREM FixedDomain ==
  ASSUME NEW s \in DomainSet, WellFormedDomain(s), NEW d, d = Fixed(Cleaned(s))
  PROVE  DomainMade(s, d)
<1>1. DomainGiven(s)
  BY DomainIsGiven
<1>2. /\ d.name = s.name /\ d.deprecated = s.deprecated
      /\ d = [name |-> d.name, deprecated |-> d.deprecated, types |-> d.types, commands |-> d.commands,
              events |-> d.events]
      /\ d.types = Renamed(TypesOfDomain(s))
      /\ d.commands = Results(LiveOnes(s.commands))
      /\ d.events = Results(LiveOnes(s.events))
  BY <1>1, FixedParts
<1>3. s.commands \in Seq(ItemSet) /\ s.events \in Seq(ItemSet)
  BY DEF DomainSet
<1>4. (\A t \in ToSet(s.commands) : Sound(t)) /\ \A t \in ToSet(s.events) : Sound(t)
  BY <1>1 DEF DomainGiven
<1>5. TypesMade(s, d.types)
  BY <1>1, <1>2, TypesOfDomainAre
<1>6. ItemsMade(s.commands, d.commands)
  BY <1>2, <1>3, <1>4, LiveOnesBecome
<1>7. ItemsMade(s.events, d.events)
  BY <1>2, <1>3, <1>4, LiveOnesBecome
<1>8. d \in DomainSet
  BY <1>2, <1>5, <1>6, <1>7 DEF DomainSet, TypesMade, ItemsMade
<1> QED BY <1>2, <1>5, <1>6, <1>7, <1>8 DEF DomainMade

-----------------------------------------------------------------------------
(* What the reader of a protocol sees, by the domains that are live.       *)

IsEnum(t, f, r) == f \in Members(t) /\ Extracted(f) /\ r = <<t.raw[1], EnumName(AsFixed(t), f)>>

LEMMA DomainItems ==
  ASSUME NEW s \in DomainSet
  PROVE  /\ ToSet(s.types \o s.commands \o s.events) = ToSet(s.types) \cup ToSet(s.commands) \cup ToSet(s.events)
         /\ \A t \in ItemsIn(s) : t \in ItemSet /\ t \in ToSet(s.types \o s.commands \o s.events)
<1>1. s.types \in Seq(ItemSet) /\ s.commands \in Seq(ItemSet) /\ s.events \in Seq(ItemSet)
  BY DEF DomainSet
<1>2. PICK ab : ab = s.types \o s.commands
  OBVIOUS
<1>3. ab \in Seq(ItemSet) /\ ToSet(ab) = ToSet(s.types) \cup ToSet(s.commands)
  BY <1>1, <1>2, TypedConcat
<1>4. ToSet(ab \o s.events) = ToSet(ab) \cup ToSet(s.events)
  BY <1>1, <1>3, TypedConcat
<1>5. \A t \in ToSet(s.types) \cup ToSet(s.commands) \cup ToSet(s.events) : t \in ItemSet
  BY <1>1, TypedSeq
<1> QED BY <1>2, <1>3, <1>4, <1>5 DEF ItemsIn

EnumRecord(t, f) == [raw |-> <<t.raw[1], EnumName(AsFixed(t), f)>>, field |-> f]

LEMMA EnumsAre ==
  ASSUME NEW p
  PROVE  \A e : e \in Enums(p) <=>
           \E t \in LiveItems(p) : \E f \in Members(t) : Extracted(f) /\ e = EnumRecord(t, f)
<1>1. Enums(p) = UNION {{EnumRecord(t, f) : f \in {g \in Members(t) : Extracted(g)}} : t \in LiveItems(p)}
  BY DEF Enums, EnumRecord
<1> QED BY <1>1

LEMMA EnumRecordIs ==
  ASSUME NEW t, NEW f
  PROVE  EnumRecord(t, f).raw = <<t.raw[1], EnumName(AsFixed(t), f)>> /\ EnumRecord(t, f).field = f
  BY DEF EnumRecord

LEMMA ProtocolParts ==
  ASSUME NEW p, WellFormed(p)
  PROVE  /\ \A s \in LiveDomains(p) : s \in DomainSet /\ WellFormedDomain(s)
         /\ \A s, q \in LiveDomains(p) : s.name = q.name => s = q
         /\ \A t : t \in LiveItems(p) <=> \E s \in LiveDomains(p) : t \in ItemsIn(s)
         /\ \A t : t \in Given(p) <=> \E s \in LiveDomains(p) : t \in GivenIn(s)
         /\ \A t : t \in LiveTypes(p) <=> \E s \in LiveDomains(p) : t \in ToSet(s.types) /\ Live(t)
         /\ \A r : r \in {e.raw : e \in Enums(p)} <=>
              \E s \in LiveDomains(p) : \E t \in ItemsIn(s) : \E f : IsEnum(t, f, r)
<1>1. p \in Seq(DomainSet) /\ \A i, j \in 1 .. Len(p) : p[i].name = p[j].name => i = j
  BY DEF WellFormed
<1>2. \A x : x \in ToSet(p) <=> \E i \in 1 .. Len(p) : p[i] = x
  BY <1>1, TypedSeq
<1>3. \A s \in LiveDomains(p) : s \in DomainSet /\ WellFormedDomain(s)
  <2>1. \A s \in LiveDomains(p) : s \in ToSet(p)
    BY DEF LiveDomains
  <2>2. \A s \in ToSet(p) : s \in DomainSet
    BY <1>1, TypedSeq
  <2> QED BY <2>1, <2>2 DEF WellFormed
<1>4. \A s, q \in LiveDomains(p) : s.name = q.name => s = q
  BY <1>1, <1>2 DEF LiveDomains
<1>5. \A t : t \in LiveItems(p) <=> \E s \in LiveDomains(p) : t \in ItemsIn(s)
  <2>1. \A s \in LiveDomains(p) : \A t :
          t \in ItemsIn(s) <=> t \in ToSet(s.types \o s.commands \o s.events) /\ Live(t)
    BY <1>3, DomainItems DEF ItemsIn
  <2>2. \A t : t \in LiveItems(p) <=>
          \E s \in LiveDomains(p) : t \in ToSet(s.types \o s.commands \o s.events) /\ Live(t)
    BY DEF LiveItems
  <2> QED BY <2>1, <2>2
<1>6. \A t : t \in LiveTypes(p) <=> \E s \in LiveDomains(p) : t \in ToSet(s.types) /\ Live(t)
  <2>1. \A s \in LiveDomains(p) : /\ \A t \in ToSet(s.types) : t.kind = "type"
                                  /\ \A t \in ToSet(s.commands) : t.kind = "command"
                                  /\ \A t \in ToSet(s.events) : t.kind = "event"
    BY <1>3 DEF WellFormedDomain
  <2>2. \A s \in LiveDomains(p) : \A t :
          t \in ItemsIn(s) /\ t.kind = "type" <=> t \in ToSet(s.types) /\ Live(t)
    BY <2>1 DEF ItemsIn
  <2> QED BY <1>5, <2>2 DEF LiveTypes
<1>7. \A t : t \in Given(p) <=> \E s \in LiveDomains(p) : t \in GivenIn(s)
  BY <1>6 DEF Given, GivenIn
<1>8. ASSUME NEW r
      PROVE  r \in {e.raw : e \in Enums(p)} <=>
              \E s \in LiveDomains(p) : \E t \in ItemsIn(s) : \E f : IsEnum(t, f, r)
  <2>1. r \in {e.raw : e \in Enums(p)} <=> \E t \in LiveItems(p) : \E f : IsEnum(t, f, r)
    BY EnumsAre, EnumRecordIs DEF IsEnum
  <2> QED BY <1>5, <2>1
<1> QED BY <1>3, <1>4, <1>5, <1>6, <1>7, <1>8

(* The items and the types of a protocol are of one domain each.           *)
LEMMA ItemFacts ==
  ASSUME NEW p, WellFormed(p)
  PROVE  /\ \A s \in LiveDomains(p) : \A t \in ItemsIn(s) \cup GivenIn(s) : t.raw[1] = s.name
         /\ \A s \in LiveDomains(p) : DomainGiven(s)
         /\ \A t \in LiveItems(p) : t \in ItemSet /\ WellFormedItem(t) /\ Sound(t)
         /\ \A t \in Given(p) : Sound(t) /\ t.kind = "type"
         /\ \A t, u \in Given(p) : t.raw = u.raw => t = u
<1>1. \A s \in LiveDomains(p) : s \in DomainSet /\ WellFormedDomain(s)
  BY ProtocolParts
<1>2. \A s \in LiveDomains(p) :
        /\ DomainGiven(s)
        /\ \A t \in ItemsIn(s) \cup GivenIn(s) : t.raw[1] = s.name
        /\ \A t \in ItemsIn(s) : WellFormedItem(t)
  BY <1>1, DomainIsGiven
<1>3. \A s \in LiveDomains(p) : \A t \in ItemsIn(s) : t \in ItemSet /\ Sound(t)
  BY <1>1, <1>2, DomainItems, ItemsSound
<1>4. \A t \in LiveItems(p) : t \in ItemSet /\ WellFormedItem(t) /\ Sound(t)
  BY <1>2, <1>3, ProtocolParts
<1>5. ASSUME NEW s \in LiveDomains(p)
      PROVE  /\ \A t \in GivenIn(s) : Sound(t) /\ t.kind = "type"
             /\ \A t, u \in GivenIn(s) : t.raw = u.raw => t = u
  <2>1. PICK w : w = GivenSeq(s)
    OBVIOUS
  <2>2. /\ w \in Seq(ItemSet) /\ ToSet(w) = GivenIn(s)
        /\ \A t \in ToSet(w) : Sound(t) /\ t.kind = "type"
        /\ \A i, j \in 1 .. Len(w) : w[i].raw = w[j].raw => i = j
    BY <1>2, <2>1, GivenSeqIs DEF DomainGiven
  <2>3. \A x : x \in ToSet(w) <=> \E i \in 1 .. Len(w) : w[i] = x
    BY <2>2, TypedSeq
  <2>4. \A t, u \in ToSet(w) : t.raw = u.raw => t = u
    BY <2>2, <2>3
  <2> QED BY <2>2, <2>4
<1>6. \A t \in Given(p) : Sound(t) /\ t.kind = "type"
  BY <1>5, ProtocolParts
<1>7. ASSUME NEW t \in Given(p), NEW u \in Given(p), t.raw = u.raw PROVE t = u
  <2>1. PICK s \in LiveDomains(p), q \in LiveDomains(p) : t \in GivenIn(s) /\ u \in GivenIn(q)
    BY ProtocolParts
  <2>2. s.name = q.name
    BY <1>2, <1>7, <2>1
  <2>3. s = q
    BY <2>2, ProtocolParts
  <2> QED BY <1>5, <1>7, <2>1, <2>3
<1> QED BY <1>2, <1>4, <1>6, <1>7

-----------------------------------------------------------------------------
(* All domains when they are fixed. *)

AllMade(p, ds) ==
  /\ ds \in Seq(DomainSet)
  /\ \A i \in 1 .. Len(ds) : \E s \in LiveDomains(p) : DomainMade(s, ds[i])
  /\ \A s \in LiveDomains(p) : \E i \in 1 .. Len(ds) : DomainMade(s, ds[i])
  /\ \A i, k \in 1 .. Len(ds) : ds[i].name = ds[k].name => i = k

TypesIn(ds) == UNION {ToSet(ds[i].types) : i \in 1 .. Len(ds)}

LEMMA InTypes == ASSUME NEW ds, NEW v PROVE v \in TypesIn(ds) <=> \E i \in 1 .. Len(ds) : v \in ToSet(ds[i].types)
  BY DEF TypesIn

(* What the types of a fixed domain are, in the words of the protocol.     *)
LEMMA TypesOfOne ==
  ASSUME NEW p, WellFormed(p), NEW s \in LiveDomains(p), NEW d, DomainMade(s, d), NEW v \in ToSet(d.types)
  PROVE  /\ v \in ItemSet /\ v.kind = "type" /\ FieldsDone(v) /\ v.raw[1] = d.name
         /\ v.raw \in TypesThere(p) /\ (v.circular <=> v.raw \in SharedThere(p))
         /\ (\E t \in Given(p) : Becomes(t, v)) \/ (Bare(v) /\ Simple(v.typ) /\ v.raw \notin GivenNames(p))
<1>1. TypesMade(s, d.types) /\ d.name = s.name
  BY DEF DomainMade
<1>2. (\E t \in GivenIn(s) : Becomes(t, v)) \/ NewFor(s, v)
  BY <1>1 DEF TypesMade
<1>3. CASE \E t \in GivenIn(s) : Becomes(t, v)
  <2>1. PICK t \in GivenIn(s) : Becomes(t, v)
    BY <1>3
  <2>2. t \in Given(p) /\ t.raw[1] = s.name /\ t.kind = "type"
    BY ProtocolParts, ItemFacts
  <2>3. v \in ItemSet /\ v.kind = "type" /\ FieldsDone(v) /\ v.raw = t.raw /\ v.circular = t.circular
    BY <2>1, <2>2 DEF Becomes
  <2>4. v.raw \in GivenNames(p)
    BY <2>2, <2>3 DEF GivenNames
  <2>5. v.circular => v.raw \in SharedThere(p)
    BY <2>2, <2>3 DEF SharedThere
  <2>6. ASSUME v.raw \in SharedThere(p) PROVE v.circular
    <3>1. \E u \in Given(p) : u.circular /\ u.raw = v.raw
      BY <2>4, <2>6 DEF SharedThere
    <3> QED BY <2>2, <2>3, <3>1, ItemFacts
  <2> QED BY <1>1, <2>1, <2>2, <2>3, <2>4, <2>5, <2>6 DEF TypesThere
<1>4. CASE NewFor(s, v)
  <2>1. /\ v \in ItemSet /\ Bare(v) /\ Simple(v.typ) /\ \A g \in GivenIn(s) : g.raw # v.raw
    BY <1>4 DEF NewFor
  <2>2. PICK t, f : t \in ItemsIn(s) /\
          f \in Members(t) /\ Extracted(f) /\ v.raw = <<t.raw[1], EnumName(AsFixed(t), f)>> /\ v.circular = f.circular
    BY <1>4 DEF NewFor
  <2>3. t \in LiveItems(p) /\ t.raw[1] = s.name
    BY <2>2, ProtocolParts, ItemFacts
  <2>4. PICK e : e = EnumRecord(t, f)
    OBVIOUS
  <2>5. e \in Enums(p) /\ e.raw = v.raw /\ e.field = f
    BY <2>2, <2>3, <2>4, EnumsAre, EnumRecordIs
  <2>6. v.raw \in TypesThere(p) /\ v.raw[1] = s.name
    BY <2>2, <2>3, <2>5 DEF TypesThere
  <2>7. v.raw \notin GivenNames(p)
    <3>1. SUFFICES ASSUME NEW g \in Given(p), g.raw = v.raw PROVE FALSE
      BY DEF GivenNames
    <3>2. PICK q \in LiveDomains(p) : g \in GivenIn(q)
      BY ProtocolParts
    <3>3. q.name = s.name
      BY <2>6, <3>1, <3>2, ItemFacts
    <3>4. q = s
      BY <3>3, ProtocolParts
    <3> QED BY <2>1, <3>1, <3>2, <3>4
  <2>8. v.circular => v.raw \in SharedThere(p)
    BY <2>2, <2>5, <2>7 DEF SharedThere
  <2>9. ASSUME v.raw \in SharedThere(p) PROVE v.circular
    <3>1. PICK x \in Enums(p) : x.raw = v.raw /\ x.field.circular
      BY <2>7, <2>9 DEF SharedThere, GivenNames
    <3>2. PICK u, g : u \in LiveItems(p) /\ g \in Members(u) /\ Extracted(g) /\ x = EnumRecord(u, g)
      BY EnumsAre
    <3>3. u.raw[1] = s.name /\ EnumName(AsFixed(u), g) = EnumName(AsFixed(t), f) /\ g.circular
      BY <2>2, <2>3, <2>6, <3>1, <3>2, EnumRecordIs
    <3>4. PICK q \in LiveDomains(p) : u \in ItemsIn(q)
      BY <3>2, ProtocolParts
    <3>5. q.name = s.name
      BY <3>3, <3>4, ItemFacts
    <3>6. q = s
      BY <3>5, ProtocolParts
    <3>7. s \in DomainSet /\ WellFormedDomain(s)
      BY ProtocolParts
    <3>8. /\ u \in ToSet(s.types \o s.commands \o s.events)
          /\ t \in ToSet(s.types \o s.commands \o s.events)
      BY <2>2, <3>4, <3>6, <3>7, DomainItems
    <3>9. g.circular = f.circular
      BY <2>2, <3>2, <3>3, <3>7, <3>8 DEF WellFormedDomain
    <3> QED BY <2>2, <3>3, <3>9
  <2>10. FieldsDone(v) /\ v.kind = "type"
    BY <2>1, NoElements DEF Bare, FieldsDone
  <2> QED BY <1>1, <2>1, <2>6, <2>7, <2>8, <2>9, <2>10
<1> QED BY <1>2, <1>3, <1>4

(* When all domains are fixed, the types in them are those that a reader of *)
(* the protocol finds there, one of each name, shared when they say so.      *)
THEOREM TypesAre ==
  ASSUME NEW p, WellFormed(p), NEW ds, AllMade(p, ds)
  PROVE  /\ \A i \in 1 .. Len(ds) : \A v \in ToSet(ds[i].types) : v.raw[1] = ds[i].name
         /\ \A v \in TypesIn(ds) :
              /\ v \in ItemSet /\ v.kind = "type" /\ FieldsDone(v)
              /\ v.raw \in TypesThere(p) /\ (v.circular <=> v.raw \in SharedThere(p))
              /\ (\E t \in Given(p) : Becomes(t, v)) \/ (Bare(v) /\ Simple(v.typ) /\ v.raw \notin GivenNames(p))
         /\ \A v, w \in TypesIn(ds) : v.raw = w.raw => v = w
         /\ \A t \in Given(p) : \E v \in TypesIn(ds) : Becomes(t, v)
         /\ \A r \in TypesThere(p) : \E v \in TypesIn(ds) : v.raw = r
         /\ \A e \in Enums(p) : \E v \in TypesIn(ds) : v.raw = e.raw /\ v.enum # <<>> /\ Once(v.enum[1])
<1>1. ASSUME NEW i \in 1 .. Len(ds), NEW v \in ToSet(ds[i].types)
      PROVE  /\ v \in ItemSet /\ v.kind = "type" /\ FieldsDone(v) /\ v.raw[1] = ds[i].name
             /\ v.raw \in TypesThere(p) /\ (v.circular <=> v.raw \in SharedThere(p))
             /\ (\E t \in Given(p) : Becomes(t, v)) \/ (Bare(v) /\ Simple(v.typ) /\ v.raw \notin GivenNames(p))
  <2>1. PICK s \in LiveDomains(p) : DomainMade(s, ds[i])
    BY DEF AllMade
  <2> QED BY <2>1, TypesOfOne
<1>2. ASSUME NEW v \in TypesIn(ds), NEW w \in TypesIn(ds), v.raw = w.raw PROVE v = w
  <2>1. PICK i \in 1 .. Len(ds), k \in 1 .. Len(ds) : v \in ToSet(ds[i].types) /\ w \in ToSet(ds[k].types)
    BY InTypes
  <2>2. i = k
    BY <1>1, <1>2, <2>1 DEF AllMade
  <2>3. PICK vs : vs = ds[i].types
    OBVIOUS
  <2>4. vs \in Seq(ItemSet) /\ \A j, l \in 1 .. Len(vs) : vs[j].raw = vs[l].raw => j = l
    BY <2>3 DEF AllMade, DomainMade, TypesMade
  <2>5. \A x : x \in ToSet(vs) <=> \E j \in 1 .. Len(vs) : vs[j] = x
    BY <2>4, TypedSeq
  <2> QED BY <1>2, <2>1, <2>2, <2>3, <2>4, <2>5
<1>3. ASSUME NEW t \in Given(p) PROVE \E v \in TypesIn(ds) : Becomes(t, v)
  <2>1. PICK s \in LiveDomains(p) : t \in GivenIn(s)
    BY ProtocolParts
  <2>2. PICK i \in 1 .. Len(ds) : DomainMade(s, ds[i])
    BY DEF AllMade
  <2>3. PICK v \in ToSet(ds[i].types) : Becomes(t, v)
    BY <2>1, <2>2 DEF DomainMade, TypesMade
  <2> QED BY <2>3, InTypes
<1>4. ASSUME NEW e \in Enums(p) PROVE \E v \in TypesIn(ds) : v.raw = e.raw /\ v.enum # <<>> /\ Once(v.enum[1])
  <2>1. PICK t, f : t \in LiveItems(p) /\ f \in Members(t) /\ Extracted(f) /\ e = EnumRecord(t, f)
    BY EnumsAre
  <2>2. PICK s \in LiveDomains(p) : t \in ItemsIn(s)
    BY <2>1, ProtocolParts
  <2>3. PICK i \in 1 .. Len(ds) : DomainMade(s, ds[i])
    BY DEF AllMade
  <2>4. \E v \in ToSet(ds[i].types) : /\ v.raw = <<t.raw[1], EnumName(AsFixed(t), f)>>
                                      /\ v.enum # <<>> /\ Once(v.enum[1])
    BY <2>1, <2>2, <2>3 DEF DomainMade, TypesMade
  <2> QED BY <2>1, <2>4, EnumRecordIs, InTypes
<1>5. ASSUME NEW r \in TypesThere(p) PROVE \E v \in TypesIn(ds) : v.raw = r
  <2>1. (\E t \in Given(p) : t.raw = r) \/ \E e \in Enums(p) : e.raw = r
    BY DEF TypesThere, GivenNames
  <2> QED BY <1>3, <1>4, <2>1 DEF Becomes
<1> QED BY <1>1, <1>2, <1>3, <1>4, <1>5, InTypes

(* The commands, the events and the types of the live items.               *)
LEMMA ItemsAre ==
  ASSUME NEW p, WellFormed(p), NEW ds, AllMade(p, ds)
  PROVE  /\ \A i \in 1 .. Len(ds) :
              /\ \A c \in ToSet(ds[i].commands) : \E t \in LiveItems(p) :
                   t.kind = "command" /\ Becomes(t, c) /\ t.raw[1] = ds[i].name
              /\ \A c \in ToSet(ds[i].events) : \E t \in LiveItems(p) :
                   t.kind = "event" /\ Becomes(t, c) /\ t.raw[1] = ds[i].name
         /\ \A t \in LiveItems(p) : t.kind = "type" => t \in Given(p)
         /\ \A t \in LiveItems(p) : \E i \in 1 .. Len(ds) :
              /\ ds[i].name = t.raw[1]
              /\ t.kind = "command" => \E c \in ToSet(ds[i].commands) : Becomes(t, c)
              /\ t.kind = "event" => \E c \in ToSet(ds[i].events) : Becomes(t, c)
<1>1. \A s \in LiveDomains(p) : /\ \A t \in ToSet(s.types) : t.kind = "type"
                                /\ \A t \in ToSet(s.commands) : t.kind = "command"
                                /\ \A t \in ToSet(s.events) : t.kind = "event"
  BY ProtocolParts DEF WellFormedDomain
<1>2. ASSUME NEW i \in 1 .. Len(ds)
      PROVE  /\ \A c \in ToSet(ds[i].commands) : \E t \in LiveItems(p) :
                  t.kind = "command" /\ Becomes(t, c) /\ t.raw[1] = ds[i].name
             /\ \A c \in ToSet(ds[i].events) : \E t \in LiveItems(p) :
                  t.kind = "event" /\ Becomes(t, c) /\ t.raw[1] = ds[i].name
  <2>1. PICK s \in LiveDomains(p) : DomainMade(s, ds[i])
    BY DEF AllMade
  <2>2. ds[i].name = s.name /\ ItemsMade(s.commands, ds[i].commands) /\ ItemsMade(s.events, ds[i].events)
    BY <2>1 DEF DomainMade
  <2>3. \A t \in ToSet(s.commands) \cup ToSet(s.events) : Live(t) => t \in LiveItems(p) /\ t.raw[1] = s.name
    BY ProtocolParts, ItemFacts DEF ItemsIn
  <2> QED BY <1>1, <2>2, <2>3 DEF ItemsMade
<1>3. \A t \in LiveItems(p) : t.kind = "type" => t \in Given(p)
  BY DEF LiveTypes, Given
<1>4. ASSUME NEW t \in LiveItems(p)
      PROVE  \E i \in 1 .. Len(ds) :
              /\ ds[i].name = t.raw[1]
              /\ t.kind = "command" => \E c \in ToSet(ds[i].commands) : Becomes(t, c)
              /\ t.kind = "event" => \E c \in ToSet(ds[i].events) : Becomes(t, c)
  <2>1. PICK s \in LiveDomains(p) : t \in ItemsIn(s)
    BY ProtocolParts
  <2>2. PICK i \in 1 .. Len(ds) : DomainMade(s, ds[i])
    BY DEF AllMade
  <2>3. t.raw[1] = ds[i].name
    BY <2>1, <2>2, ItemFacts DEF DomainMade
  <2>4. /\ t.kind = "command" => t \in ToSet(s.commands) /\ Live(t)
        /\ t.kind = "event" => t \in ToSet(s.events) /\ Live(t)
    BY <1>1, <2>1 DEF ItemsIn
  <2>5. ItemsMade(s.commands, ds[i].commands) /\ ItemsMade(s.events, ds[i].events)
    BY <2>2 DEF DomainMade
  <2> QED BY <2>3, <2>4, <2>5 DEF ItemsMade
<1> QED BY <1>2, <1>3, <1>4

(* The types have the values that the protocol gives them: their own, and   *)
(* those of all members whose enums have joined them.                       *)
THEOREM ValuesAre ==
  ASSUME NEW p, WellFormed(p), NEW ds, AllMade(p, ds), NEW v \in TypesIn(ds)
  PROVE  Values(v) = ValuesOf(p, v.raw)
<1>1. PICK i \in 1 .. Len(ds) : v \in ToSet(ds[i].types)
  BY InTypes
<1>2. PICK s \in LiveDomains(p) : DomainMade(s, ds[i])
  BY DEF AllMade
<1>3. v.raw[1] = s.name
  BY <1>1, <1>2, TypesAre DEF DomainMade
<1>4. \A x : x \in Values(v) <=> HasValue(s, v.raw, x)
  BY <1>1, <1>2 DEF DomainMade, TypesMade
<1>5. ASSUME NEW x PROVE x \in ValuesOf(p, v.raw) <=>
        \/ \E e \in Enums(p) : e.raw = v.raw /\ x \in ToSet(e.field.enum[1])
        \/ \E t \in Given(p) : t.raw = v.raw /\ t.enum # <<>> /\ x \in ToSet(t.enum[1])
  BY DEF ValuesOf
<1>6. ASSUME NEW x
      PROVE  (\E t \in Given(p) : t.raw = v.raw /\ t.enum # <<>> /\ x \in ToSet(t.enum[1]))
               <=> \E t \in GivenIn(s) : t.raw = v.raw /\ x \in Values(t)
  <2>1. \A t : t \in GivenIn(s) <=> t \in Given(p) /\ t.raw[1] = s.name
    BY ProtocolParts, ItemFacts
  <2> QED BY <1>3, <2>1 DEF Values
<1>7. ASSUME NEW x
      PROVE  (\E e \in Enums(p) : e.raw = v.raw /\ x \in ToSet(e.field.enum[1]))
               <=> \E t \in ItemsIn(s) : \E f \in Members(t) :
                     Extracted(f) /\ v.raw = <<t.raw[1], EnumName(AsFixed(t), f)>> /\ x \in ToSet(f.enum[1])
  <2>1. \A t : t \in ItemsIn(s) <=> t \in LiveItems(p) /\ t.raw[1] = s.name
    BY ProtocolParts, ItemFacts
  <2>2. (\E e \in Enums(p) : e.raw = v.raw /\ x \in ToSet(e.field.enum[1]))
          <=> \E t \in LiveItems(p) : \E f \in Members(t) :
                     Extracted(f) /\ <<t.raw[1], EnumName(AsFixed(t), f)>> = v.raw /\ x \in ToSet(f.enum[1])
    BY EnumsAre, EnumRecordIs
  <2>3. \A t, f : <<t.raw[1], EnumName(AsFixed(t), f)>> = v.raw => t.raw[1] = s.name
    BY <1>3
  <2> QED BY <2>1, <2>2, <2>3
<1>8. \A x : x \in Values(v) <=> x \in ValuesOf(p, v.raw)
  BY <1>4, <1>5, <1>6, <1>7 DEF HasValue
<1> QED BY <1>8 DEF Values, ValuesOf

-----------------------------------------------------------------------------
(***************************************************************************)
(* The steps of the tool.                                                  *)
(***************************************************************************)
-----------------------------------------------------------------------------
(* Finding types. *)

LEMMA TypesOfAre ==
  ASSUME WellFormed(source), AllMade(source, domains), NEW dom, NEW vs, vs = TypesOf(dom)
  PROVE  vs \in Seq(ItemSet) /\ \A v : v \in ToSet(vs) <=> v \in TypesIn(domains) /\ v.raw[1] = dom
<1>1. PICK I : I = {k \in 1 .. Len(domains) : domains[k].name = dom}
  OBVIOUS
<1>2. PICK i : i = IF I # {} THEN Min(I) ELSE 0
  OBVIOUS
<1>3. vs = IF i = 0 THEN <<>> ELSE domains[i].types
  BY <1>1, <1>2 DEF TypesOf, SelectInSeq
<1>4. \A k \in 1 .. Len(domains) : domains[k] \in DomainSet
  BY TypedSeq DEF AllMade
<1>5. \A k \in 1 .. Len(domains) : \A v \in ToSet(domains[k].types) : v.raw[1] = domains[k].name
  BY TypesAre
<1>6. CASE I = {}
  <2>1. vs = <<>>
    BY <1>2, <1>3, <1>6
  <2>2. ASSUME NEW v \in TypesIn(domains) PROVE v.raw[1] # dom
    <3>1. PICK k \in 1 .. Len(domains) : v \in ToSet(domains[k].types)
      BY InTypes
    <3> QED BY <1>1, <1>5, <1>6, <3>1
  <2>3. <<>> \in Seq(ItemSet) /\ ToSet(<<>>) = {}
    BY NoElements
  <2> QED BY <2>1, <2>2, <2>3
<1>7. CASE I # {}
  <2>1. I \subseteq Nat
    BY <1>1
  <2>2. i \in I
    BY <1>2, <1>7, <2>1, FirstOf
  <2>3. i \in 1 .. Len(domains) /\ i # 0 /\ domains[i].name = dom
    BY <1>1, <2>2
  <2>4. vs = domains[i].types
    BY <1>3, <2>3
  <2>5. vs \in Seq(ItemSet)
    BY <1>4, <2>3, <2>4 DEF DomainSet
  <2>6. ASSUME NEW v \in TypesIn(domains), v.raw[1] = dom PROVE v \in ToSet(vs)
    <3>1. PICK k \in 1 .. Len(domains) : v \in ToSet(domains[k].types)
      BY InTypes
    <3>2. domains[k].name = domains[i].name
      BY <1>5, <2>3, <2>6, <3>1
    <3>3. k = i
      BY <2>3, <3>2 DEF AllMade
    <3> QED BY <2>4, <3>1, <3>3
  <2>7. \A v \in ToSet(vs) : v \in TypesIn(domains) /\ v.raw[1] = dom
    BY <1>5, <2>3, <2>4, InTypes
  <2> QED BY <2>5, <2>6, <2>7
<1> QED BY <1>6, <1>7

(* The types of all domains, one after the other.                          *)
TypeSeqs == MapSeq(domains, LAMBDA d : d.types)

LEMMA AllTypesInOrder ==
  ASSUME WellFormed(source), AllMade(source, domains), NEW flat, flat = FlattenSeq(TypeSeqs)
  PROVE  /\ flat \in Seq(ItemSet) /\ ToSet(flat) = TypesIn(domains)
         /\ \A k, l \in 1 .. Len(flat) : flat[k].raw = flat[l].raw => k = l
<1>1. PICK ss : ss = TypeSeqs
  OBVIOUS
<1>2. Len(domains) \in Nat /\ \A k \in 1 .. Len(domains) : domains[k] \in DomainSet
  BY TypedSeq DEF AllMade
<1>3. ss = [i \in 1 .. Len(domains) |-> ss[i]] /\ \A i \in 1 .. Len(domains) : ss[i] = domains[i].types
  BY <1>1 DEF TypeSeqs, MapSeq
<1>4. IsSeq(ss) /\ Len(ss) = Len(domains)
  BY <1>2, <1>3, SeqFunction
<1>5. \A i \in 1 .. Len(ss) : ss[i] = domains[i].types /\ ss[i] \in Seq(ItemSet) /\ IsSeq(ss[i])
  BY <1>2, <1>3, <1>4, AnySeq DEF DomainSet
<1>6. IsSeq(flat) /\ \A x : x \in ToSet(flat) <=> \E i \in 1 .. Len(ss) : x \in ToSet(ss[i])
  BY <1>1, <1>4, <1>5, FlattenElements
<1>7. \A x : x \in ToSet(flat) <=> x \in TypesIn(domains)
  BY <1>4, <1>5, <1>6, InTypes
<1>8. flat \in Seq(ItemSet)
  BY <1>6, <1>7, Typed, TypesAre
<1>9. PICK row, col : Places(flat, ss, Len(ss), row, col)
  BY <1>1, <1>4, <1>5, FlattenPlaces
<1>10. ASSUME NEW k \in 1 .. Len(flat)
       PROVE  /\ row[k] \in 1 .. Len(domains) /\ col[k] \in 1 .. Len(domains[row[k]].types)
              /\ flat[k] = domains[row[k]].types[col[k]]
  BY <1>4, <1>5, <1>9 DEF Places
<1>11. ASSUME NEW k \in 1 .. Len(flat), NEW l \in 1 .. Len(flat), k < l, flat[k].raw = flat[l].raw PROVE FALSE
  <2>1. PICK i, j, a, b : i = row[k] /\ j = row[l] /\ a = col[k] /\ b = col[l]
    OBVIOUS
  <2>2. PICK vs, ws : vs = domains[i].types /\ ws = domains[j].types
    OBVIOUS
  <2>3. PICK v, w : v = flat[k] /\ w = flat[l]
    OBVIOUS
  <2>4. /\ i \in 1 .. Len(domains) /\ j \in 1 .. Len(domains) /\ a \in 1 .. Len(vs) /\ b \in 1 .. Len(ws)
        /\ v = vs[a] /\ w = ws[b] /\ v.raw = w.raw
    BY <1>10, <1>11, <2>1, <2>2, <2>3
  <2>5. vs \in Seq(ItemSet) /\ ws \in Seq(ItemSet)
    BY <1>2, <2>2, <2>4 DEF DomainSet
  <2>6. v \in ToSet(vs) /\ w \in ToSet(ws)
    BY <2>4, <2>5, TypedSeq
  <2>7. v.raw[1] = domains[i].name /\ w.raw[1] = domains[j].name
    BY <2>2, <2>4, <2>6, TypesAre
  <2>8. i = j
    BY <2>4, <2>7 DEF AllMade
  <2>9. \A x, y \in 1 .. Len(vs) : vs[x].raw = vs[y].raw => x = y
    BY <2>2, <2>4 DEF AllMade, DomainMade, TypesMade
  <2>10. a = b
    BY <2>2, <2>4, <2>8, <2>9
  <2>11. i < j \/ a < b
    BY <1>9, <1>11, <2>1 DEF Places
  <2>12. i \in Nat /\ a \in Nat
    BY <2>4, <2>5
  <2> QED BY <2>8, <2>10, <2>11, <2>12
<1>12. \A k, l \in 1 .. Len(flat) : flat[k].raw = flat[l].raw => k = l
  <2>1. Len(flat) \in Nat
    BY <1>8, TypedSeq
  <2>2. \A k, l \in 1 .. Len(flat) : k < l \/ k = l \/ l < k
    BY <2>1
  <2> QED BY <1>11, <2>2
<1> QED BY <1>7, <1>8, <1>12

(* What is picked from items with names of their own has them too.         *)
LEMMA DistinctPicks ==
  ASSUME NEW ts \in Seq(ItemSet), \A k, l \in 1 .. Len(ts) : ts[k].raw = ts[l].raw => k = l,
         NEW vs \in Seq(ItemSet), NEW I, Selection(vs, ts, I)
  PROVE  \A k, l \in 1 .. Len(vs) : vs[k].raw = vs[l].raw => k = l
<1>1. PICK pos : Picks(vs, ts, Len(ts), I, pos)
  BY DEF Selection
<1>2. Len(vs) \in Nat /\ Len(ts) \in Nat
  BY TypedSeq
<1>3. ASSUME NEW k \in 1 .. Len(vs), NEW l \in 1 .. Len(vs), k < l, vs[k].raw = vs[l].raw PROVE FALSE
  <2>1. pos[k] \in 1 .. Len(ts) /\ pos[l] \in 1 .. Len(ts) /\ vs[k] = ts[pos[k]] /\ vs[l] = ts[pos[l]] /\ pos[k] < pos[l]
    BY <1>1, <1>3 DEF Picks
  <2>2. pos[k] = pos[l]
    BY <1>3, <2>1
  <2> QED BY <1>2, <2>1, <2>2
<1>4. \A k, l \in 1 .. Len(vs) : k < l \/ k = l \/ l < k
  BY <1>2
<1> QED BY <1>3, <1>4

LEMMA SharedAre ==
  ASSUME WellFormed(source), AllMade(source, domains), NEW vs, vs = Shared
  PROVE  /\ vs \in Seq(ItemSet) /\ \A v : v \in ToSet(vs) <=> v \in TypesIn(domains) /\ v.circular
         /\ \A k, l \in 1 .. Len(vs) : vs[k].raw = vs[l].raw => k = l
<1>1. PICK flat : flat = FlattenSeq(TypeSeqs)
  OBVIOUS
<1>2. PICK I : I = {i \in 1 .. Len(flat) : flat[i].circular}
  OBVIOUS
<1>3. vs = Picked(flat, I)
  BY <1>1, <1>2 DEF Shared, TypeSeqs, Filter
<1>4. /\ flat \in Seq(ItemSet) /\ ToSet(flat) = TypesIn(domains)
      /\ \A k, l \in 1 .. Len(flat) : flat[k].raw = flat[l].raw => k = l
  BY <1>1, AllTypesInOrder
<1>5. vs \in Seq(ItemSet)
  BY <1>3, <1>4, PickedType
<1>6. IsSeq(flat) /\ \A x : x \in ToSet(flat) <=> \E i \in 1 .. Len(flat) : flat[i] = x
  BY <1>4, TypedSeq
<1>7. \A x : x \in ToSet(vs) <=> \E i \in 1 .. Len(flat) : i \in I /\ flat[i] = x
  BY <1>3, <1>6, PickedElements
<1>8. \A v : v \in ToSet(vs) <=> v \in TypesIn(domains) /\ v.circular
  BY <1>2, <1>4, <1>6, <1>7
<1>9. Selection(vs, flat, I)
  BY <1>3, <1>6, PickedSelection
<1>10. \A k, l \in 1 .. Len(vs) : vs[k].raw = vs[l].raw => k = l
  BY <1>4, <1>5, <1>9, DistinctPicks
<1> QED BY <1>5, <1>8, <1>10

(* What a reference may be resolved to, in the words of the protocol.      *)
Found(v, dtyp, name) == IF dtyp = "cdp" THEN v.circular /\ v.raw[2] = name ELSE v.raw = <<dtyp, name>>

LEMMA ResolveAre ==
  ASSUME WellFormed(source), AllMade(source, domains), NEW ref, NEW d,
         NEW dtyp, dtyp = IF ref[1] = "" THEN d ELSE ref[1], NEW rs, rs = ResolveRef(ref, d)
  PROVE  /\ rs \in Seq(ItemSet)
         /\ \A v : v \in ToSet(rs) <=> v \in TypesIn(domains) /\ Found(v, dtyp, ref[2])
<1>1. PICK ts : ts = IF dtyp = "cdp" THEN Shared ELSE TypesOf(dtyp)
  OBVIOUS
<1>2. PICK I : I = {i \in 1 .. Len(ts) : IF dtyp = "cdp" THEN ts[i].raw[2] = ref[2] ELSE ts[i].raw = <<dtyp, ref[2]>>}
  OBVIOUS
<1>3. rs = Picked(ts, I)
  BY <1>1, <1>2 DEF ResolveRef, Filter
<1>4. /\ ts \in Seq(ItemSet)
      /\ \A v : v \in ToSet(ts) <=> v \in TypesIn(domains) /\ IF dtyp = "cdp" THEN v.circular ELSE v.raw[1] = dtyp
  <2>1. CASE dtyp = "cdp"
    BY <1>1, <2>1, SharedAre
  <2>2. CASE dtyp # "cdp"
    <3>1. PICK dom : dom = dtyp
      OBVIOUS
    <3>2. ts = TypesOf(dom)
      BY <1>1, <2>2, <3>1
    <3>3. ts \in Seq(ItemSet) /\ \A v : v \in ToSet(ts) <=> v \in TypesIn(domains) /\ v.raw[1] = dom
      BY <3>2, TypesOfAre
    <3> QED BY <2>2, <3>1, <3>3
  <2> QED BY <2>1, <2>2
<1>5. rs \in Seq(ItemSet)
  BY <1>3, <1>4, PickedType
<1>6. IsSeq(ts)
  BY <1>4, TypedSeq
<1>61. \A x : x \in ToSet(ts) <=> \E i \in 1 .. Len(ts) : ts[i] = x
  BY <1>4, TypedSeq
<1>7. \A x : x \in ToSet(rs) <=> \E i \in 1 .. Len(ts) : i \in I /\ ts[i] = x
  BY <1>3, <1>6, PickedElements
<1>8. \A x : x \in ToSet(rs) <=>
        x \in ToSet(ts) /\ IF dtyp = "cdp" THEN x.raw[2] = ref[2] ELSE x.raw = <<dtyp, ref[2]>>
  BY <1>2, <1>61, <1>7
<1>9. \A x : <<dtyp, x>>[1] = dtyp
  OBVIOUS
<1>10. \A v : v \in ToSet(rs) <=> v \in TypesIn(domains) /\ Found(v, dtyp, ref[2])
  <2>1. CASE dtyp = "cdp"
    BY <1>4, <1>8, <2>1 DEF Found
  <2>2. CASE dtyp # "cdp"
    BY <1>4, <1>8, <1>9, <2>2 DEF Found
  <2> QED BY <2>1, <2>2
<1> QED BY <1>5, <1>10

Where(t) == IF IsShared(source, t) THEN "cdp" ELSE t.raw[1]

LEMMA SharedIsThere ==
  ASSUME NEW p
  PROVE  SharedThere(p) \subseteq TypesThere(p)
  BY DEF SharedThere, TypesThere, GivenNames

(* The short names of shared types are their own.                          *)
LEMMA SharedNames ==
  ASSUME NEW p, WellFormed(p), NEW r \in SharedThere(p), NEW q \in TypesThere(p), q[2] = r[2],
         NEW s \in SharedThere(p), s[1] = q[1]
  PROVE  q = r
  BY DEF WellFormed

(* A reference is resolved in Go to what it means to the reader, and to    *)
(* nothing else.                                                           *)
LEMMA ResolvesAsMeant ==
  ASSUME WellFormed(source), AllMade(source, domains), NEW t \in ItemSet,
         NEW ref \in References, ref # <<>>, NEW rs, rs = ResolveRef(ref, Where(t))
  PROVE  /\ rs \in Seq(ItemSet) /\ ToSet(rs) \subseteq TypesIn(domains)
         /\ \A r : r \in Targets(source, t, ref) <=> \E v \in ToSet(rs) : v.raw = r
         /\ \A v, w \in ToSet(rs) : v = w
         /\ rs = <<>> <=> Targets(source, t, ref) = {}
<1>1. PICK dtyp : dtyp = IF ref[1] = "" THEN Where(t) ELSE ref[1]
  OBVIOUS
<1>2. rs \in Seq(ItemSet) /\ \A v : v \in ToSet(rs) <=> v \in TypesIn(domains) /\ Found(v, dtyp, ref[2])
  BY <1>1, ResolveAre
<1>3. ref[1] # "cdp" /\ t.raw[1] # "cdp"
  BY DEF References, ItemSet, DomainNames
<1>4. /\ \A v \in TypesIn(domains) : v.raw \in TypesThere(source) /\ (v.circular <=> v.raw \in SharedThere(source))
      /\ \A r \in TypesThere(source) : \E v \in TypesIn(domains) : v.raw = r
      /\ \A v, w \in TypesIn(domains) : v.raw = w.raw => v = w
  BY TypesAre
<1>5. CASE IsShared(source, t) /\ ref[1] = ""
  <2>1. dtyp = "cdp"
    BY <1>1, <1>5 DEF Where
  <2>2. \A v : v \in ToSet(rs) <=> v \in TypesIn(domains) /\ v.circular /\ v.raw[2] = ref[2]
    BY <1>2, <2>1 DEF Found
  <2>3. \A r : r \in Targets(source, t, ref) <=> r \in SharedThere(source) /\ r[2] = ref[2]
    BY <1>5 DEF Targets
  <2>4. \A r : r \in Targets(source, t, ref) <=> \E v \in ToSet(rs) : v.raw = r
    BY <1>4, <2>2, <2>3, SharedIsThere
  <2>5. \A v, w \in ToSet(rs) : v = w
    BY <1>4, <2>2, SharedNames
  <2> QED BY <1>2, <2>2, <2>4, <2>5, NoElementsIn, NoElements
<1>6. CASE ~(IsShared(source, t) /\ ref[1] = "")
  <2>1. dtyp # "cdp" /\ <<dtyp, ref[2]>> = Meaning(t, ref)
    BY <1>1, <1>3, <1>6 DEF Where, Meaning
  <2>2. \A v : v \in ToSet(rs) <=> v \in TypesIn(domains) /\ v.raw = Meaning(t, ref)
    BY <1>2, <2>1 DEF Found
  <2>3. Targets(source, t, ref) = {Meaning(t, ref)} \cap TypesThere(source)
    BY <1>6 DEF Targets
  <2>4. \A r : r \in Targets(source, t, ref) <=> \E v \in ToSet(rs) : v.raw = r
    BY <1>4, <2>2, <2>3
  <2>5. \A v, w \in ToSet(rs) : v = w
    BY <1>4, <2>2
  <2> QED BY <1>2, <2>2, <2>4, <2>5, NoElementsIn, NoElements
<1> QED BY <1>5, <1>6

-----------------------------------------------------------------------------
(* What the Go definition of an item refers to.                            *)

(* The members of a definition that are not hidden.                        *)
Shown(v, d) == {x \in ToSet(StructFields(v, d)) \cup ToSet(v.returns) : ~x.hidden}

(* They are members of t.                                                  *)
ShownOf(xs, t) ==
  /\ \A x \in xs : \E f \in Members(t) : x.name = f.name /\ x.ref = LookedUp(t, f)
  /\ \A f \in Members(t) : \E x \in xs : x.name = f.name /\ x.ref = LookedUp(t, f)

LEMMA ObjectShows ==
  ASSUME WellFormed(source), NEW t \in LiveItems(source), ~t.array, NEW v, Becomes(t, v),
         NEW d, NEW fs, fs = StructFields(v, d)
  PROVE  /\ fs \in Seq(FieldSet) /\ v.returns \in Seq(FieldSet) /\ v.ref = <<>> /\ ~v.array
         /\ ShownOf(Shown(v, d), t)
<1>1. t \in ItemSet /\ WellFormedItem(t)
  BY ItemFacts
<1>2. /\ v \in ItemSet /\ v.kind = t.kind /\ ~v.array /\ v.ref = <<>> /\ v.typ = AsFixed(t).typ
      /\ SameMembers(v, t) /\ (t.returns = <<>> => v.returns = <<>>)
  BY <1>1 DEF Becomes, WellFormedItem
<1>3. v.fields \in Seq(FieldSet) /\ v.returns \in Seq(FieldSet) /\ <<>> \in Seq(FieldSet) /\ ToSet(<<>>) = {}
  BY <1>2, NoElements DEF ItemSet
<1>4. CASE v.kind = "type" /\ v.typ # "object"
  <2>1. fs = <<>>
    BY <1>2, <1>4 DEF StructFields
  <2>2. t.kind = "type" /\ AsFixed(t).typ # "object"
    BY <1>2, <1>4
  <2>3. t.fields = <<>> /\ t.returns = <<>>
    BY <1>1, <2>2 DEF WellFormedItem
  <2>4. Members(t) = {}
    BY <1>1, <1>3, <2>3, MembersAre
  <2>5. ToSet(v.returns) = {} /\ ToSet(fs) = {}
    BY <1>2, <1>3, <2>1, <2>3
  <2>6. Shown(v, d) = {}
    BY <2>5 DEF Shown
  <2> QED BY <1>2, <1>3, <2>1, <2>4, <2>6 DEF ShownOf
<1>5. CASE ~(v.kind = "type" /\ v.typ # "object")
  <2>1. fs = v.fields
    BY <1>2, <1>5 DEF StructFields
  <2>2. ShownOf(Shown(v, d), t)
    BY <1>2, <2>1 DEF Shown, ShownOf, SameMembers
  <2> QED BY <1>2, <1>3, <2>1, <2>2
<1> QED BY <1>4, <1>5

(* A type that no item is: added, or made of an enum.                      *)
Inert(v) == ~v.array /\ v.ref = <<>> /\ v.kind = "type" /\ v.typ # "object" /\ v.returns = <<>>

LEMMA InertShows ==
  ASSUME NEW v, Inert(v), NEW d
  PROVE  /\ StructFields(v, d) = <<>> /\ StructFields(v, d) \in Seq(FieldSet) /\ v.returns \in Seq(FieldSet)
         /\ Shown(v, d) = {}
<1>1. StructFields(v, d) = <<>> /\ v.returns = <<>>
  BY DEF Inert, StructFields
<1>2. <<>> \in Seq(FieldSet) /\ ToSet(<<>>) = {}
  BY NoElements
<1> QED BY <1>1, <1>2 DEF Shown

LEMMA TypeOrigins ==
  ASSUME NEW p, WellFormed(p), NEW ds, AllMade(p, ds), NEW v \in TypesIn(ds)
  PROVE  (\E t \in LiveTypes(p) : Becomes(t, v)) \/ (Inert(v) /\ \A t \in LiveTypes(p) : t.raw = v.raw => Members(t) = {})
<1>1. v \in ItemSet /\ ((\E t \in Given(p) : Becomes(t, v)) \/ (Bare(v) /\ Simple(v.typ) /\ v.raw \notin GivenNames(p)))
  BY TypesAre
<1>2. LiveTypes(p) \subseteq Given(p)
  BY DEF Given
<1>3. CASE Bare(v) /\ Simple(v.typ) /\ v.raw \notin GivenNames(p)
  <2>1. \A t \in LiveTypes(p) : t.raw # v.raw
    BY <1>2, <1>3 DEF GivenNames
  <2> QED BY <1>3, <2>1 DEF Bare, Simple, Inert
<1>4. ASSUME NEW t \in Given(p), Becomes(t, v), t \notin LiveTypes(p)
      PROVE  Inert(v) /\ \A u \in LiveTypes(p) : u.raw = v.raw => Members(u) = {}
  <2>1. PICK s \in LiveDomains(p) : t \in ToSet(Added(s.name))
    BY <1>4 DEF Given
  <2>2. s.name \in DomainNames
    BY ProtocolParts DEF DomainSet
  <2>3. /\ ~t.array /\ t.ref = <<>> /\ t.kind = "type" /\ Members(t) = {} /\ AsFixed(t).typ # "object"
        /\ t.returns = <<>>
    BY <2>1, <2>2, AddedNow, AddedTypes DEF Bare
  <2>4. \A u \in LiveTypes(p) : u.raw = v.raw => u = t
    BY <1>2, <1>4, ItemFacts DEF Becomes
  <2> QED BY <1>4, <2>3, <2>4 DEF Becomes, Inert
<1> QED BY <1>1, <1>3, <1>4

(* A reference of the reader is one.                                       *)
LEMMA NamedRefs ==
  ASSUME NEW p, WellFormed(p), NEW t \in LiveItems(p), NEW f \in Members(t)
  PROVE  LookedUp(t, f) \in References
<1>1. t \in ItemSet
  BY ItemFacts
<1>2. AsFixed(t) \in ItemSet /\ f \in FieldSet
  BY <1>1, AsFixedShape, MemberType
<1> QED BY <1>2, ConvertedType, NamedIsIn DEF Turned, FieldSet

(* The types that the items of an array type may be.                       *)
ItemTypes(t) == {u \in LiveTypes(source) : t.ref # <<>> /\ u.raw \in Targets(source, t, t.ref)}

LEMMA ArrayShows ==
  ASSUME WellFormed(source), AllMade(source, domains), NEW t \in LiveItems(source), t.array,
         NEW v, Becomes(t, v), NEW d, d = Where(t), Resolves(v.ref, d),
         NEW fs, fs = StructFields(v, d)
  PROVE  /\ fs \in Seq(FieldSet) /\ v.returns \in Seq(FieldSet) /\ v.ref = t.ref
         /\ \A x \in Shown(v, d) : \E u \in ItemTypes(t) : \E f \in Members(u) : x.ref = LookedUp(u, f)
         /\ \A u \in ItemTypes(t) : \A f \in Members(u) : \E x \in Shown(v, d) : x.ref = LookedUp(u, f)
<1>1. t \in ItemSet /\ WellFormedItem(t)
  BY ItemFacts
<1>2. t.kind = "type" /\ t.returns = <<>>
  BY <1>1 DEF WellFormedItem
<1>3. v \in ItemSet /\ v.array /\ v.ref = t.ref /\ v.returns = <<>>
  BY <1>1, <1>2 DEF Becomes
<1>4. <<>> \in Seq(FieldSet) /\ ToSet(<<>>) = {}
  BY NoElements
<1>5. Shown(v, d) = {x \in ToSet(fs) : ~x.hidden}
  BY <1>3, <1>4 DEF Shown
<1>6. CASE t.ref = <<>>
  <2>1. fs = <<>> /\ ItemTypes(t) = {}
    BY <1>3, <1>6 DEF StructFields, ItemTypes
  <2>2. Shown(v, d) = {}
    BY <1>4, <1>5, <2>1
  <2> QED BY <1>3, <1>4, <2>1, <2>2
<1>7. CASE t.ref # <<>>
  <2>1. t.ref \in References
    BY <1>1 DEF ItemSet
  <2>2. PICK rs : rs = ResolveRef(t.ref, d)
    OBVIOUS
  <2>3. /\ rs \in Seq(ItemSet) /\ ToSet(rs) \subseteq TypesIn(domains)
        /\ \A r : r \in Targets(source, t, t.ref) <=> \E w \in ToSet(rs) : w.raw = r
        /\ \A w, z \in ToSet(rs) : w = z
    BY <1>1, <1>7, <2>1, <2>2, ResolvesAsMeant
  <2>4. rs # <<>>
    BY <1>3, <1>7, <2>2 DEF Resolves
  <2>5. PICK o : o = rs[1]
    OBVIOUS
  <2>6. o \in ToSet(rs)
    <3>1. Len(rs) \in Nat /\ Len(rs) # 0
      BY <2>3, <2>4
    <3> QED BY <2>3, <2>5, <3>1, TypedSeq
  <2>7. \A u : u \in ItemTypes(t) <=> u \in LiveTypes(source) /\ u.raw = o.raw
    BY <1>7, <2>3, <2>6 DEF ItemTypes
  <2>8. fs = IF o.typ = "object" THEN o.fields ELSE <<>>
    BY <1>3, <1>7, <2>2, <2>5 DEF StructFields
  <2>9. o \in TypesIn(domains)
    BY <2>3, <2>6
  <2>10. CASE Inert(o) /\ \A u \in LiveTypes(source) : u.raw = o.raw => Members(u) = {}
    <3>1. fs = <<>>
      BY <2>8, <2>10 DEF Inert
    <3>2. Shown(v, d) = {}
      BY <1>4, <1>5, <3>1
    <3> QED BY <1>3, <1>4, <2>7, <2>10, <3>1, <3>2
  <2>11. ASSUME NEW u \in LiveTypes(source), Becomes(u, o)
         PROVE  /\ fs \in Seq(FieldSet) /\ v.returns \in Seq(FieldSet) /\ v.ref = t.ref
                /\ \A x \in Shown(v, d) : \E z \in ItemTypes(t) : \E f \in Members(z) : x.ref = LookedUp(z, f)
                /\ \A z \in ItemTypes(t) : \A f \in Members(z) : \E x \in Shown(v, d) : x.ref = LookedUp(z, f)
    <3>1. u \in LiveItems(source) /\ u.kind = "type" /\ u \in Given(source)
      BY DEF LiveTypes, Given
    <3>2. u.raw = o.raw /\ o.typ = AsFixed(u).typ /\ o.array = u.array /\ o.kind = "type"
      BY <2>11, <3>1 DEF Becomes
    <3>3. \A z : z \in ItemTypes(t) <=> z = u
      <4>1. LiveTypes(source) \subseteq Given(source)
        BY DEF Given
      <4> QED BY <2>7, <3>1, <3>2, <4>1, ItemFacts
    <3>4. ~u.array
      <4>1. t \in LiveTypes(source)
        BY <1>2 DEF LiveTypes
      <4>2. u.raw \in Targets(source, t, t.ref)
        BY <3>3 DEF ItemTypes
      <4> QED BY <1>7, <4>1, <4>2 DEF WellFormed
    <3>5. PICK gs : gs = StructFields(o, d)
      OBVIOUS
    <3>6. gs \in Seq(FieldSet) /\ ShownOf(Shown(o, d), u)
      BY <2>11, <3>1, <3>4, <3>5, ObjectShows
    <3>7. gs = fs
      BY <2>8, <3>2, <3>4, <3>5, <1>3 DEF StructFields
    <3>8. o.returns = <<>>
      <4>1. u.returns = <<>>
        BY <3>1, ItemFacts DEF WellFormedItem
      <4> QED BY <2>11, <4>1 DEF Becomes
    <3>9. Shown(o, d) = Shown(v, d)
      BY <1>4, <1>5, <3>5, <3>7, <3>8 DEF Shown
    <3> QED BY <1>3, <1>4, <3>3, <3>6, <3>7, <3>9 DEF ShownOf
  <2> QED BY <2>9, <2>10, <2>11, TypeOrigins
<1> QED BY <1>6, <1>7

(* The references of the Go definition are those that the reader sees.     *)
LEMMA RefsAre ==
  ASSUME WellFormed(source), AllMade(source, domains), NEW t \in LiveItems(source),
         NEW v, Becomes(t, v), NEW d, d = Where(t), Resolves(v.ref, d),
         NEW fs, fs = StructFields(v, d)
  PROVE  /\ fs \in Seq(FieldSet) /\ v.returns \in Seq(FieldSet)
         /\ \A r : r \in Asked(source, t) <=>
              r # <<>> /\ (r = v.ref \/ \E x \in Shown(v, d) : x.ref = r)
<1>1. CASE t.array
  <2>1. /\ fs \in Seq(FieldSet) /\ v.returns \in Seq(FieldSet) /\ v.ref = t.ref
        /\ \A x \in Shown(v, d) : \E u \in ItemTypes(t) : \E f \in Members(u) : x.ref = LookedUp(u, f)
        /\ \A u \in ItemTypes(t) : \A f \in Members(u) : \E x \in Shown(v, d) : x.ref = LookedUp(u, f)
    BY <1>1, ArrayShows
  <2>2. \A r : r \in Asked(source, t) <=>
          r # <<>> /\ (r = t.ref \/ \E u \in ItemTypes(t) : \E f \in Members(u) : r = LookedUp(u, f))
    <3>1. Asked(source, t) = ({t.ref} \cup UNION {{LookedUp(u, f) : f \in Members(u)} : u \in ItemTypes(t)}) \ {<<>>}
      BY <1>1 DEF Asked, Holders, ItemTypes
    <3> QED BY <3>1
  <2> QED BY <2>1, <2>2
<1>2. CASE ~t.array
  <2>1. /\ fs \in Seq(FieldSet) /\ v.returns \in Seq(FieldSet) /\ v.ref = <<>>
        /\ ShownOf(Shown(v, d), t)
    BY <1>2, ObjectShows
  <2>2. \A r : r \in Asked(source, t) <=> r # <<>> /\ \E f \in Members(t) : r = LookedUp(t, f)
    BY <1>2 DEF Asked, Holders
  <2> QED BY <2>1, <2>2 DEF ShownOf
<1> QED BY <1>1, <1>2

LEMMA RefsTyped ==
  ASSUME NEW p, WellFormed(p), NEW t \in LiveItems(p), NEW r \in Asked(p, t)
  PROVE  r \in References /\ r # <<>>
<1>1. t.ref \in References
  BY ItemFacts DEF ItemSet
<1>2. \A u \in LiveTypes(p) : u \in LiveItems(p)
  BY DEF LiveTypes
<1>3. \A u \in Holders(p, t) : u \in LiveItems(p)
  BY <1>2 DEF Holders
<1> QED BY <1>1, <1>3, NamedRefs DEF Asked

(* An item panics when what the reader finds in it is not there.           *)
LEMMA PanicsAre ==
  ASSUME WellFormed(source), AllMade(source, domains), NEW t \in LiveItems(source),
         NEW v, Becomes(t, v), NEW d, d = Where(t)
  PROVE  Panics(v, d) <=> \E r \in Asked(source, t) : Targets(source, t, r) = {}
<1>1. t \in ItemSet /\ v \in ItemSet /\ v.ref = t.ref /\ v.ref \in References
  BY ItemFacts DEF Becomes, ItemSet
<1>2. \A r \in References : r # <<>> => (Resolves(r, d) <=> Targets(source, t, r) # {})
  BY <1>1, ResolvesAsMeant DEF Resolves
<1>3. Resolves(<<>>, d)
  BY DEF Resolves
<1>4. CASE ~Resolves(v.ref, d)
  <2>1. v.ref # <<>> /\ Targets(source, t, v.ref) = {}
    BY <1>1, <1>2, <1>3, <1>4
  <2>2. v.ref \in Asked(source, t)
    <3>1. t.array
      BY <1>1, <2>1, ItemFacts DEF WellFormedItem
    <3> QED BY <1>1, <2>1, <3>1 DEF Asked
  <2> QED BY <1>4, <2>1, <2>2 DEF Panics
<1>5. CASE Resolves(v.ref, d)
  <2>1. PICK fs : fs = StructFields(v, d)
    OBVIOUS
  <2>2. /\ fs \in Seq(FieldSet) /\ v.returns \in Seq(FieldSet)
        /\ \A r : r \in Asked(source, t) <=>
              r # <<>> /\ (r = v.ref \/ \E x \in Shown(v, d) : x.ref = r)
    BY <1>5, <2>1, RefsAre
  <2>3. ToSet(fs \o v.returns) = ToSet(fs) \cup ToSet(v.returns)
    BY <2>2, TypedConcat
  <2>4. Panics(v, d) <=> \E x \in Shown(v, d) : ~Resolves(x.ref, d)
    BY <1>5, <2>1, <2>3 DEF Panics, Shown
  <2>5. \A x \in Shown(v, d) : x.ref \in References
    <3>1. PICK rs : rs = v.returns
      OBVIOUS
    <3>2. \A x \in ToSet(fs) \cup ToSet(rs) : x \in FieldSet
      BY <2>2, <3>1, TypedSeq
    <3>3. \A x \in FieldSet : x.ref \in References
      BY DEF FieldSet
    <3> QED BY <2>1, <3>1, <3>2, <3>3 DEF Shown
  <2>6. \A x \in Shown(v, d) : ~Resolves(x.ref, d) <=> x.ref # <<>> /\ Targets(source, t, x.ref) = {}
    BY <1>2, <1>3, <2>5
  <2>7. v.ref # <<>> => Targets(source, t, v.ref) # {}
    BY <1>1, <1>2, <1>5
  <2> QED BY <2>2, <2>4, <2>6, <2>7
<1> QED BY <1>4, <1>5

LEMMA InertIsFine ==
  ASSUME NEW v, Inert(v), NEW d
  PROVE  ~Panics(v, d)
<1>1. Resolves(v.ref, d)
  BY DEF Inert, Resolves
<1>2. PICK fs, rs : fs = StructFields(v, d) /\ rs = v.returns
  OBVIOUS
<1>3. fs \in Seq(FieldSet) /\ rs \in Seq(FieldSet) /\ Shown(v, d) = {}
  BY <1>2, InertShows
<1>4. ToSet(fs \o rs) = ToSet(fs) \cup ToSet(rs)
  BY <1>3, TypedConcat
<1> QED BY <1>1, <1>2, <1>3, <1>4 DEF Panics, Shown

-----------------------------------------------------------------------------
(* What the definitions are does not change while the domains do not.     *)

LEMMA SameTypesOf ==
  ASSUME domains' = domains, NEW dom
  PROVE  TypesOf(dom)' = TypesOf(dom)
  BY DEF TypesOf, SelectInSeq

LEMMA SameShared ==
  ASSUME domains' = domains
  PROVE  Shared' = Shared
  BY DEF Shared, MapSeq, Filter

LEMMA SameResolve ==
  ASSUME domains' = domains, NEW ref, NEW d
  PROVE  ResolveRef(ref, d)' = ResolveRef(ref, d)
<1>1. Shared' = Shared /\ \A x : TypesOf(x)' = TypesOf(x)
  BY SameShared, SameTypesOf
<1> QED BY <1>1 DEF ResolveRef, Filter

LEMMA SameFields ==
  ASSUME domains' = domains, NEW v, NEW d
  PROVE  StructFields(v, d)' = StructFields(v, d)
<1>1. \A ref : ResolveRef(ref, d)' = ResolveRef(ref, d)
  BY SameResolve
<1> QED BY <1>1 DEF StructFields

LEMMA SamePanics ==
  ASSUME domains' = domains, NEW v, NEW d
  PROVE  Panics(v, d)' = Panics(v, d)
<1>1. \A ref : Resolves(ref, d)' = Resolves(ref, d)
  BY SameResolve DEF Resolves
<1>2. StructFields(v, d)' = StructFields(v, d)
  BY SameFields
<1> QED BY <1>1, <1>2 DEF Panics

LEMMA SameDeclare ==
  ASSUME domains' = domains, NEW v, NEW n, NEW fs, NEW d
  PROVE  Declare(v, n, fs, d)' = Declare(v, n, fs, d)
<1>1. \A f : Use(f, d)' = Use(f, d)
  BY SameResolve DEF Use, GoPackage, GoTypeName
<1>2. PICK G : G = {g \in ToSet(fs) : ~g.hidden /\ g.ref # <<>>}
  OBVIOUS
<1>3. {Use(f, d) : f \in G}' = {Use(f, d) : f \in G}
  BY <1>1
<1> QED BY <1>2, <1>3 DEF Declare

LEMMA SameDecl ==
  ASSUME domains' = domains, NEW v, NEW d
  PROVE  TypeDecl(v,d)' = TypeDecl(v,d)
  BY SameFields, SameDeclare DEF TypeDecl, GoTypeName

LEMMA SameDecls ==
  ASSUME domains' = domains, NEW ts, NEW d
  PROVE  TypeDecls(ts,d)' = TypeDecls(ts,d)
  BY SameDecl DEF TypeDecls, MapSeq

-----------------------------------------------------------------------------
(* The inductive invariant. *)

(* The domain at the index i is still to be fixed.                         *)
Ahead(i) == step = "clean" \/ (step = "fix" /\ i >= at)
Stage(s, i) == IF Ahead(i) THEN Cleaned(s) ELSE Fixed(Cleaned(s))

(* The live domains that the loop of run has passed.                       *)
Passed == IF step = "clean" THEN at - 1 ELSE Len(source)
Seen == {s \in {source[j] : j \in 1 .. Passed} : ~s.deprecated}

DomainsInv ==
  /\ IsSeq(domains)
  /\ \A i \in 1 .. Len(domains) : \E s \in Seen : domains[i] = Stage(s, i)
  /\ \A s \in Seen : \E i \in 1 .. Len(domains) : domains[i] = Stage(s, i)
  /\ \A i, k \in 1 .. Len(domains) : domains[i].name = domains[k].name => i = k

StepsInv ==
  /\ source \in Protocols
  /\ step \in {"clean", "fix", "root", "domain", "done", "panic"}
  /\ step = "clean" => at \in 1 .. Len(source) /\ Len(domains) < at
  /\ step = "fix" => at \in 1 .. Len(domains) + 1
  /\ step = "domain" => at \in 1 .. Len(domains)
  /\ step \in {"root", "done", "panic"} => at = 1
  /\ Len(domains) <= Len(source)

(* What is generated so far. *)
Late == step \in {"root", "domain", "done"}
Rooted == step \in {"domain", "done"}
Finished(i) == step = "done" \/ (step = "domain" /\ i < at)

SharedPath == <<"cdp", "types">>
RootPath == <<"cdproto", "cdproto">>
CommandPath(d) == <<d.name, d.name>>
TypePath(d) == <<d.name, "types">>
EventPath(d) == <<d.name, "events">>

Paths(d) ==
  {CommandPath(d)} \cup (IF d.types = <<>> THEN {} ELSE {TypePath(d)})
    \cup (IF d.events = <<>> THEN {} ELSE {EventPath(d)})

CommandFile(d) == FlattenSeq(MapSeq(d.commands, LAMBDA c : CommandDecls(c, d.name)))
TypeFile(d) == TypeDecls(OwnTypes(d.types), d.name)
EventFile(d) == TypeDecls(OwnTypes(d.events), d.name)

AllSeqs(fs) == \A p \in DOMAIN fs : IsSeq(fs[p])

Has(fs, path, decls) == path \in DOMAIN fs /\ fs[path] = decls

HasDomain(fs, d, cs, ts, es) ==
  /\ Has(fs, CommandPath(d), cs)
  /\ d.types # <<>> => Has(fs, TypePath(d), ts)
  /\ d.events # <<>> => Has(fs, EventPath(d), es)

FilesInv ==
  /\ AllSeqs(files)
  /\ step \in {"clean", "fix"} => DOMAIN files = {}
  /\ Late => Has(files, SharedPath, TypeDecls(Shared, "cdp"))
  /\ Rooted => Has(files, RootPath, <<TypeDecl(RootType, "cdproto")>>)
  /\ \A i \in 1 .. Len(domains) : Finished(i) =>
       HasDomain(files, domains[i], CommandFile(domains[i]), TypeFile(domains[i]), EventFile(domains[i]))
  /\ Late => \A p \in DOMAIN files :
       \/ p = SharedPath
       \/ Rooted /\ p = RootPath
       \/ \E i \in 1 .. Len(domains) : Finished(i) /\ p \in Paths(domains[i])

OwnItems(d) == d.commands \o OwnTypes(d.types) \o OwnTypes(d.events)

(* Something that the tool has to resolve is not there.                     *)
TargetId == <<"Target", <<"Session", "Id">>>>
Unresolvable(p) ==
  TargetId \notin TypesThere(p) \/ \E t \in LiveItems(p) : \E r \in Asked(p, t) : Targets(p, t, r) = {}

PanicsInv ==
  /\ Late => \A t \in ToSet(Shared) : ~Panics(t, "cdp")
  /\ Rooted => ~Panics(RootType, "cdproto")
  /\ \A i \in 1 .. Len(domains) : Finished(i) => \A t \in ToSet(OwnItems(domains[i])) : ~Panics(t, domains[i].name)
  /\ step = "panic" => Unresolvable(source)

Inv == StepsInv /\ DomainsInv /\ FilesInv /\ PanicsInv

LEMMA SourceIs ==
  ASSUME source \in Protocols
  PROVE  /\ WellFormed(source) /\ source \in Seq(DomainSet) /\ Len(source) \in Nat /\ Len(source) >= 1
         /\ \A j \in 1 .. Len(source) : source[j] \in DomainSet /\ WellFormedDomain(source[j])
         /\ \A i, j \in 1 .. Len(source) : source[i].name = source[j].name => i = j
<1>1. WellFormed(source)
  BY GenerateConstants
<1>2. source \in Seq(DomainSet) /\ source # <<>> /\ \A d \in ToSet(source) : WellFormedDomain(d)
  BY <1>1 DEF WellFormed
<1>3. Len(source) \in Nat /\ Len(source) >= 1
  BY <1>2
<1>4. \A j \in 1 .. Len(source) : source[j] \in DomainSet /\ WellFormedDomain(source[j])
  BY <1>2, TypedSeq
<1> QED BY <1>1, <1>2, <1>3, <1>4 DEF WellFormed

LEMMA CleanedName == ASSUME NEW s \in DomainSet PROVE Cleaned(s).name = s.name
  BY DEF Cleaned, DomainSet

LEMMA FixedName ==
  ASSUME NEW s \in DomainSet, WellFormedDomain(s)
  PROVE  Fixed(Cleaned(s)).name = s.name
  BY DomainIsGiven, FixedParts

LEMMA SeenAre ==
  ASSUME source \in Protocols, StepsInv
  PROVE  \A s \in Seen : s \in DomainSet /\ WellFormedDomain(s) /\ \E j \in 1 .. Len(source) : s = source[j]
<1>1. 1 .. Passed \subseteq 1 .. Len(source)
  BY SourceIs DEF Passed, StepsInv
<1> QED BY <1>1, SourceIs DEF Seen

(* When every domain is fixed, they are what the protocol is made into.    *)
LEMMA AllFixed ==
  ASSUME StepsInv, DomainsInv, step # "clean", \A i \in 1 .. Len(domains) : ~Ahead(i)
  PROVE  WellFormed(source) /\ AllMade(source, domains)
<1>1. source \in Protocols
  BY DEF StepsInv
<1>2. WellFormed(source) /\ source \in Seq(DomainSet)
  BY <1>1, SourceIs
<1>3. \A s : s \in Seen <=> s \in LiveDomains(source)
  <2>1. \A s : s \in ToSet(source) <=> \E j \in 1 .. Len(source) : source[j] = s
    BY <1>2, TypedSeq
  <2>2. Passed = Len(source)
    BY DEF Passed
  <2> QED BY <2>1, <2>2 DEF Seen, LiveDomains
<1>4. \A s \in LiveDomains(source) : s \in DomainSet /\ WellFormedDomain(s)
  BY <1>2, ProtocolParts
<1>5. \A i \in 1 .. Len(domains) : \A s \in LiveDomains(source) : domains[i] = Stage(s, i) => DomainMade(s, domains[i])
  BY <1>4, FixedDomain DEF Stage
<1>6. \A i \in 1 .. Len(domains) : \E s \in LiveDomains(source) : DomainMade(s, domains[i])
  BY <1>3, <1>5 DEF DomainsInv
<1>7. \A s \in LiveDomains(source) : \E i \in 1 .. Len(domains) : DomainMade(s, domains[i])
  BY <1>3, <1>5 DEF DomainsInv
<1>8. \A x \in ToSet(domains) : x \in DomainSet
  <2>1. \A x \in ToSet(domains) : \E i \in 1 .. Len(domains) : domains[i] = x
    BY SeqFacts DEF DomainsInv
  <2> QED BY <1>6, <2>1 DEF DomainMade
<1>9. domains \in Seq(DomainSet)
  BY <1>8, Typed DEF DomainsInv
<1> QED BY <1>2, <1>6, <1>7, <1>9 DEF AllMade, DomainsInv

-----------------------------------------------------------------------------
(* The domains, step by step.                                              *)

LEMMA InitDomains == Init => StepsInv /\ DomainsInv
<1> SUFFICES ASSUME Init PROVE StepsInv /\ DomainsInv
  OBVIOUS
<1>1. source \in Protocols /\ step = "clean" /\ at = 1 /\ domains = <<>>
  BY DEF Init
<1>2. Len(source) \in Nat /\ Len(source) >= 1
  BY <1>1, SourceIs
<1>3. Len(domains) = 0 /\ IsSeq(domains)
  BY <1>1, NoElements
<1>4. StepsInv
  BY <1>1, <1>2, <1>3 DEF StepsInv
<1>5. Seen = {}
  BY <1>1 DEF Seen, Passed
<1> QED BY <1>3, <1>4, <1>5 DEF DomainsInv

LEMMA CleanSteps ==
  ASSUME StepsInv, DomainsInv, CleanDomain
  PROVE  StepsInv' /\ DomainsInv'
<1>1. step = "clean" /\ source' = source /\ source \in Protocols /\ at \in 1 .. Len(source) /\ Len(domains) < at
  BY DEF StepsInv, CleanDomain
<1>2. /\ Len(source) \in Nat /\ Len(domains) \in Nat
      /\ \A j \in 1 .. Len(source) : source[j] \in DomainSet /\ WellFormedDomain(source[j])
      /\ \A i, j \in 1 .. Len(source) : source[i].name = source[j].name => i = j
  BY <1>1, SourceIs, SeqFacts DEF DomainsInv
<1>3. PICK t : t = source[at]
  OBVIOUS
<1>4. domains' = IF t.deprecated THEN domains ELSE Append(domains, Cleaned(t))
  BY <1>3 DEF CleanDomain
<1>5. \/ at < Len(source) /\ at' = at + 1 /\ step' = "clean"
      \/ at = Len(source) /\ at' = 1 /\ step' = "fix"
  BY <1>1, <1>2 DEF CleanDomain, Goto
<1>6. \A i \in Nat : \A s : Stage(s, i) = Cleaned(s) /\ (i >= 1 => Stage(s, i)' = Cleaned(s))
  BY <1>1, <1>2, <1>5 DEF Stage, Ahead
<1>7. Passed = at - 1 /\ Passed' = at
  BY <1>1, <1>2, <1>5 DEF Passed
<1>8. \A s : s \in Seen' <=> s \in Seen \/ (s = t /\ ~t.deprecated)
  <2>1. \A s : s \in Seen <=> ~s.deprecated /\ \E j \in 1 .. at - 1 : s = source[j]
    BY <1>7 DEF Seen
  <2>2. \A s : s \in Seen' <=> ~s.deprecated /\ \E j \in 1 .. at : s = source[j]
    BY <1>1, <1>7 DEF Seen
  <2>3. \A j : j \in 1 .. at <=> j \in 1 .. at - 1 \/ j = at
    BY <1>1, <1>2
  <2> QED BY <1>3, <2>1, <2>2, <2>3
<1>9. /\ IsSeq(domains)
      /\ \A i \in 1 .. Len(domains) : \E s \in Seen : domains[i] = Cleaned(s)
      /\ \A s \in Seen : \E i \in 1 .. Len(domains) : domains[i] = Cleaned(s)
      /\ \A i, k \in 1 .. Len(domains) : domains[i].name = domains[k].name => i = k
  BY <1>2, <1>6 DEF DomainsInv
<1>10. /\ IsSeq(domains')
       /\ Len(domains') \in Nat /\ Len(domains') <= at
       /\ \A i \in 1 .. Len(domains') : \E s \in Seen' : domains'[i] = Cleaned(s)
       /\ \A s \in Seen' : \E i \in 1 .. Len(domains') : domains'[i] = Cleaned(s)
       /\ \A i, k \in 1 .. Len(domains') : domains'[i].name = domains'[k].name => i = k
  <2>1. CASE t.deprecated
    BY <1>1, <1>2, <1>4, <1>8, <1>9, <2>1
  <2>2. CASE ~t.deprecated
    <3>1. PICK n, c : n = Len(domains) /\ c = Cleaned(t)
      OBVIOUS
    <3>2. /\ IsSeq(domains') /\ Len(domains') = n + 1 /\ (\A i \in 1 .. n : domains'[i] = domains[i])
          /\ domains'[n + 1] = c
      BY <1>4, <1>9, <2>2, <3>1, Appended
    <3>3. n \in Nat /\ n + 1 <= at /\ \A i : i \in 1 .. n + 1 <=> i \in 1 .. n \/ i = n + 1
      BY <1>1, <1>2, <3>1
    <3>4. \A i \in 1 .. n : domains[i].name # c.name
      <4>1. c.name = source[at].name
        BY <1>1, <1>2, <1>3, <3>1, CleanedName
      <4>2. ASSUME NEW i \in 1 .. n PROVE \E j \in 1 .. at - 1 : domains[i].name = source[j].name
        <5>1. PICK s \in Seen : domains[i] = Cleaned(s)
          BY <1>9, <3>1
        <5>2. PICK j \in 1 .. at - 1 : s = source[j]
          BY <1>7 DEF Seen
        <5>3. s \in DomainSet
          BY <1>1, <1>2, <5>2
        <5> QED BY <5>1, <5>2, <5>3, CleanedName
      <4> QED BY <1>1, <1>2, <4>1, <4>2
    <3>5. \A i \in 1 .. n + 1 : \E s \in Seen' : domains'[i] = Cleaned(s)
      BY <1>8, <1>9, <2>2, <3>1, <3>2, <3>3
    <3>6. \A s \in Seen' : \E i \in 1 .. n + 1 : domains'[i] = Cleaned(s)
      BY <1>8, <1>9, <2>2, <3>1, <3>2, <3>3
    <3>7. ASSUME NEW i \in 1 .. n + 1, NEW k \in 1 .. n + 1, domains'[i].name = domains'[k].name
          PROVE  i = k
      <4>1. CASE i \in 1 .. n /\ k \in 1 .. n
        <5>1. domains[i].name = domains[k].name
          BY <3>2, <3>7, <4>1
        <5> QED BY <1>9, <3>1, <4>1, <5>1
      <4>2. CASE i = n + 1 /\ k \in 1 .. n
        BY <3>2, <3>4, <3>7, <4>2
      <4>3. CASE i \in 1 .. n /\ k = n + 1
        BY <3>2, <3>4, <3>7, <4>3
      <4> QED BY <3>3, <4>1, <4>2, <4>3
    <3>8. Len(domains') \in Nat /\ Len(domains') <= at
      BY <3>2, <3>3
    <3> QED BY <3>2, <3>5, <3>6, <3>7, <3>8, Zenon
  <2> QED BY <2>1, <2>2
<1>11. DomainsInv'
  BY <1>6, <1>10 DEF DomainsInv
<1>12. StepsInv'
  BY <1>1, <1>2, <1>5, <1>10 DEF StepsInv
<1> QED BY <1>11, <1>12

LEMMA FixSteps ==
  ASSUME StepsInv, DomainsInv, FixDomain
  PROVE  StepsInv' /\ DomainsInv'
<1>1. step = "fix" /\ source' = source /\ step' = "fix" /\ source \in Protocols /\ at \in 1 .. Len(domains) /\ at' = at + 1
  BY DEF StepsInv, FixDomain
<1>2. Len(domains) \in Nat /\ IsSeq(domains)
  BY SeqFacts DEF DomainsInv
<1>3. PICK ds : ds = domains'
  OBVIOUS
<1>4. /\ IsSeq(ds) /\ Len(ds) = Len(domains)
      /\ ds[at] = Fixed(domains[at]) /\ \A i \in 1 .. Len(domains) : i # at => ds[i] = domains[i]
  <2>1. domains = [i \in 1 .. Len(domains) |-> domains[i]] /\ DOMAIN domains = 1 .. Len(domains)
    BY <1>2, SeqFacts
  <2>2. ds = [domains EXCEPT ![at] = Fixed(domains[at])]
    BY <1>3 DEF FixDomain
  <2>3. ds = [i \in 1 .. Len(domains) |-> ds[i]]
    BY <2>1, <2>2
  <2> QED BY <1>1, <1>2, <2>1, <2>2, <2>3, SeqFunction
<1>5. Seen' = Seen /\ \A s \in Seen : s \in DomainSet /\ WellFormedDomain(s)
  <2>1. Passed = Len(source) /\ Passed' = Len(source)
    BY <1>1 DEF Passed
  <2>2. Seen' = Seen
    BY <1>1, <2>1 DEF Seen
  <2> QED BY <1>1, <2>2, SeenAre
<1>6. \A i \in 1 .. Len(domains) : \A s :
        /\ i = at => Stage(s, i) = Cleaned(s) /\ Stage(s, i)' = Fixed(Cleaned(s))
        /\ i # at => Stage(s, i)' = Stage(s, i)
  BY <1>1, <1>2 DEF Stage, Ahead
<1>7. \A i \in 1 .. Len(domains) : \A s : domains[i] = Stage(s, i) => ds[i] = Stage(s, i)'
  BY <1>4, <1>6
<1>8. \A i \in 1 .. Len(domains) : ds[i].name = domains[i].name
  <2>1. ASSUME NEW i \in 1 .. Len(domains) PROVE ds[i].name = domains[i].name
    <3>1. PICK s \in Seen : domains[i] = Stage(s, i)
      BY DEF DomainsInv
    <3>2. ds[i] = Stage(s, i)'
      BY <1>7, <3>1
    <3>3. Stage(s, i).name = s.name /\ Stage(s, i)'.name = s.name
      BY <1>5, CleanedName, FixedName DEF Stage
    <3> QED BY <3>1, <3>2, <3>3
  <2> QED BY <2>1
<1>9. DomainsInv'
  BY <1>3, <1>4, <1>5, <1>7, <1>8 DEF DomainsInv
<1>10. StepsInv'
  <2>1. at + 1 \in 1 .. Len(domains) + 1
    BY <1>1, <1>2
  <2>2. Len(domains') = Len(domains) /\ Len(domains) <= Len(source)
    BY <1>3, <1>4 DEF StepsInv
  <2> QED BY <1>1, <2>1, <2>2 DEF StepsInv
<1> QED BY <1>9, <1>10

(* What comes after does not change the domains.                           *)
LEMMA LaterDomains ==
  ASSUME StepsInv, DomainsInv, source' = source, domains' = domains,
         step \notin {"clean"}, step' \notin {"clean", "fix"}, \A i \in 1 .. Len(domains) : ~Ahead(i)
  PROVE  DomainsInv'
<1>1. Seen' = Seen
  BY DEF Seen, Passed
<1>2. \A i \in 1 .. Len(domains) : \A s : Stage(s, i)' = Stage(s, i)
  BY DEF Stage, Ahead
<1> QED BY <1>1, <1>2 DEF DomainsInv

-----------------------------------------------------------------------------
(* Which items are generated where.                                        *)

LEMMA OwnTypesAre ==
  ASSUME NEW ts \in Seq(ItemSet), NEW os, os = OwnTypes(ts)
  PROVE  /\ os \in Seq(ItemSet) /\ \A v : v \in ToSet(os) <=> v \in ToSet(ts) /\ ~v.circular
         /\ Selection(os, ts, {k \in 1 .. Len(ts) : ~ts[k].circular})
<1>1. PICK I : I = {k \in 1 .. Len(ts) : ~ts[k].circular}
  OBVIOUS
<1>2. os = Picked(ts, I)
  BY <1>1 DEF OwnTypes, Filter
<1>3. IsSeq(ts)
  BY TypedSeq
<1>4. \A x : x \in ToSet(ts) <=> \E k \in 1 .. Len(ts) : ts[k] = x
  BY TypedSeq
<1>5. \A x : x \in ToSet(os) <=> \E k \in 1 .. Len(ts) : k \in I /\ ts[k] = x
  BY <1>2, <1>3, PickedElements
<1>6. \A v : v \in ToSet(os) <=> v \in ToSet(ts) /\ ~v.circular
  BY <1>1, <1>4, <1>5
<1>7. os \in Seq(ItemSet)
  BY <1>2, PickedType
<1>8. Selection(os, ts, I)
  BY <1>2, <1>3, PickedSelection
<1> QED BY <1>1, <1>6, <1>7, <1>8

LEMMA OwnItemsAre ==
  ASSUME NEW d \in DomainSet
  PROVE  \A v : v \in ToSet(OwnItems(d)) <=>
           \/ v \in ToSet(d.commands)
           \/ v \in ToSet(d.types) /\ ~v.circular
           \/ v \in ToSet(d.events) /\ ~v.circular
<1>1. d.commands \in Seq(ItemSet) /\ d.types \in Seq(ItemSet) /\ d.events \in Seq(ItemSet)
  BY DEF DomainSet
<1>2. PICK ts, es : ts = OwnTypes(d.types) /\ es = OwnTypes(d.events)
  OBVIOUS
<1>3. ts \in Seq(ItemSet) /\ \A v : v \in ToSet(ts) <=> v \in ToSet(d.types) /\ ~v.circular
  BY <1>1, <1>2, OwnTypesAre
<1>4. es \in Seq(ItemSet) /\ \A v : v \in ToSet(es) <=> v \in ToSet(d.events) /\ ~v.circular
  BY <1>1, <1>2, OwnTypesAre
<1>5. PICK cs : cs = d.commands \o ts
  OBVIOUS
<1>6. cs \in Seq(ItemSet) /\ ToSet(cs) = ToSet(d.commands) \cup ToSet(ts)
  BY <1>1, <1>3, <1>5, TypedConcat
<1>7. ToSet(cs \o es) = ToSet(cs) \cup ToSet(es)
  BY <1>4, <1>6, TypedConcat
<1>8. OwnItems(d) = cs \o es
  BY <1>2, <1>5 DEF OwnItems
<1> QED BY <1>3, <1>4, <1>6, <1>7, <1>8

(* Every type of the fixed domains is at home in one place, ...            *)
LEMMA SharedAtHome ==
  ASSUME WellFormed(source), AllMade(source, domains), NEW v \in ToSet(Shared)
  PROVE  Inert(v) \/ \E t \in LiveItems(source) : Becomes(t, v) /\ IsShared(source, t) /\ Where(t) = "cdp"
<1>1. v \in TypesIn(domains) /\ v.circular
  BY SharedAre
<1>2. v.raw \in SharedThere(source)
  BY <1>1, TypesAre
<1>3. ASSUME NEW t \in LiveTypes(source), Becomes(t, v)
      PROVE  t \in LiveItems(source) /\ IsShared(source, t) /\ Where(t) = "cdp"
  BY <1>2, <1>3 DEF LiveTypes, Becomes, IsShared, Where
<1> QED BY <1>1, <1>3, TypeOrigins

LEMMA OwnAtHome ==
  ASSUME WellFormed(source), AllMade(source, domains), NEW i \in 1 .. Len(domains), NEW v \in ToSet(OwnItems(domains[i]))
  PROVE  Inert(v) \/ \E t \in LiveItems(source) : Becomes(t, v) /\ ~IsShared(source, t) /\ Where(t) = domains[i].name
<1>1. domains[i] \in DomainSet
  BY TypedSeq DEF AllMade
<1>2. CASE v \in ToSet(domains[i].types) /\ ~v.circular
  <2>1. v \in TypesIn(domains) /\ v.raw[1] = domains[i].name
    BY <1>2, InTypes, TypesAre
  <2>2. v.raw \notin SharedThere(source)
    BY <1>2, <2>1, TypesAre
  <2>3. ASSUME NEW t \in LiveTypes(source), Becomes(t, v)
        PROVE  t \in LiveItems(source) /\ ~IsShared(source, t) /\ Where(t) = domains[i].name
    BY <2>1, <2>2, <2>3 DEF LiveTypes, Becomes, IsShared, Where
  <2> QED BY <2>1, <2>3, TypeOrigins
<1>3. CASE v \in ToSet(domains[i].commands) \cup ToSet(domains[i].events)
  <2>1. PICK t \in LiveItems(source) : t.kind \in {"command", "event"} /\ Becomes(t, v) /\ t.raw[1] = domains[i].name
    <3>1. CASE v \in ToSet(domains[i].commands)
      BY <3>1, ItemsAre
    <3>2. CASE v \in ToSet(domains[i].events)
      BY <3>2, ItemsAre
    <3> QED BY <1>3, <3>1, <3>2
  <2>2. ~IsShared(source, t)
    BY <2>1 DEF IsShared
  <2> QED BY <2>1, <2>2 DEF Where
<1> QED BY <1>1, <1>2, <1>3, OwnItemsAre

(* ... and so is every item of the protocol that is not deprecated.        *)
LEMMA Homes ==
  ASSUME WellFormed(source), AllMade(source, domains), NEW t \in LiveItems(source)
  PROVE  /\ IsShared(source, t) => \E v \in ToSet(Shared) : Becomes(t, v)
         /\ ~IsShared(source, t) => \E i \in 1 .. Len(domains) :
              domains[i].name = t.raw[1] /\ \E v \in ToSet(OwnItems(domains[i])) : Becomes(t, v)
<1>1. \A i \in 1 .. Len(domains) : domains[i] \in DomainSet
  BY TypedSeq DEF AllMade
<1>2. t.kind \in {"type", "command", "event"} /\ WellFormedItem(t)
  BY ItemFacts DEF ItemSet
<1>3. CASE t.kind = "type"
  <2>1. PICK v \in TypesIn(domains) : Becomes(t, v)
    BY <1>3, ItemsAre, TypesAre
  <2>2. v.circular <=> IsShared(source, t)
    BY <1>3, <2>1, TypesAre DEF IsShared, Becomes
  <2>3. PICK i \in 1 .. Len(domains) : v \in ToSet(domains[i].types)
    BY InTypes
  <2>4. domains[i].name = t.raw[1]
    BY <2>1, <2>3, TypesAre DEF Becomes
  <2>5. IsShared(source, t) => v \in ToSet(Shared)
    BY <2>1, <2>2, SharedAre
  <2>6. ~IsShared(source, t) => v \in ToSet(OwnItems(domains[i]))
    BY <1>1, <2>2, <2>3, OwnItemsAre
  <2> QED BY <2>1, <2>4, <2>5, <2>6
<1>4. CASE t.kind = "command"
  <2>1. PICK i \in 1 .. Len(domains) : domains[i].name = t.raw[1] /\ \E c \in ToSet(domains[i].commands) : Becomes(t, c)
    BY <1>4, ItemsAre
  <2>2. ~IsShared(source, t)
    BY <1>4 DEF IsShared
  <2> QED BY <1>1, <2>1, <2>2, OwnItemsAre
<1>5. CASE t.kind = "event"
  <2>1. PICK i \in 1 .. Len(domains) : domains[i].name = t.raw[1] /\ \E c \in ToSet(domains[i].events) : Becomes(t, c)
    BY <1>5, ItemsAre
  <2>2. ~IsShared(source, t)
    BY <1>5 DEF IsShared
  <2>3. \A c : Becomes(t, c) => ~c.circular
    BY <1>2, <1>5 DEF WellFormedItem, Becomes
  <2> QED BY <1>1, <2>1, <2>2, <2>3, OwnItemsAre
<1> QED BY <1>2, <1>3, <1>4, <1>5

-----------------------------------------------------------------------------
(* The tool panics of what it has to resolve, and of nothing else.         *)

Misses(t) == \E r \in Asked(source, t) : Targets(source, t, r) = {}

LEMMA UnresolvableIs == Unresolvable(source) <=> TargetId \notin TypesThere(source) \/ \E t \in LiveItems(source) : Misses(t)
  BY DEF Unresolvable, Misses, TargetId

(* What it has to resolve is a reference of the protocol, or one that       *)
(* FixDomains has written.                                                  *)
LEMMA AskedApart ==
  ASSUME NEW p, NEW t
  PROVE  (\E r \in Asked(p, t) : Targets(p, t, r) = {}) <=>
           \/ t.array /\ t.ref # <<>> /\ Targets(p, t, t.ref) = {}
           \/ \E u \in Holders(p, t) : \E f \in Members(u) :
                ~Rewritten(u, f) /\ f.ref # <<>> /\ Targets(p, t, f.ref) = {}
           \/ \E u \in Holders(p, t) : \E f \in Members(u) :
                Rewritten(u, f) /\ LookedUp(u, f) # <<>> /\ Targets(p, t, LookedUp(u, f)) = {}
<1>1. \A u, f : ~Rewritten(u, f) => LookedUp(u, f) = f.ref
  BY DEF Rewritten, LookedUp, Named
<1>2. \A r : r \in Asked(p, t) <=>
        r # <<>> /\ ((t.array /\ r = t.ref) \/ \E u \in Holders(p, t) : \E f \in Members(u) : r = LookedUp(u, f))
  BY DEF Asked
<1>3. (\E r \in Asked(p, t) : Targets(p, t, r) = {}) <=>
        \/ t.array /\ t.ref # <<>> /\ Targets(p, t, t.ref) = {}
        \/ \E u \in Holders(p, t) : \E f \in Members(u) :
             LookedUp(u, f) # <<>> /\ Targets(p, t, LookedUp(u, f)) = {}
  <2>1. ASSUME NEW r \in Asked(p, t), Targets(p, t, r) = {}
        PROVE  \/ t.array /\ t.ref # <<>> /\ Targets(p, t, t.ref) = {}
               \/ \E u \in Holders(p, t) : \E f \in Members(u) :
                    LookedUp(u, f) # <<>> /\ Targets(p, t, LookedUp(u, f)) = {}
    BY <1>2, <2>1
  <2>2. ASSUME t.array, t.ref # <<>>, Targets(p, t, t.ref) = {}
        PROVE  \E r \in Asked(p, t) : Targets(p, t, r) = {}
    BY <1>2, <2>2
  <2>3. ASSUME NEW u \in Holders(p, t), NEW f \in Members(u), LookedUp(u, f) # <<>>,
               Targets(p, t, LookedUp(u, f)) = {}
        PROVE  \E r \in Asked(p, t) : Targets(p, t, r) = {}
    BY <1>2, <2>3
  <2> QED BY <2>1, <2>2, <2>3
<1>4. ASSUME NEW u \in Holders(p, t), NEW f \in Members(u)
      PROVE  LookedUp(u, f) # <<>> /\ Targets(p, t, LookedUp(u, f)) = {} <=>
               \/ ~Rewritten(u, f) /\ f.ref # <<>> /\ Targets(p, t, f.ref) = {}
               \/ Rewritten(u, f) /\ LookedUp(u, f) # <<>> /\ Targets(p, t, LookedUp(u, f)) = {}
  BY <1>1
<1> QED BY <1>3, <1>4

LEMMA UnresolvableApart ==
  ASSUME NEW p
  PROVE  Unresolvable(p) <=> Dangling(p) \/ InVain(p)
  BY AskedApart DEF Unresolvable, Dangling, InVain, TargetId

LEMMA SharedPanics ==
  ASSUME WellFormed(source), AllMade(source, domains)
  PROVE  (\E v \in ToSet(Shared) : Panics(v, "cdp")) <=> \E t \in LiveItems(source) : IsShared(source, t) /\ Misses(t)
<1>1. ASSUME NEW v \in ToSet(Shared), Panics(v, "cdp")
      PROVE  \E t \in LiveItems(source) : IsShared(source, t) /\ Misses(t)
  <2>1. PICK t \in LiveItems(source) : Becomes(t, v) /\ IsShared(source, t) /\ Where(t) = "cdp"
    BY <1>1, SharedAtHome, InertIsFine
  <2>2. Misses(t)
    BY <1>1, <2>1, PanicsAre DEF Misses
  <2> QED BY <2>1, <2>2
<1>2. ASSUME NEW t \in LiveItems(source), IsShared(source, t), Misses(t)
      PROVE  \E v \in ToSet(Shared) : Panics(v, "cdp")
  <2>1. PICK v \in ToSet(Shared) : Becomes(t, v)
    BY <1>2, Homes
  <2>2. Where(t) = "cdp"
    BY <1>2 DEF Where
  <2> QED BY <1>2, <2>1, <2>2, PanicsAre DEF Misses
<1> QED BY <1>1, <1>2

LEMMA OwnPanics ==
  ASSUME WellFormed(source), AllMade(source, domains)
  PROVE  (\E i \in 1 .. Len(domains) : \E v \in ToSet(OwnItems(domains[i])) : Panics(v, domains[i].name))
           <=> \E t \in LiveItems(source) : ~IsShared(source, t) /\ Misses(t)
<1>1. ASSUME NEW i \in 1 .. Len(domains), NEW v \in ToSet(OwnItems(domains[i])), Panics(v, domains[i].name)
      PROVE  \E t \in LiveItems(source) : ~IsShared(source, t) /\ Misses(t)
  <2>1. PICK t \in LiveItems(source) : Becomes(t, v) /\ ~IsShared(source, t) /\ Where(t) = domains[i].name
    BY <1>1, OwnAtHome, InertIsFine
  <2>2. Misses(t)
    BY <1>1, <2>1, PanicsAre DEF Misses
  <2> QED BY <2>1, <2>2
<1>2. ASSUME NEW t \in LiveItems(source), ~IsShared(source, t), Misses(t)
      PROVE  \E i \in 1 .. Len(domains) : \E v \in ToSet(OwnItems(domains[i])) : Panics(v, domains[i].name)
  <2>1. PICK i \in 1 .. Len(domains) : domains[i].name = t.raw[1] /\ \E v \in ToSet(OwnItems(domains[i])) : Becomes(t, v)
    BY <1>2, Homes
  <2>2. PICK v \in ToSet(OwnItems(domains[i])) : Becomes(t, v)
    BY <2>1
  <2>3. Where(t) = domains[i].name
    BY <1>2, <2>1 DEF Where
  <2> QED BY <1>2, <2>2, <2>3, PanicsAre DEF Misses
<1> QED BY <1>1, <1>2

(* The root package. *)
RootField == Field("cdproto", <<"session", "Id">>, "", FALSE, TargetId, <<>>)

LEMMA RootIs ==
  /\ RootField.ref = TargetId /\ ~RootField.hidden /\ TargetId # <<>>
  /\ RootType.ref = <<>> /\ RootType.returns = <<>> /\ RootType.kind = "type" /\ RootType.raw[1] = "cdproto"
  /\ \A d : StructFields(RootType, d) = <<RootField>>
<1>1. RootField.ref = TargetId /\ ~RootField.hidden
  BY DEF RootField, Field
<1>2. TargetId # <<>>
  BY DEF TargetId
<1>3. /\ RootType.ref = <<>> /\ RootType.returns = <<>> /\ RootType.kind = "type" /\ RootType.raw = <<"cdproto", <<"Message">>>>
      /\ RootType.fields = <<RootField>> /\ ~RootType.array /\ RootType.typ = "object"
  BY DEF RootType, Item, RootField, TargetId
<1>4. \A d : StructFields(RootType, d) = <<RootField>>
  BY <1>3 DEF StructFields
<1> QED BY <1>1, <1>2, <1>3, <1>4

LEMMA RootSame == domains' = domains => RootType' = RootType
  BY DEF RootType

LEMMA RootPanics ==
  ASSUME WellFormed(source), AllMade(source, domains), NEW d
  PROVE  Panics(RootType, d) <=> TargetId \notin TypesThere(source)
<1>1. PICK f, ref, fs : f = RootField /\ ref = TargetId /\ fs = <<f>>
  OBVIOUS
<1>2. f.ref = ref /\ ~f.hidden /\ ref # <<>> /\ StructFields(RootType, d) = fs /\ RootType.ref = <<>> /\ RootType.returns = <<>>
  BY <1>1, RootIs
<1>3. ToSet(fs \o <<>>) = {f}
  <2>1. fs \o <<>> = fs
    BY <1>1
  <2> QED BY <1>1, <2>1, Single
<1>4. Panics(RootType, d) <=> ResolveRef(ref, d) = <<>>
  BY <1>2, <1>3 DEF Panics, Resolves
<1>5. PICK dtyp, name : dtyp = ref[1] /\ name = ref[2]
  OBVIOUS
<1>6. dtyp # "cdp" /\ dtyp # "" /\ <<dtyp, name>> = ref
  BY <1>1, <1>5 DEF TargetId
<1>7. PICK rs : rs = ResolveRef(ref, d)
  OBVIOUS
<1>8. dtyp = IF ref[1] = "" THEN d ELSE ref[1]
  BY <1>5, <1>6
<1>9. rs \in Seq(ItemSet) /\ \A v : v \in ToSet(rs) <=> v \in TypesIn(domains) /\ Found(v, dtyp, ref[2])
  BY <1>7, <1>8, ResolveAre
<1>10. \A v : v \in ToSet(rs) <=> v \in TypesIn(domains) /\ v.raw = ref
  BY <1>5, <1>6, <1>9 DEF Found
<1>11. rs = <<>> <=> ToSet(rs) = {}
  BY <1>9, NoElements, NoElementsIn
<1>12. ref \in TypesThere(source) <=> \E v \in TypesIn(domains) : v.raw = ref
  BY TypesAre
<1>13. ToSet(rs) = {} <=> ref \notin TypesThere(source)
  BY <1>10, <1>12
<1> QED BY <1>1, <1>4, <1>7, <1>11, <1>13

-----------------------------------------------------------------------------
(* What is in the files. *)

LEMMA JoinedEmpty ==
  ASSUME NEW s, IsSeq(s)
  PROVE  <<>> \o s = s /\ s \o <<>> = s
<1>1. PICK S : S = ToSet(s)
  OBVIOUS
<1>2. s \in Seq(S)
  BY <1>1 DEF IsSeq
<1> QED BY <1>2

(* g is fs with other files, at paths.                                     *)
Extends(g, fs, paths) == DOMAIN g = DOMAIN fs \cup paths /\ \A p \in DOMAIN fs : g[p] = fs[p]

LEMMA StreamedNew ==
  ASSUME NEW fs, NEW path, path \notin DOMAIN fs, NEW decls, IsSeq(decls), AllSeqs(fs),
         NEW g, g = Streamed(fs, path, decls)
  PROVE  Extends(g, fs, {path}) /\ Has(g, path, decls) /\ AllSeqs(g)
<1>1. g = [p \in DOMAIN fs \cup {path} |->
             (IF p \in DOMAIN fs THEN fs[p] ELSE <<>>) \o (IF p = path THEN decls ELSE <<>>)]
  BY DEF Streamed
<1>2. DOMAIN g = DOMAIN fs \cup {path}
  BY <1>1
<1>3. g[path] = decls
  <2>1. g[path] = <<>> \o decls
    BY <1>1
  <2> QED BY <2>1, JoinedEmpty
<1>4. ASSUME NEW p \in DOMAIN fs PROVE g[p] = fs[p]
  <2>1. p # path
    OBVIOUS
  <2>2. g[p] = fs[p] \o <<>>
    BY <1>1, <2>1
  <2> QED BY <2>2, JoinedEmpty
<1> QED BY <1>2, <1>3, <1>4 DEF Has, Extends, AllSeqs

LEMMA DeclsAre ==
  ASSUME NEW ts, IsSeq(ts), NEW d, NEW ds, ds = TypeDecls(ts, d)
  PROVE  IsSeq(ds) /\ Len(ds) = Len(ts) /\ \A i \in 1 .. Len(ts) : ds[i] = TypeDecl(ts[i], d)
<1>1. Len(ts) \in Nat
  BY SeqFacts
<1>2. ds = [i \in 1 .. Len(ts) |-> TypeDecl(ts[i], d)]
  BY DEF TypeDecls, MapSeq
<1>3. ds = [i \in 1 .. Len(ts) |-> ds[i]]
  BY <1>2
<1> QED BY <1>1, <1>2, <1>3, SeqFunction

(* The declarations of a command. *)
ParamsDecl(c, d) == Declare(c, GoTypeName(c) \o <<"Params">>, c.fields, d)
FuncDecl(c, d) == Declare(c, GoTypeName(c), c.fields, d)
ReturnsDecl(c, d) == Declare(c, GoTypeName(c) \o <<"Returns">>, c.returns, d)

LEMMA Pair == ASSUME NEW x, NEW y PROVE IsSeq(<<x, y>>) /\ ToSet(<<x, y>>) = {x, y}
<1>1. <<x, y>> \in Seq({x, y}) /\ DOMAIN <<x, y>> = {1, 2}
  OBVIOUS
<1>2. ToSet(<<x, y>>) = {x, y}
  BY <1>1 DEF ToSet
<1> QED BY <1>1, <1>2 DEF IsSeq

LEMMA CommandDeclsAre ==
  ASSUME NEW c, NEW d, NEW cs, cs = CommandDecls(c, d)
  PROVE  IsSeq(cs) /\ \A x : x \in ToSet(cs) <=>
           x = ParamsDecl(c, d) \/ x = FuncDecl(c, d) \/ (c.returns # <<>> /\ x = ReturnsDecl(c, d))
<1>1. PICK a, b, r : a = ParamsDecl(c, d) /\ b = FuncDecl(c, d) /\ r = ReturnsDecl(c, d)
  OBVIOUS
<1>2. PICK ab, rs : ab = <<a, b>> /\ rs = IF c.returns = <<>> THEN <<>> ELSE <<r>>
  OBVIOUS
<1>3. cs = ab \o rs
  BY <1>1, <1>2 DEF CommandDecls, ParamsDecl, FuncDecl, ReturnsDecl
<1>4. IsSeq(ab) /\ ToSet(ab) = {a, b}
  BY <1>2, Pair
<1>5. IsSeq(rs) /\ ToSet(rs) = IF c.returns = <<>> THEN {} ELSE {r}
  BY <1>2, Single, NoElements
<1>6. IsSeq(cs) /\ ToSet(cs) = ToSet(ab) \cup ToSet(rs)
  BY <1>3, <1>4, <1>5, Concat
<1> QED BY <1>1, <1>4, <1>5, <1>6

LEMMA CommandFileIs ==
  ASSUME NEW d \in DomainSet, NEW cs, cs = CommandFile(d)
  PROVE  IsSeq(cs) /\ \A x : x \in ToSet(cs) <=> \E c \in ToSet(d.commands) : x \in ToSet(CommandDecls(c, d.name))
<1>1. PICK ss : ss = MapSeq(d.commands, LAMBDA c : CommandDecls(c, d.name))
  OBVIOUS
<1>2. d.commands \in Seq(ItemSet)
  BY DEF DomainSet
<1>3. Len(d.commands) \in Nat /\ \A c : c \in ToSet(d.commands) <=> \E i \in 1 .. Len(d.commands) : d.commands[i] = c
  BY <1>2, TypedSeq
<1>4. ss = [i \in 1 .. Len(d.commands) |-> CommandDecls(d.commands[i], d.name)]
  BY <1>1 DEF MapSeq
<1>5. IsSeq(ss) /\ Len(ss) = Len(d.commands)
  <2>1. ss = [i \in 1 .. Len(d.commands) |-> ss[i]]
    BY <1>4
  <2> QED BY <1>3, <2>1, SeqFunction
<1>6. \A i \in 1 .. Len(ss) : ss[i] = CommandDecls(d.commands[i], d.name)
  BY <1>4, <1>5
<1>7. \A i \in 1 .. Len(ss) : IsSeq(ss[i])
  BY <1>6, CommandDeclsAre
<1>8. cs = FlattenSeq(ss)
  BY <1>1 DEF CommandFile
<1>9. IsSeq(cs) /\ \A x : x \in ToSet(cs) <=> \E i \in 1 .. Len(ss) : x \in ToSet(ss[i])
  BY <1>5, <1>7, <1>8, FlattenElements
<1> QED BY <1>3, <1>5, <1>6, <1>9

LEMMA SameCommandFile ==
  ASSUME domains' = domains, NEW d
  PROVE  CommandFile(d)' = CommandFile(d)
<1>1. \A c : CommandDecls(c, d.name)' = CommandDecls(c, d.name)
  BY SameDeclare DEF CommandDecls, GoTypeName
<1> QED BY <1>1 DEF CommandFile, MapSeq

LEMMA SameContents ==
  ASSUME domains' = domains
  PROVE  /\ TypeDecls(Shared, "cdp")' = TypeDecls(Shared, "cdp")
         /\ <<TypeDecl(RootType, "cdproto")>>' = <<TypeDecl(RootType, "cdproto")>>
         /\ \A d : /\ CommandFile(d)' = CommandFile(d) /\ TypeFile(d)' = TypeFile(d)
                   /\ EventFile(d)' = EventFile(d)
<1>1. PICK vs : vs = Shared
  OBVIOUS
<1>2. TypeDecls(Shared, "cdp")' = TypeDecls(Shared, "cdp")
  BY <1>1, SameShared, SameDecls
<1>3. PICK root : root = RootType
  OBVIOUS
<1>4. RootType' = root
  BY <1>3, RootSame
<1>5. TypeDecl(RootType, "cdproto")' = TypeDecl(RootType, "cdproto")
  BY <1>3, <1>4, SameDecl
<1>6. \A d : TypeFile(d)' = TypeFile(d) /\ EventFile(d)' = EventFile(d)
  BY SameDecls DEF TypeFile, EventFile
<1> QED BY <1>2, <1>5, <1>6, SameCommandFile

LEMMA PathsApart ==
  ASSUME NEW d, d.name \in DomainNames
  PROVE  /\ CommandPath(d) # TypePath(d) /\ CommandPath(d) # EventPath(d) /\ TypePath(d) # EventPath(d)
         /\ \A p \in Paths(d) : p[1] = d.name /\ p # SharedPath /\ p # RootPath
         /\ SharedPath # RootPath /\ SharedPath[1] = "cdp" /\ RootPath[1] = "cdproto"
<1>1. PICK n : n = d.name
  OBVIOUS
<1>2. n # "types" /\ n # "events" /\ n # "cdp" /\ n # "cdproto"
  BY <1>1 DEF DomainNames
<1>3. \A p \in Paths(d) : p[1] = n
  BY <1>1 DEF Paths, CommandPath, TypePath, EventPath
<1>4. CommandPath(d) # TypePath(d) /\ CommandPath(d) # EventPath(d) /\ TypePath(d) # EventPath(d)
  BY <1>1, <1>2 DEF CommandPath, TypePath, EventPath
<1>5. SharedPath # RootPath /\ SharedPath[1] = "cdp" /\ RootPath[1] = "cdproto"
  BY DEF SharedPath, RootPath
<1> QED BY <1>1, <1>2, <1>3, <1>4, <1>5

LEMMA GeneratedIs ==
  ASSUME NEW d \in DomainSet, AllSeqs(files),
         \A p \in DOMAIN files : p \notin {CommandPath(d), TypePath(d), EventPath(d)},
         NEW g, g = Generated(d)
  PROVE  /\ Extends(g, files, Paths(d)) /\ AllSeqs(g)
         /\ HasDomain(g, d, CommandFile(d), TypeFile(d), EventFile(d))
<1>1. d.commands \in Seq(ItemSet) /\ d.types \in Seq(ItemSet) /\ d.events \in Seq(ItemSet) /\ d.name \in DomainNames
  BY DEF DomainSet
<1>2. PICK cf, tf, ef : cf = CommandFile(d) /\ tf = TypeFile(d) /\ ef = EventFile(d)
  OBVIOUS
<1>3. IsSeq(cf)
  BY <1>2, CommandFileIs
<1>4. IsSeq(tf)
  <2>1. PICK ts : ts = OwnTypes(d.types)
    OBVIOUS
  <2>2. IsSeq(ts)
    BY <1>1, <2>1, OwnTypesAre, TypedSeq
  <2> QED BY <1>2, <2>1, <2>2, DeclsAre DEF TypeFile
<1>5. IsSeq(ef)
  <2>1. PICK ts : ts = OwnTypes(d.events)
    OBVIOUS
  <2>2. IsSeq(ts)
    BY <1>1, <2>1, OwnTypesAre, TypedSeq
  <2> QED BY <1>2, <2>1, <2>2, DeclsAre DEF EventFile
<1>6. PICK cp, tp, ep : cp = CommandPath(d) /\ tp = TypePath(d) /\ ep = EventPath(d)
  OBVIOUS
<1>7. cp # tp /\ cp # ep /\ tp # ep
  BY <1>1, <1>6, PathsApart
<1>8. cp \notin DOMAIN files /\ tp \notin DOMAIN files /\ ep \notin DOMAIN files
  BY <1>6
<1>9. PICK f0 : f0 = files
  OBVIOUS
<1>10. PICK f1 : f1 = Streamed(f0, cp, cf)
  OBVIOUS
<1>11. PICK f2 : f2 = IF d.types = <<>> THEN f1 ELSE Streamed(f1, tp, tf)
  OBVIOUS
<1>12. g = IF d.events = <<>> THEN f2 ELSE Streamed(f2, ep, ef)
  <2>1. cf = FlattenSeq(MapSeq(d.commands, LAMBDA c : CommandDecls(c, d.name)))
    BY <1>2 DEF CommandFile
  <2>2. cp = <<d.name, d.name>> /\ tp = <<d.name, "types">> /\ ep = <<d.name, "events">>
    BY <1>6 DEF CommandPath, TypePath, EventPath
  <2>3. tf = TypeDecls(OwnTypes(d.types), d.name) /\ ef = TypeDecls(OwnTypes(d.events), d.name)
    BY <1>2 DEF TypeFile, EventFile
  <2> QED BY <1>9, <1>10, <1>11, <2>1, <2>2, <2>3 DEF Generated
<1>13. AllSeqs(f0) /\ cp \notin DOMAIN f0
  BY <1>8, <1>9
<1>14. Extends(f1, f0, {cp}) /\ Has(f1, cp, cf) /\ AllSeqs(f1)
  BY <1>3, <1>10, <1>13, StreamedNew
<1>15. \A p \in DOMAIN f1 : p # tp /\ p # ep
  BY <1>7, <1>8, <1>9, <1>14 DEF Extends
<1>16. /\ Extends(f2, f1, IF d.types = <<>> THEN {} ELSE {tp}) /\ AllSeqs(f2)
       /\ d.types # <<>> => Has(f2, tp, tf)
  <2>1. CASE d.types = <<>>
    BY <1>11, <1>14, <2>1 DEF Extends
  <2>2. CASE d.types # <<>>
    <3>1. f2 = Streamed(f1, tp, tf) /\ tp \notin DOMAIN f1
      BY <1>11, <1>15, <2>2
    <3>2. Extends(f2, f1, {tp}) /\ Has(f2, tp, tf) /\ AllSeqs(f2)
      BY <1>4, <1>14, <3>1, StreamedNew
    <3> QED BY <2>2, <3>2
  <2> QED BY <2>1, <2>2
<1>17. /\ Extends(g, f2, IF d.events = <<>> THEN {} ELSE {ep}) /\ AllSeqs(g)
       /\ d.events # <<>> => Has(g, ep, ef)
  <2>1. CASE d.events = <<>>
    BY <1>12, <1>16, <2>1 DEF Extends
  <2>2. CASE d.events # <<>>
    <3>1. g = Streamed(f2, ep, ef) /\ ep \notin DOMAIN f2
      BY <1>7, <1>12, <1>15, <1>16, <2>2 DEF Extends
    <3>2. Extends(g, f2, {ep}) /\ Has(g, ep, ef) /\ AllSeqs(g)
      BY <1>5, <1>16, <3>1, StreamedNew
    <3> QED BY <2>2, <3>2
  <2> QED BY <2>1, <2>2
<1>18. Extends(g, files, Paths(d))
  <2>1. DOMAIN g = DOMAIN files \cup Paths(d)
    BY <1>6, <1>9, <1>14, <1>16, <1>17 DEF Paths, Extends
  <2>2. \A p \in DOMAIN files : g[p] = files[p]
    BY <1>9, <1>14, <1>16, <1>17 DEF Extends
  <2> QED BY <2>1, <2>2 DEF Extends
<1>19. HasDomain(g, d, cf, tf, ef)
  BY <1>6, <1>14, <1>16, <1>17 DEF HasDomain, Has, Extends
<1> QED BY <1>2, <1>17, <1>18, <1>19

(* What is in the files stays there when others are added.                 *)
LEMMA HasStill ==
  ASSUME NEW fs, NEW g, NEW paths, Extends(g, fs, paths)
  PROVE  /\ \A p, decls : Has(fs, p, decls) => Has(g, p, decls)
         /\ \A d, cs, ts, es : HasDomain(fs, d, cs, ts, es) => HasDomain(g, d, cs, ts, es)
<1>1. \A p, decls : Has(fs, p, decls) => Has(g, p, decls)
  BY DEF Has, Extends
<1> QED BY <1>1 DEF HasDomain

-----------------------------------------------------------------------------
(* The invariant is inductive. *)

LEMMA InitInv == Init => Inv
<1> SUFFICES ASSUME Init PROVE Inv
  OBVIOUS
<1>1. step = "clean" /\ domains = <<>> /\ files = [p \in {} |-> <<>>]
  BY DEF Init
<1>2. Len(domains) = 0 /\ DOMAIN files = {}
  BY <1>1, NoElements
<1>3. FilesInv
  BY <1>1, <1>2 DEF FilesInv, Late, Rooted, AllSeqs
<1>4. PanicsInv
  BY <1>1, <1>2 DEF PanicsInv, Late, Rooted
<1> QED BY <1>3, <1>4, InitDomains DEF Inv

(* Before anything is generated.                                           *)
LEMMA NothingYet ==
  ASSUME Inv, step \in {"clean", "fix"}, step' \in {"clean", "fix"}, files' = files
  PROVE  FilesInv' /\ PanicsInv'
<1>1. DOMAIN files = {}
  BY DEF Inv, FilesInv
<1>2. ~Late' /\ ~Rooted' /\ step' # "panic" /\ \A i : ~Finished(i)'
  BY DEF Late, Rooted, Finished
<1>3. AllSeqs(files')
  BY <1>1 DEF AllSeqs
<1>4. FilesInv'
  BY <1>1, <1>2, <1>3 DEF FilesInv
<1>5. PanicsInv'
  BY <1>2 DEF PanicsInv
<1> QED BY <1>4, <1>5

(* When the tool panics. *)
LEMMA Panicked ==
  ASSUME Inv, step' = "panic", files' = files, source' = source, Unresolvable(source)
  PROVE  FilesInv' /\ PanicsInv'
<1>2. ~Late' /\ ~Rooted' /\ \A i : ~Finished(i)'
  BY DEF Late, Rooted, Finished
<1>3. FilesInv'
  BY <1>2 DEF FilesInv, Inv
<1>4. PanicsInv'
  BY <1>2 DEF PanicsInv
<1> QED BY <1>3, <1>4

LEMMA SharedSteps ==
  ASSUME Inv, GenerateSharedTypes
  PROVE  Inv'
<1>1. /\ step = "fix" /\ at > Len(domains) /\ source' = source /\ domains' = domains
      /\ StepsInv /\ DomainsInv /\ DOMAIN files = {}
  BY DEF GenerateSharedTypes, Inv, FilesInv
<1>2. Len(domains) \in Nat /\ at \in 1 .. Len(domains) + 1
  BY <1>1, SeqFacts DEF DomainsInv, StepsInv
<1>3. \A i \in 1 .. Len(domains) : ~Ahead(i)
  BY <1>1, <1>2 DEF Ahead
<1>4. WellFormed(source) /\ AllMade(source, domains)
  BY <1>1, <1>3, AllFixed
<1>5. step' \in {"panic", "root"} /\ at' = 1
  BY DEF GenerateSharedTypes, Goto
<1>6. StepsInv'
  BY <1>1, <1>5 DEF StepsInv
<1>7. DomainsInv'
  BY <1>1, <1>3, <1>5, LaterDomains
<1>8. CASE \E t \in ToSet(Shared) : Panics(t, "cdp")
  <2>1. step' = "panic" /\ files' = files
    BY <1>8 DEF GenerateSharedTypes, Goto
  <2>2. Unresolvable(source)
    BY <1>4, <1>8, SharedPanics, UnresolvableIs
  <2>3. FilesInv' /\ PanicsInv'
    BY <1>1, <2>1, <2>2, Panicked
  <2> QED BY <1>6, <1>7, <2>3 DEF Inv
<1>9. CASE ~\E t \in ToSet(Shared) : Panics(t, "cdp")
  <2>1. step' = "root" /\ files' = Streamed(files, <<"cdp", "types">>, TypeDecls(Shared, "cdp"))
    BY <1>9 DEF GenerateSharedTypes, Goto
  <2>2. Late' /\ ~Rooted' /\ \A i : ~Finished(i)'
    BY <2>1 DEF Late, Rooted, Finished
  <2>3. PICK decls, fs, g, path : decls = TypeDecls(Shared, "cdp") /\ fs = files /\ g = files' /\ path = SharedPath
    OBVIOUS
  <2>4. IsSeq(decls)
    <3>1. PICK vs : vs = Shared
      OBVIOUS
    <3>2. IsSeq(vs)
      BY <1>4, <3>1, SharedAre, TypedSeq
    <3> QED BY <2>3, <3>1, <3>2, DeclsAre
  <2>5. Extends(g, fs, {path}) /\ Has(g, path, decls) /\ AllSeqs(g)
    <3>1. path \notin DOMAIN fs /\ AllSeqs(fs)
      BY <1>1, <2>3 DEF AllSeqs
    <3>2. g = Streamed(fs, path, decls)
      BY <2>1, <2>3 DEF SharedPath
    <3> QED BY <2>4, <3>1, <3>2, StreamedNew
  <2>6. DOMAIN files' = {SharedPath}
    BY <1>1, <2>3, <2>5 DEF Extends
  <2>7. TypeDecls(Shared, "cdp")' = decls
    BY <1>1, <2>3, SameContents
  <2>8. SharedPath' = SharedPath
    BY DEF SharedPath
  <2>9. FilesInv'
    BY <2>1, <2>2, <2>3, <2>5, <2>6, <2>7, <2>8 DEF FilesInv
  <2>10. \A t \in ToSet(Shared) : ~Panics(t, "cdp")'
    BY <1>1, <1>9, SamePanics
  <2>11. PanicsInv'
    BY <1>1, <2>1, <2>2, <2>10, SameShared DEF PanicsInv
  <2> QED BY <1>6, <1>7, <2>9, <2>11 DEF Inv
<1> QED BY <1>8, <1>9

(* From the root package on, every domain is fixed.                        *)
LEMMA LateFacts ==
  ASSUME Inv, step \in {"root", "domain", "done"}
  PROVE  /\ WellFormed(source) /\ AllMade(source, domains) /\ Len(domains) \in Nat
         /\ \A i \in 1 .. Len(domains) : ~Ahead(i) /\ domains[i] \in DomainSet
<1>1. \A i \in 1 .. Len(domains) : ~Ahead(i)
  BY DEF Ahead
<1>2. WellFormed(source) /\ AllMade(source, domains)
  BY <1>1, AllFixed DEF Inv
<1>3. Len(domains) \in Nat /\ \A i \in 1 .. Len(domains) : domains[i] \in DomainSet
  BY <1>2, TypedSeq DEF AllMade
<1> QED BY <1>1, <1>2, <1>3

LEMMA RootSteps ==
  ASSUME Inv, GenerateRootPackage
  PROVE  Inv'
<1>1. step = "root" /\ source' = source /\ domains' = domains /\ StepsInv /\ DomainsInv /\ FilesInv /\ PanicsInv
  BY DEF GenerateRootPackage, Inv
<1>2. /\ WellFormed(source) /\ AllMade(source, domains) /\ Len(domains) \in Nat
      /\ \A i \in 1 .. Len(domains) : ~Ahead(i)
  BY <1>1, LateFacts
<1>3. CASE Panics(RootType, "cdproto")
  <2>1. step' = "panic" /\ at' = 1 /\ files' = files
    BY <1>1, <1>3 DEF GenerateRootPackage, Goto
  <2>2. Unresolvable(source)
    BY <1>2, <1>3, RootPanics, UnresolvableIs
  <2>3. FilesInv' /\ PanicsInv'
    BY <1>1, <2>1, <2>2, Panicked
  <2>4. DomainsInv'
    BY <1>1, <1>2, <2>1, LaterDomains
  <2>5. StepsInv'
    BY <1>1, <2>1 DEF StepsInv
  <2> QED BY <2>3, <2>4, <2>5 DEF Inv
<1>4. CASE ~Panics(RootType, "cdproto")
  <2>1. /\ at' = 1 /\ step' = IF domains = <<>> THEN "done" ELSE "domain"
        /\ files' = Streamed(files, <<"cdproto", "cdproto">>, <<TypeDecl(RootType, "cdproto")>>)
    BY <1>1, <1>4 DEF GenerateRootPackage, Goto
  <2>2. Late /\ Late' /\ Rooted' /\ ~Rooted
    BY <1>1, <2>1 DEF Late, Rooted
  <2>3. domains = <<>> <=> Len(domains) = 0
    BY <1>1, SeqFacts DEF DomainsInv
  <2>4. \A i \in 1 .. Len(domains) : ~Finished(i) /\ ~Finished(i)'
    BY <1>1, <1>2, <2>1, <2>3 DEF Finished
  <2>5. PICK decls, shared, fs, g, path, old :
          /\ decls = <<TypeDecl(RootType, "cdproto")>> /\ shared = TypeDecls(Shared, "cdp")
          /\ fs = files /\ g = files' /\ path = RootPath /\ old = SharedPath
    OBVIOUS
  <2>6. AllSeqs(fs) /\ Has(fs, old, shared) /\ \A p \in DOMAIN fs : p = old
    BY <1>1, <2>2, <2>4, <2>5 DEF FilesInv
  <2>7. path # old
    BY <2>5 DEF RootPath, SharedPath
  <2>8. Extends(g, fs, {path}) /\ Has(g, path, decls) /\ AllSeqs(g)
    <3>1. path \notin DOMAIN fs
      BY <2>6, <2>7
    <3>2. g = Streamed(fs, path, decls)
      BY <2>1, <2>5 DEF RootPath
    <3>3. IsSeq(decls)
      BY <2>5, Single
    <3> QED BY <2>6, <3>1, <3>2, <3>3, StreamedNew
  <2>9. Has(g, old, shared) /\ \A p \in DOMAIN g : p = old \/ p = path
    BY <2>6, <2>8, HasStill DEF Extends
  <2>10. /\ TypeDecls(Shared, "cdp")' = shared /\ <<TypeDecl(RootType, "cdproto")>>' = decls
         /\ SharedPath' = old /\ RootPath' = path
    BY <1>1, <2>5, SameContents DEF SharedPath, RootPath
  <2>11. FilesInv'
    BY <1>1, <2>1, <2>2, <2>4, <2>5, <2>8, <2>9, <2>10 DEF FilesInv
  <2>12. PanicsInv'
    <3>1. \A t \in ToSet(Shared) : ~Panics(t, "cdp")
      BY <1>1, <2>2 DEF PanicsInv
    <3>2. \A t \in ToSet(Shared)' : ~Panics(t, "cdp")'
      BY <1>1, <3>1, SameShared, SamePanics
    <3>3. ~Panics(RootType, "cdproto")'
      BY <1>1, <1>4, SamePanics, RootSame
    <3> QED BY <1>1, <2>1, <2>4, <3>2, <3>3 DEF PanicsInv
  <2>13. DomainsInv'
    BY <1>1, <1>2, <2>1, LaterDomains
  <2>14. StepsInv'
    BY <1>1, <1>2, <2>1, <2>3 DEF StepsInv
  <2> QED BY <2>11, <2>12, <2>13, <2>14 DEF Inv
<1> QED BY <1>3, <1>4

LEMMA DomainSteps ==
  ASSUME Inv, GenerateDomain
  PROVE  Inv'
<1>1. /\ step = "domain" /\ source' = source /\ domains' = domains /\ at \in 1 .. Len(domains)
      /\ StepsInv /\ DomainsInv /\ FilesInv /\ PanicsInv
  BY DEF GenerateDomain, Inv, StepsInv
<1>2. /\ WellFormed(source) /\ AllMade(source, domains) /\ Len(domains) \in Nat
      /\ \A i \in 1 .. Len(domains) : ~Ahead(i) /\ domains[i] \in DomainSet
      /\ \A i, k \in 1 .. Len(domains) : domains[i].name = domains[k].name => i = k
  BY <1>1, LateFacts DEF DomainsInv
<1>3. PICK n, d : n \in 1 .. Len(domains) /\ n = at /\ d = domains[n]
  BY <1>1
<1>4. d \in DomainSet /\ d = domains[at]
  BY <1>2, <1>3
<1>6. CASE \E t \in ToSet(OwnItems(d)) : Panics(t, d.name)
  <2>1. step' = "panic" /\ at' = 1 /\ files' = files
    BY <1>3, <1>4, <1>6 DEF GenerateDomain, Goto, OwnItems
  <2>2. Unresolvable(source)
    BY <1>2, <1>3, <1>6, OwnPanics, UnresolvableIs
  <2>3. FilesInv' /\ PanicsInv'
    BY <1>1, <2>1, <2>2, Panicked
  <2>4. DomainsInv'
    BY <1>1, <1>2, <2>1, LaterDomains
  <2>5. StepsInv'
    BY <1>1, <2>1 DEF StepsInv
  <2> QED BY <2>3, <2>4, <2>5 DEF Inv
<1>7. CASE ~\E t \in ToSet(OwnItems(d)) : Panics(t, d.name)
  <2>1. /\ files' = Generated(d)
        /\ \/ at < Len(domains) /\ at' = at + 1 /\ step' = "domain"
           \/ at = Len(domains) /\ at' = 1 /\ step' = "done"
    <3>1. /\ files' = Generated(d)
          /\ IF at < Len(domains) THEN at' = at + 1 /\ UNCHANGED step ELSE Goto("done")
      BY <1>4, <1>7 DEF GenerateDomain, OwnItems
    <3> QED BY <1>1, <1>2, <3>1 DEF Goto
  <2>2. Late /\ Late' /\ Rooted' /\ Rooted
    BY <1>1, <2>1 DEF Late, Rooted
  <2>3. \A i \in 1 .. Len(domains) : (Finished(i) <=> i < n) /\ (Finished(i)' <=> i < n \/ i = n)
    BY <1>1, <1>2, <1>3, <2>1 DEF Finished
  <2>4. PICK fs, g : fs = files /\ g = files'
    OBVIOUS
  <2>5. \A p \in DOMAIN fs : p \notin {CommandPath(d), TypePath(d), EventPath(d)}
    <3>1. \A p \in DOMAIN fs : p = SharedPath \/ p = RootPath \/ \E i \in 1 .. Len(domains) : i < n /\ p \in Paths(domains[i])
      BY <1>1, <2>2, <2>3, <2>4 DEF FilesInv
    <3>2. \A i \in 1 .. Len(domains) : domains[i].name \in DomainNames
      BY <1>2 DEF DomainSet
    <3>3. \A i \in 1 .. Len(domains) : \A p \in Paths(domains[i]) : p[1] = domains[i].name
      BY <3>2, PathsApart
    <3>4. \A i \in 1 .. Len(domains) : i < n => domains[i].name # d.name
      BY <1>2, <1>3
    <3>5. SharedPath[1] = "cdp" /\ RootPath[1] = "cdproto"
      BY DEF SharedPath, RootPath
    <3>6. d.name # "cdp" /\ d.name # "cdproto"
      BY <1>3, <3>2 DEF DomainNames
    <3>7. CommandPath(d)[1] = d.name /\ TypePath(d)[1] = d.name /\ EventPath(d)[1] = d.name
      BY DEF CommandPath, TypePath, EventPath
    <3>8. \A p \in DOMAIN fs : p[1] # d.name
      BY <3>1, <3>3, <3>4, <3>5, <3>6
    <3> QED BY <3>7, <3>8
  <2>6. /\ Extends(g, fs, Paths(d)) /\ AllSeqs(g)
        /\ HasDomain(g, d, CommandFile(d), TypeFile(d), EventFile(d))
    <3>1. AllSeqs(files)
      BY <1>1 DEF FilesInv
    <3>2. \A p \in DOMAIN files : p \notin {CommandPath(d), TypePath(d), EventPath(d)}
      BY <2>4, <2>5
    <3>3. g = Generated(d)
      BY <2>1, <2>4
    <3> QED BY <1>4, <2>4, <3>1, <3>2, <3>3, GeneratedIs
  <2>7. PICK shared, root : shared = TypeDecls(Shared, "cdp") /\ root = <<TypeDecl(RootType, "cdproto")>>
    OBVIOUS
  <2>8. Has(g, SharedPath, shared) /\ Has(g, RootPath, root)
    <3>1. Has(fs, SharedPath, shared) /\ Has(fs, RootPath, root)
      BY <1>1, <2>2, <2>4, <2>7 DEF FilesInv
    <3> QED BY <2>6, <3>1, HasStill
  <2>9. ASSUME NEW i \in 1 .. Len(domains), Finished(i)'
        PROVE  HasDomain(g, domains[i], CommandFile(domains[i]), TypeFile(domains[i]), EventFile(domains[i]))
    <3>1. CASE i = n
      BY <1>3, <2>6, <3>1
    <3>2. CASE i < n
      <4>1. HasDomain(fs, domains[i], CommandFile(domains[i]), TypeFile(domains[i]), EventFile(domains[i]))
        BY <1>1, <2>3, <2>4, <3>2 DEF FilesInv
      <4> QED BY <2>6, <4>1, HasStill
    <3> QED BY <2>3, <2>9, <3>1, <3>2
  <2>10. ASSUME NEW p \in DOMAIN g
         PROVE  p = SharedPath \/ p = RootPath \/ \E i \in 1 .. Len(domains) : Finished(i)' /\ p \in Paths(domains[i])
    <3>1. p \in DOMAIN fs \/ p \in Paths(d)
      BY <2>6 DEF Extends
    <3>2. CASE p \in DOMAIN fs
      BY <1>1, <2>2, <2>3, <2>4, <3>2 DEF FilesInv
    <3>3. CASE p \in Paths(d)
      BY <1>3, <2>3, <3>3
    <3> QED BY <3>1, <3>2, <3>3
  <2>11. FilesInv'
    <3>1. /\ TypeDecls(Shared, "cdp")' = shared /\ <<TypeDecl(RootType, "cdproto")>>' = root
          /\ SharedPath' = SharedPath /\ RootPath' = RootPath
      BY <1>1, <2>7, SameContents DEF SharedPath, RootPath
    <3>2. step' \notin {"clean", "fix"}
      BY <2>1
    <3>3. \A i \in 1 .. Len(domains)' : Finished(i)' =>
            HasDomain(files, domains[i], CommandFile(domains[i]), TypeFile(domains[i]), EventFile(domains[i]))'
      <4>1. \A x : CommandFile(x)' = CommandFile(x) /\ TypeFile(x)' = TypeFile(x) /\ EventFile(x)' = EventFile(x)
        BY <1>1, SameContents
      <4> QED BY <1>1, <2>4, <2>9, <4>1 DEF HasDomain, CommandPath, TypePath, EventPath
    <3>4. \A p \in DOMAIN files' : \/ p = SharedPath'
                                   \/ Rooted' /\ p = RootPath'
                                   \/ \E i \in 1 .. Len(domains)' : Finished(i)' /\ p \in Paths(domains[i])'
      <4>1. \A i : Paths(domains[i])' = Paths(domains[i])
        BY <1>1 DEF Paths, CommandPath, TypePath, EventPath
      <4> QED BY <1>1, <2>2, <2>4, <2>10, <3>1, <4>1
    <3> QED BY <2>4, <2>6, <2>8, <3>1, <3>2, <3>3, <3>4 DEF FilesInv
  <2>12. PanicsInv'
    <3>1. (\A t \in ToSet(Shared) : ~Panics(t, "cdp")) /\ ~Panics(RootType, "cdproto")
      BY <1>1, <2>2 DEF PanicsInv
    <3>2. \A t \in ToSet(Shared)' : ~Panics(t, "cdp")'
      BY <1>1, <3>1, SameShared, SamePanics
    <3>3. ~Panics(RootType, "cdproto")'
      BY <1>1, <3>1, SamePanics, RootSame
    <3>4. \A i \in 1 .. Len(domains) : Finished(i)' => \A t \in ToSet(OwnItems(domains[i])) : ~Panics(t, domains[i].name)
      BY <1>1, <1>3, <1>7, <2>3 DEF PanicsInv
    <3>5. \A x : OwnItems(x)' = OwnItems(x)
      OBVIOUS
    <3>6. \A i \in 1 .. Len(domains)' : Finished(i)' => \A t \in ToSet(OwnItems(domains[i]))' : ~Panics(t, domains[i].name)'
      BY <1>1, <3>4, <3>5, SamePanics
    <3> QED BY <2>1, <3>2, <3>3, <3>6 DEF PanicsInv
  <2>13. DomainsInv'
    BY <1>1, <1>2, <2>1, LaterDomains
  <2>14. StepsInv'
    BY <1>1, <1>2, <2>1 DEF StepsInv
  <2> QED BY <2>11, <2>12, <2>13, <2>14 DEF Inv
<1> QED BY <1>6, <1>7

-----------------------------------------------------------------------------
(* What is declared when the tool is done.                                 *)

Entry(p, c) == [path |-> p, decl |-> c]

LEMMA EntryIs == ASSUME NEW p, NEW c PROVE Entry(p, c).path = p /\ Entry(p, c).decl = c
  BY DEF Entry

LEMMA DoneFacts ==
  ASSUME Inv, step = "done"
  PROVE  /\ WellFormed(source) /\ AllMade(source, domains) /\ Len(domains) \in Nat
         /\ \A i \in 1 .. Len(domains) : domains[i] \in DomainSet
         /\ AllSeqs(files)
         /\ Has(files, SharedPath, TypeDecls(Shared, "cdp")) /\ Has(files, RootPath, <<TypeDecl(RootType, "cdproto")>>)
         /\ \A i \in 1 .. Len(domains) :
              HasDomain(files, domains[i], CommandFile(domains[i]), TypeFile(domains[i]), EventFile(domains[i]))
         /\ \A p \in DOMAIN files : p = SharedPath \/ p = RootPath \/ \E i \in 1 .. Len(domains) : p \in Paths(domains[i])
         /\ (\A t \in ToSet(Shared) : ~Panics(t, "cdp")) /\ ~Panics(RootType, "cdproto")
         /\ \A i \in 1 .. Len(domains) : \A t \in ToSet(OwnItems(domains[i])) : ~Panics(t, domains[i].name)
<1>1. Late /\ Rooted /\ \A i : Finished(i)
  BY DEF Late, Rooted, Finished
<1>2. /\ WellFormed(source) /\ AllMade(source, domains) /\ Len(domains) \in Nat
      /\ \A i \in 1 .. Len(domains) : domains[i] \in DomainSet
  BY LateFacts
<1>3. FilesInv /\ PanicsInv
  BY DEF Inv
<1> QED BY <1>1, <1>2, <1>3 DEF FilesInv, PanicsInv

LEMMA DeclarationsAre ==
  ASSUME Inv, step = "done"
  PROVE  \A x : x \in Declarations <=> \E p \in DOMAIN files : \E c \in ToSet(files[p]) : x = Entry(p, c)
<1>1. \A p \in DOMAIN files : \A c : c \in ToSet(files[p]) <=> \E i \in 1 .. Len(files[p]) : files[p][i] = c
  BY DoneFacts, SeqFacts DEF AllSeqs
<1>2. \A x : x \in Declarations <=> \E p \in DOMAIN files : \E i \in 1 .. Len(files[p]) : x = Entry(p, files[p][i])
  BY DEF Declarations, Entry
<1> QED BY <1>1, <1>2

(* v is what the declaration c in the package d is made of.                *)
Placed(v, d) ==
  \/ v \in ToSet(Shared) /\ d = "cdp"
  \/ v = RootType /\ d = "cdproto"
  \/ \E i \in 1 .. Len(domains) : v \in ToSet(OwnItems(domains[i])) /\ d = domains[i].name

UsesOf(fs, d) == {Use(f, d) : f \in {g \in ToSet(fs) : ~g.hidden /\ g.ref # <<>>}}

LEMMA DeclareIs ==
  ASSUME NEW v, NEW n, NEW fs, NEW d, NEW c, c = Declare(v, n, fs, d)
  PROVE  c.name = n /\ c.raw = v.raw /\ c.kind = v.kind /\ c.uses = UsesOf(fs, d)
  BY DEF Declare, UsesOf

LEMMA TypeDeclIs ==
  ASSUME NEW v, NEW d, NEW c, c = TypeDecl(v, d)
  PROVE  /\ c.raw = v.raw /\ c.kind = v.kind /\ c.uses = UsesOf(StructFields(v, d), d)
         /\ v.kind = "type" => c.name = v.name
<1>1. PICK fs, n : fs = StructFields(v, d) /\ n = IF v.kind = "event" THEN <<"Event">> \o GoTypeName(v) ELSE GoTypeName(v)
  OBVIOUS
<1>2. c = Declare(v, n, fs, d)
  BY <1>1 DEF TypeDecl
<1>3. c.name = n /\ c.raw = v.raw /\ c.kind = v.kind /\ c.uses = UsesOf(fs, d)
  BY <1>2, DeclareIs
<1>4. v.kind = "type" => n = v.name
  BY <1>1 DEF GoTypeName
<1> QED BY <1>1, <1>3, <1>4

LEMMA UsesAre ==
  ASSUME NEW v, NEW d, NEW fs, NEW u \in UsesOf(fs, d),
         ToSet(fs) \subseteq ToSet(StructFields(v, d)) \cup ToSet(v.returns)
  PROVE  \E f \in Shown(v, d) : f.ref # <<>> /\ u = Use(f, d)
  BY DEF UsesOf, Shown

Belongs(v, d, c) ==
  /\ c.raw = v.raw /\ c.kind = v.kind
  /\ \A u \in c.uses : \E f \in Shown(v, d) : f.ref # <<>> /\ u = Use(f, d)

LEMMA TypeBelongs ==
  ASSUME NEW v, NEW d, NEW c, c = TypeDecl(v, d)
  PROVE  Belongs(v, d, c)
<1>1. PICK fs : fs = StructFields(v, d)
  OBVIOUS
<1>2. c.raw = v.raw /\ c.kind = v.kind /\ c.uses = UsesOf(fs, d)
  BY <1>1, TypeDeclIs
<1> QED BY <1>1, <1>2, UsesAre DEF Belongs

LEMMA CommandBelongs ==
  ASSUME NEW v, v.kind = "command", ~v.array, NEW d, NEW c \in ToSet(CommandDecls(v, d))
  PROVE  Belongs(v, d, c)
<1>1. PICK fs, rs : fs = v.fields /\ rs = v.returns
  OBVIOUS
<1>2. StructFields(v, d) = fs
  BY <1>1 DEF StructFields
<1>3. PICK n : c = Declare(v, n, fs, d) \/ c = Declare(v, n, rs, d)
  BY <1>1, CommandDeclsAre DEF ParamsDecl, FuncDecl, ReturnsDecl
<1>4. c.raw = v.raw /\ c.kind = v.kind /\ (c.uses = UsesOf(fs, d) \/ c.uses = UsesOf(rs, d))
  BY <1>3, DeclareIs
<1>5. \A u \in UsesOf(fs, d) : \E f \in Shown(v, d) : f.ref # <<>> /\ u = Use(f, d)
  BY <1>2, UsesAre
<1>6. \A u \in UsesOf(rs, d) : \E f \in Shown(v, d) : f.ref # <<>> /\ u = Use(f, d)
  BY <1>1, UsesAre
<1> QED BY <1>4, <1>5, <1>6 DEF Belongs

(* The commands of a domain are no arrays.                                 *)
LEMMA KindsOfOne ==
  ASSUME WellFormed(source), AllMade(source, domains), NEW i \in 1 .. Len(domains)
  PROVE  /\ \A v \in ToSet(domains[i].commands) : v.kind = "command" /\ ~v.array
         /\ \A v \in ToSet(domains[i].events) : v.kind = "event" /\ ~v.array /\ ~v.circular /\ v.returns = <<>>
         /\ \A v \in ToSet(domains[i].types) : v.kind = "type" /\ v \in TypesIn(domains)
<1>1. ASSUME NEW v \in ToSet(domains[i].commands) PROVE v.kind = "command" /\ ~v.array
  <2>1. PICK t \in LiveItems(source) : t.kind = "command" /\ Becomes(t, v)
    BY ItemsAre
  <2>2. WellFormedItem(t) /\ t \in ItemSet
    BY ItemFacts
  <2> QED BY <2>1, <2>2 DEF WellFormedItem, Becomes, ItemSet
<1>2. ASSUME NEW v \in ToSet(domains[i].events) PROVE v.kind = "event" /\ ~v.array /\ ~v.circular /\ v.returns = <<>>
  <2>1. PICK t \in LiveItems(source) : t.kind = "event" /\ Becomes(t, v)
    BY ItemsAre
  <2>2. WellFormedItem(t) /\ t \in ItemSet
    BY ItemFacts
  <2> QED BY <2>1, <2>2 DEF WellFormedItem, Becomes, ItemSet
<1>3. \A v \in ToSet(domains[i].types) : v.kind = "type" /\ v \in TypesIn(domains)
  BY InTypes, TypesAre
<1> QED BY <1>1, <1>2, <1>3

LEMMA DeclElements ==
  ASSUME NEW ts \in Seq(ItemSet), NEW d, NEW ds, ds = TypeDecls(ts, d)
  PROVE  /\ IsSeq(ds) /\ Len(ds) = Len(ts) /\ \A i \in 1 .. Len(ts) : ds[i] = TypeDecl(ts[i], d)
         /\ \A c : c \in ToSet(ds) <=> \E v \in ToSet(ts) : c = TypeDecl(v, d)
<1>1. IsSeq(ts) /\ \A x : x \in ToSet(ts) <=> \E i \in 1 .. Len(ts) : ts[i] = x
  BY TypedSeq
<1>2. IsSeq(ds) /\ Len(ds) = Len(ts) /\ \A i \in 1 .. Len(ts) : ds[i] = TypeDecl(ts[i], d)
  BY <1>1, DeclsAre
<1>3. \A c : c \in ToSet(ds) <=> \E i \in 1 .. Len(ts) : ds[i] = c
  <2>1. \A c : c \in ToSet(ds) <=> \E i \in 1 .. Len(ds) : ds[i] = c
    BY <1>2, SeqFacts
  <2> QED BY <1>2, <2>1, Zenon
<1> QED BY <1>1, <1>2, <1>3

LEMMA FileElements ==
  ASSUME NEW d \in DomainSet
  PROVE  /\ \A c : c \in ToSet(TypeFile(d)) <=> \E v \in ToSet(d.types) : ~v.circular /\ c = TypeDecl(v, d.name)
         /\ \A c : c \in ToSet(EventFile(d)) <=> \E v \in ToSet(d.events) : ~v.circular /\ c = TypeDecl(v, d.name)
         /\ \A c : c \in ToSet(CommandFile(d)) <=> \E v \in ToSet(d.commands) : c \in ToSet(CommandDecls(v, d.name))
<1>1. d.types \in Seq(ItemSet) /\ d.events \in Seq(ItemSet)
  BY DEF DomainSet
<1>2. PICK ts, es, n : ts = OwnTypes(d.types) /\ es = OwnTypes(d.events) /\ n = d.name
  OBVIOUS
<1>3. ts \in Seq(ItemSet) /\ \A v : v \in ToSet(ts) <=> v \in ToSet(d.types) /\ ~v.circular
  BY <1>1, <1>2, OwnTypesAre
<1>4. es \in Seq(ItemSet) /\ \A v : v \in ToSet(es) <=> v \in ToSet(d.events) /\ ~v.circular
  BY <1>1, <1>2, OwnTypesAre
<1>5. TypeFile(d) = TypeDecls(ts, n) /\ EventFile(d) = TypeDecls(es, n)
  BY <1>2 DEF TypeFile, EventFile
<1>6. PICK tf, ef : tf = TypeDecls(ts, n) /\ ef = TypeDecls(es, n)
  OBVIOUS
<1>7. \A c : c \in ToSet(tf) <=> \E v \in ToSet(ts) : c = TypeDecl(v, n)
  BY <1>3, <1>6, DeclElements
<1>8. \A c : c \in ToSet(ef) <=> \E v \in ToSet(es) : c = TypeDecl(v, n)
  BY <1>4, <1>6, DeclElements
<1>9. \A c : c \in ToSet(CommandFile(d)) <=> \E v \in ToSet(d.commands) : c \in ToSet(CommandDecls(v, n))
  BY <1>2, CommandFileIs
<1> QED BY <1>2, <1>3, <1>4, <1>5, <1>6, <1>7, <1>8, <1>9

LEMMA SharedElements ==
  ASSUME WellFormed(source), AllMade(source, domains)
  PROVE  \A c : c \in ToSet(TypeDecls(Shared, "cdp")) <=> \E v \in ToSet(Shared) : c = TypeDecl(v, "cdp")
<1>1. PICK vs, d : vs = Shared /\ d = "cdp"
  OBVIOUS
<1>2. vs \in Seq(ItemSet)
  BY <1>1, SharedAre
<1>3. \A c : c \in ToSet(TypeDecls(vs, d)) <=> \E v \in ToSet(vs) : c = TypeDecl(v, d)
  BY <1>2, DeclElements
<1> QED BY <1>1, <1>3

(* x is a declaration of v in the package d.                               *)
From(x, v, d) == Placed(v, d) /\ x.path[1] = d /\ Belongs(v, d, x.decl)

(* Every declaration is that of an item in its package.                    *)
LEMMA Origins ==
  ASSUME Inv, step = "done", NEW x \in Declarations
  PROVE  \E v, d : From(x, v, d)
<1>1. PICK p, c : p \in DOMAIN files /\ c \in ToSet(files[p]) /\ x = Entry(p, c)
  BY DeclarationsAre
<1>2. x.path = p /\ x.decl = c
  BY <1>1, EntryIs
<1>3. CASE p = SharedPath
  <2>1. c \in ToSet(TypeDecls(Shared, "cdp"))
    <3>1. files[SharedPath] = TypeDecls(Shared, "cdp")
      BY DoneFacts DEF Has
    <3> QED BY <1>1, <1>3, <3>1, Zenon
  <2>2. PICK v \in ToSet(Shared) : c = TypeDecl(v, "cdp")
    BY <2>1, SharedElements, DoneFacts
  <2>3. Placed(v, "cdp") /\ Belongs(v, "cdp", c) /\ p[1] = "cdp"
    BY <1>3, <2>2, TypeBelongs DEF Placed, SharedPath
  <2>4. From(x, v, "cdp")
    BY <1>2, <2>3 DEF From
  <2> QED BY <2>4
<1>4. CASE p = RootPath
  <2>1. PICK r : r = TypeDecl(RootType, "cdproto")
    OBVIOUS
  <2>2. c \in ToSet(<<r>>)
    <3>1. files[RootPath] = <<r>>
      BY <2>1, DoneFacts DEF Has
    <3> QED BY <1>1, <1>4, <3>1, Zenon
  <2>3. c = r
    BY <2>2, Single
  <2>4. Placed(RootType, "cdproto") /\ Belongs(RootType, "cdproto", c) /\ p[1] = "cdproto"
    BY <1>4, <2>1, <2>3, TypeBelongs DEF Placed, RootPath
  <2>5. From(x, RootType, "cdproto")
    BY <1>2, <2>4 DEF From
  <2> QED BY <2>5
<1>5. ASSUME NEW i \in 1 .. Len(domains), p \in Paths(domains[i])
      PROVE  \E v, d : From(x, v, d)
  <2>1. PICK d : d = domains[i]
    OBVIOUS
  <2>2. /\ d \in DomainSet /\ d.name \in DomainNames /\ WellFormed(source) /\ AllMade(source, domains)
        /\ HasDomain(files, d, CommandFile(d), TypeFile(d), EventFile(d))
    BY <2>1, DoneFacts DEF DomainSet
  <2>3. p[1] = d.name
    BY <1>5, <2>1, <2>2, PathsApart
  <2>4. c \in ToSet(CommandFile(d)) \/ c \in ToSet(TypeFile(d)) \/ c \in ToSet(EventFile(d))
    <3>1. \/ p = CommandPath(d)
          \/ p = TypePath(d) /\ d.types # <<>>
          \/ p = EventPath(d) /\ d.events # <<>>
      BY <1>5, <2>1 DEF Paths
    <3> QED BY <1>1, <2>2, <3>1 DEF HasDomain, Has
  <2>5. \E v \in ToSet(OwnItems(d)) : Belongs(v, d.name, c)
    <3>1. CASE c \in ToSet(CommandFile(d))
      <4>1. PICK v \in ToSet(d.commands) : c \in ToSet(CommandDecls(v, d.name))
        BY <2>2, <3>1, FileElements
      <4>2. v.kind = "command" /\ ~v.array
        BY <2>1, <2>2, KindsOfOne
      <4> QED BY <2>2, <4>1, <4>2, CommandBelongs, OwnItemsAre
    <3>2. CASE c \in ToSet(TypeFile(d))
      <4>1. PICK v \in ToSet(d.types) : ~v.circular /\ c = TypeDecl(v, d.name)
        BY <2>2, <3>2, FileElements
      <4> QED BY <2>2, <4>1, TypeBelongs, OwnItemsAre
    <3>3. CASE c \in ToSet(EventFile(d))
      <4>1. PICK v \in ToSet(d.events) : ~v.circular /\ c = TypeDecl(v, d.name)
        BY <2>2, <3>3, FileElements
      <4> QED BY <2>2, <4>1, TypeBelongs, OwnItemsAre
    <3> QED BY <2>4, <3>1, <3>2, <3>3
  <2>6. PICK v \in ToSet(OwnItems(d)) : Belongs(v, d.name, c)
    BY <2>5
  <2>7. PICK n : n = d.name
    OBVIOUS
  <2>8. Placed(v, n)
    BY <2>1, <2>7 DEF Placed
  <2>9. x.path[1] = n
    BY <1>2, <2>3, <2>7
  <2>10. Belongs(v, n, x.decl)
    BY <1>2, <2>6, <2>7, Zenon
  <2>11. From(x, v, n)
    BY <2>8, <2>9, <2>10 DEF From
  <2> QED BY <2>11
<1> QED BY <1>1, <1>3, <1>4, <1>5, DoneFacts

(* What an item in its package shows can be resolved.                      *)
LEMMA ShownResolves ==
  ASSUME Inv, step = "done", NEW v, NEW d, Placed(v, d), NEW f \in Shown(v, d), f.ref # <<>>
  PROVE  ResolveRef(f.ref, d) # <<>>
<1>1. WellFormed(source) /\ AllMade(source, domains) /\ ~Panics(v, d)
  BY DoneFacts DEF Placed
<1>2. PICK fs, rs : fs = StructFields(v, d) /\ rs = v.returns
  OBVIOUS
<1>3. (fs \in Seq(FieldSet) /\ rs \in Seq(FieldSet)) \/ v = RootType
  <2>1. CASE Inert(v)
    BY <1>2, <2>1, InertShows
  <2>2. ASSUME NEW t \in LiveItems(source), Becomes(t, v), Where(t) = d
        PROVE  fs \in Seq(FieldSet) /\ rs \in Seq(FieldSet)
    <3>1. Resolves(v.ref, d)
      BY <1>1 DEF Panics
    <3> QED BY <1>1, <1>2, <2>2, <3>1, RefsAre
  <2>3. v = RootType \/ Inert(v) \/ \E t \in LiveItems(source) : Becomes(t, v) /\ Where(t) = d
    BY <1>1, SharedAtHome, OwnAtHome DEF Placed
  <2> QED BY <2>1, <2>2, <2>3
<1>4. f \in ToSet(fs \o rs)
  <2>1. CASE fs \in Seq(FieldSet) /\ rs \in Seq(FieldSet)
    <3>1. ToSet(fs \o rs) = ToSet(fs) \cup ToSet(rs)
      BY <2>1, TypedConcat
    <3> QED BY <1>2, <3>1 DEF Shown
  <2>2. CASE v = RootType
    <3>1. PICK r : r = RootField
      OBVIOUS
    <3>2. fs = <<r>> /\ rs = <<>>
      BY <1>2, <2>2, <3>1, RootIs
    <3>3. IsSeq(fs) /\ IsSeq(rs)
      BY <3>2, Single, NoElements
    <3>4. ToSet(fs \o rs) = ToSet(fs) \cup ToSet(rs)
      BY <3>3, Concat
    <3> QED BY <1>2, <3>4 DEF Shown
  <2> QED BY <1>3, <2>1, <2>2
<1>5. ~f.hidden
  BY DEF Shown
<1>6. Resolves(f.ref, d)
  BY <1>1, <1>2, <1>4, <1>5 DEF Panics
<1> QED BY <1>6 DEF Resolves

(* Every type is declared in its package. *)
LEMMA TypeDeclared ==
  ASSUME Inv, step = "done", NEW w \in TypesIn(domains), NEW d
  PROVE  \E c \in DeclaredAs(GoPackage(w, d), w.name) : c.raw = w.raw
<1>1. WellFormed(source) /\ AllMade(source, domains)
  BY DoneFacts
<1>2. w.kind = "type"
  BY <1>1, TypesAre
<1>3. SUFFICES \E x \in Declarations : /\ x.path[1] = GoPackage(w, d) /\ x.decl.name = w.name
                                       /\ x.decl.kind = "type" /\ x.decl.raw = w.raw
  BY DEF DeclaredAs
<1>4. ASSUME NEW p \in DOMAIN files, NEW e, TypeDecl(w, e) \in ToSet(files[p]), p[1] = GoPackage(w, d)
      PROVE  \E x \in Declarations : /\ x.path[1] = GoPackage(w, d) /\ x.decl.name = w.name
                                     /\ x.decl.kind = "type" /\ x.decl.raw = w.raw
  <2>1. PICK c : c = TypeDecl(w, e)
    OBVIOUS
  <2>2. c.raw = w.raw /\ c.kind = "type" /\ c.name = w.name
    BY <1>2, <2>1, TypeDeclIs
  <2>3. PICK x : x = Entry(p, c)
    OBVIOUS
  <2>4. x \in Declarations
    BY <1>4, <2>1, <2>3, DeclarationsAre
  <2>5. x.path = p /\ x.decl = c
    BY <2>3, EntryIs
  <2> QED BY <1>4, <2>2, <2>4, <2>5
<1>5. CASE w.circular
  <2>1. w \in ToSet(Shared)
    BY <1>1, <1>5, SharedAre
  <2>2. TypeDecl(w, "cdp") \in ToSet(TypeDecls(Shared, "cdp"))
    BY <1>1, <2>1, SharedElements
  <2>3. SharedPath \in DOMAIN files /\ TypeDecl(w, "cdp") \in ToSet(files[SharedPath])
    BY <2>2, DoneFacts DEF Has
  <2>4. SharedPath[1] = GoPackage(w, d)
    BY <1>5 DEF GoPackage, SharedPath
  <2> QED BY <1>4, <2>3, <2>4
<1>6. CASE ~w.circular
  <2>1. PICK i \in 1 .. Len(domains) : w \in ToSet(domains[i].types)
    BY InTypes
  <2>2. PICK e, p : e = domains[i] /\ p = TypePath(e)
    OBVIOUS
  <2>3. e \in DomainSet /\ HasDomain(files, e, CommandFile(e), TypeFile(e), EventFile(e)) /\ w.raw[1] = e.name
    BY <1>1, <2>1, <2>2, DoneFacts, TypesAre
  <2>4. e.types # <<>>
    BY <2>1, <2>2, NoElements
  <2>5. TypeDecl(w, e.name) \in ToSet(TypeFile(e))
    BY <1>6, <2>1, <2>2, <2>3, FileElements
  <2>6. p \in DOMAIN files /\ TypeDecl(w, e.name) \in ToSet(files[p])
    BY <2>2, <2>3, <2>4, <2>5 DEF HasDomain, Has
  <2>7. p[1] = GoPackage(w, d)
    BY <1>6, <2>2, <2>3 DEF GoPackage, TypePath
  <2> QED BY <1>4, <2>6, <2>7
<1> QED BY <1>5, <1>6

-----------------------------------------------------------------------------
(* Inv holds of every run, and what follows from it at once.               *)

LEMMA NothingDone ==
  ASSUME Inv, UNCHANGED vars
  PROVE  Inv'
<1>1. source' = source /\ step' = step /\ at' = at /\ domains' = domains /\ files' = files
  BY DEF vars
<1>2. StepsInv'
  BY <1>1 DEF Inv, StepsInv
<1>3. DomainsInv'
  BY <1>1 DEF Inv, DomainsInv, Stage, Ahead, Seen, Passed
<1>4. FilesInv'
  <2>1. /\ TypeDecls(Shared, "cdp")' = TypeDecls(Shared, "cdp")
        /\ <<TypeDecl(RootType, "cdproto")>>' = <<TypeDecl(RootType, "cdproto")>>
        /\ \A x : CommandFile(x)' = CommandFile(x) /\ TypeFile(x)' = TypeFile(x) /\ EventFile(x)' = EventFile(x)
    BY <1>1, SameContents
  <2>2. /\ Late' = Late /\ Rooted' = Rooted /\ \A i : Finished(i)' = Finished(i)
    BY <1>1 DEF Late, Rooted, Finished
  <2>3. FilesInv
    BY DEF Inv
  <2>4. \A i \in 1 .. Len(domains)' : Finished(i)' =>
          HasDomain(files, domains[i], CommandFile(domains[i]), TypeFile(domains[i]), EventFile(domains[i]))'
    BY <1>1, <2>1, <2>2, <2>3 DEF FilesInv, HasDomain, Has, CommandPath, TypePath, EventPath
  <2>5. \A i : Paths(domains[i])' = Paths(domains[i])
    BY <1>1 DEF Paths, CommandPath, TypePath, EventPath
  <2>6. AllSeqs(files)' /\ SharedPath' = SharedPath /\ RootPath' = RootPath
    BY <1>1, <2>3 DEF FilesInv, AllSeqs, SharedPath, RootPath
  <2>7. Late' => Has(files, SharedPath, TypeDecls(Shared, "cdp"))'
    BY <1>1, <2>1, <2>2, <2>3, <2>6 DEF FilesInv, Has
  <2>8. Rooted' => Has(files, RootPath, <<TypeDecl(RootType, "cdproto")>>)'
    BY <1>1, <2>1, <2>2, <2>3, <2>6 DEF FilesInv, Has
  <2>9. Late' => \A p \in DOMAIN files' : \/ p = SharedPath'
                                          \/ Rooted' /\ p = RootPath'
                                          \/ \E i \in 1 .. Len(domains)' : Finished(i)' /\ p \in Paths(domains[i])'
    BY <1>1, <2>2, <2>3, <2>5, <2>6 DEF FilesInv
  <2>10. step' \in {"clean", "fix"} => DOMAIN files' = {}
    BY <1>1, <2>3 DEF FilesInv
  <2> QED BY <2>4, <2>6, <2>7, <2>8, <2>9, <2>10 DEF FilesInv
<1>5. PanicsInv'
  <2>1. PanicsInv
    BY DEF Inv
  <2>2. /\ Late' = Late /\ Rooted' = Rooted /\ \A i : Finished(i)' = Finished(i)
    BY <1>1 DEF Late, Rooted, Finished
  <2>3. Shared' = Shared /\ \A v, d : Panics(v, d)' = Panics(v, d)
    BY <1>1, SameShared, SamePanics
  <2>4. Late' => \A t \in ToSet(Shared)' : ~Panics(t, "cdp")'
    BY <2>1, <2>2, <2>3 DEF PanicsInv
  <2>5. Rooted' => ~Panics(RootType, "cdproto")'
    BY <1>1, <2>1, <2>2, <2>3, RootSame DEF PanicsInv
  <2>6. \A x : OwnItems(x)' = OwnItems(x)
    OBVIOUS
  <2>7. \A i \in 1 .. Len(domains)' : Finished(i)' => \A t \in ToSet(OwnItems(domains[i]))' : ~Panics(t, domains[i].name)'
    BY <1>1, <2>1, <2>2, <2>3, <2>6 DEF PanicsInv
  <2>8. step' = "panic" => Unresolvable(source)'
    BY <1>1, <2>1 DEF PanicsInv
  <2> QED BY <2>4, <2>5, <2>7, <2>8 DEF PanicsInv
<1> QED BY <1>2, <1>3, <1>4, <1>5 DEF Inv

LEMMA NextInv ==
  ASSUME Inv, Next
  PROVE  Inv'
<1>1. CASE CleanDomain
  <2>1. step = "clean" /\ step' \in {"clean", "fix"} /\ files' = files
    BY <1>1 DEF CleanDomain, Goto
  <2>2. StepsInv' /\ DomainsInv'
    BY <1>1, CleanSteps DEF Inv
  <2> QED BY <2>1, <2>2, NothingYet DEF Inv
<1>2. CASE FixDomain
  <2>1. step = "fix" /\ step' = "fix" /\ files' = files
    BY <1>2 DEF FixDomain
  <2>2. StepsInv' /\ DomainsInv'
    BY <1>2, FixSteps DEF Inv
  <2> QED BY <2>1, <2>2, NothingYet DEF Inv
<1> QED BY <1>1, <1>2, SharedSteps, RootSteps, DomainSteps DEF Next

(* In every run, over any protocols that are well formed, each domain is at *)
(* each step what cleaning and FixDomains make of the one that was given,   *)
(* each file holds what its domain is generated into and nothing else, and  *)
(* nothing that is generated panics: what the loops of run, FixDomains and  *)
(* NewGoGenerator keep.                                                     *)
THEOREM InvHolds == Spec => []Inv
<1>1. Init => Inv
  BY InitInv
<1>2. Inv /\ [Next]_vars => Inv'
  BY NothingDone, NextInv
<1> QED BY <1>1, <1>2, PTL DEF Spec

-----------------------------------------------------------------------------
(* A domain is fixed when it is no longer ahead of FixDomains.             *)
LEMMA InvTypeOK == Inv => TypeOK
<1> SUFFICES ASSUME Inv PROVE TypeOK
  OBVIOUS
<1>1. /\ step \in {"clean", "fix", "root", "domain", "done", "panic"} /\ at \in 1 .. Len(source) + 1
      /\ Len(domains) <= Len(source)
  <2>1. Len(source) \in Nat /\ Len(source) >= 1 /\ Len(domains) \in Nat
    BY SourceIs, SeqFacts DEF Inv, StepsInv, DomainsInv
  <2> QED BY <2>1 DEF Inv, StepsInv
<1>2. ASSUME NEW i \in 1 .. Len(domains), ~Ahead(i),
             NEW t \in ToSet(domains[i].types \o domains[i].commands \o domains[i].events),
             NEW f \in ToSet(t.fields \o t.returns)
      PROVE  f.enum = <<>> /\ ~f.deprecated /\ (f.hidden \/ (f.typ = "" <=> f.ref # <<>>))
  <2>1. PICK d : d = domains[i]
    OBVIOUS
  <2>2. PICK s \in Seen : d = Fixed(Cleaned(s))
    BY <1>2, <2>1 DEF Inv, DomainsInv, Stage
  <2>3. s \in DomainSet /\ WellFormedDomain(s)
    BY SeenAre DEF Inv, StepsInv
  <2>4. DomainMade(s, d)
    BY <2>2, <2>3, FixedDomain
  <2>5. t \in ToSet(d.types) \cup ToSet(d.commands) \cup ToSet(d.events)
    BY <2>1, <2>4, DomainItems DEF DomainMade
  <2>6. (\E g : Becomes(g, t)) \/ NewFor(s, t)
    BY <2>4, <2>5 DEF DomainMade, TypesMade, ItemsMade
  <2>7. t \in ItemSet /\ FieldsDone(t)
    <3>1. CASE \E g : Becomes(g, t)
      BY <3>1 DEF Becomes
    <3>2. CASE NewFor(s, t)
      BY <3>2, NoElements DEF NewFor, Bare, FieldsDone
    <3> QED BY <2>6, <3>1, <3>2
  <2>8. f \in ToSet(t.fields) \cup ToSet(t.returns)
    <3>1. t.fields \in Seq(FieldSet) /\ t.returns \in Seq(FieldSet)
      BY <2>7 DEF ItemSet
    <3> QED BY <3>1, TypedConcat
  <2> QED BY <2>7, <2>8 DEF FieldsDone, MemberDone, TypeOrRef
<1>3. \A i \in 1 .. Len(domains) : step = "clean" \/ (step = "fix" /\ i >= at) \/
       \A t \in ToSet(domains[i].types \o domains[i].commands \o domains[i].events) :
         \A f \in ToSet(t.fields \o t.returns) :
           f.enum = <<>> /\ ~f.deprecated /\ (f.hidden \/ (f.typ = "" <=> f.ref # <<>>))
  BY <1>2 DEF Ahead
<1> QED BY <1>1, <1>3 DEF TypeOK

(* The steps come in their order, and what FixDomains is done with has      *)
(* members with a type or a reference, no enums of their own and nothing    *)
(* deprecated.                                                              *)
THEOREM TypeCorrect == Spec => []TypeOK
  BY InvHolds, InvTypeOK, PTL

-----------------------------------------------------------------------------
LEMMA InvPanicsOnDangling == Inv => PanicsOnDangling
<1> SUFFICES ASSUME Inv, step \in {"done", "panic"} PROVE step = "panic" <=> Unresolvable(source)
  BY UnresolvableApart DEF PanicsOnDangling
<1>1. step = "panic" => Unresolvable(source)
  BY DEF Inv, PanicsInv
<1>2. ASSUME step = "done" PROVE ~Unresolvable(source)
  <2>1. /\ WellFormed(source) /\ AllMade(source, domains)
        /\ (\A t \in ToSet(Shared) : ~Panics(t, "cdp")) /\ ~Panics(RootType, "cdproto")
        /\ \A i \in 1 .. Len(domains) : \A t \in ToSet(OwnItems(domains[i])) : ~Panics(t, domains[i].name)
    BY <1>2, DoneFacts
  <2>2. TargetId \in TypesThere(source)
    BY <2>1, RootPanics
  <2>3. \A t \in LiveItems(source) : IsShared(source, t) => ~Misses(t)
    BY <2>1, SharedPanics
  <2>4. \A t \in LiveItems(source) : ~IsShared(source, t) => ~Misses(t)
    BY <2>1, OwnPanics
  <2> QED BY <2>2, <2>3, <2>4, UnresolvableIs
<1> QED BY <1>1, <1>2

(* ResolveRef panics in a run over a protocol exactly when something in it  *)
(* that is not deprecated refers to what is not there, or a reference that  *)
(* the tool has written itself (Target.SessionID of the Message, an enum    *)
(* made a type, modifiers, nodeType, the members of Page.Frame) is in vain. *)
THEOREM PanicsWhenDangling == Spec => []PanicsOnDangling
  BY InvHolds, InvPanicsOnDangling, PTL

-----------------------------------------------------------------------------
(* What a use of a member names. *)
LEMMA UseIs ==
  ASSUME Inv, step = "done", NEW f, NEW d, ResolveRef(f.ref, d) # <<>>, NEW u, u = Use(f, d)
  PROVE  \E w \in TypesIn(domains) : /\ w = ResolveRef(f.ref, d)[1] /\ w \in ToSet(ResolveRef(f.ref, d))
                                     /\ u.field = f.name /\ u.pkg = GoPackage(w, d) /\ u.name = w.name
<1>1. PICK rs : rs = ResolveRef(f.ref, d)
  OBVIOUS
<1>2. PICK dom, r : dom = (IF r[1] = "" THEN d ELSE r[1]) /\ r = f.ref
  OBVIOUS
<1>3. rs \in Seq(ItemSet) /\ \A v : v \in ToSet(rs) => v \in TypesIn(domains)
  BY <1>1, <1>2, DoneFacts, ResolveAre
<1>4. Len(rs) >= 1
  BY <1>1, <1>3, TypedSeq, SeqFacts
<1>5. rs[1] \in ToSet(rs)
  BY <1>3, <1>4, TypedSeq
<1>6. u.field = f.name /\ u.pkg = GoPackage(rs[1], d) /\ u.name = rs[1].name
  BY <1>1 DEF Use, GoTypeName
<1> QED BY <1>1, <1>3, <1>5, <1>6

LEMMA InvCompiles == Inv => Compiles
<1> SUFFICES ASSUME Inv, step = "done", NEW x \in Declarations, NEW u \in x.decl.uses
             PROVE  DeclaredAs(u.pkg, u.name) # {}
  BY DEF Compiles
<1>1. PICK v, d : From(x, v, d)
  BY Origins
<1>2. PICK f \in Shown(v, d) : f.ref # <<>> /\ u = Use(f, d)
  BY <1>1 DEF From, Belongs
<1>3. ResolveRef(f.ref, d) # <<>>
  BY <1>1, <1>2, ShownResolves DEF From
<1>4. PICK w \in TypesIn(domains) : u.pkg = GoPackage(w, d) /\ u.name = w.name
  BY <1>2, <1>3, UseIs
<1>5. \E c \in DeclaredAs(GoPackage(w, d), w.name) : c.raw = w.raw
  BY TypeDeclared
<1> QED BY <1>4, <1>5

(* Each Go type that a declaration uses (ResolveType) is declared, in the   *)
(* package it is used from.                                                 *)
THEOREM UsesCompile == Spec => []Compiles
  BY InvHolds, InvCompiles, PTL

-----------------------------------------------------------------------------
(* Types are declared once. *)

(* The declaration at i in the file p is one of the type r.                *)
EntryOf(p, i, r) ==
  p \in DOMAIN files /\ i \in DOMAIN files[p] /\ files[p][i].raw = r /\ files[p][i].kind = "type"

(* The file p declares the types ts.                                       *)
Shelf(p, ts) ==
  \/ p = SharedPath /\ ts = Shared
  \/ \E m \in 1 .. Len(domains) : p = TypePath(domains[m]) /\ ts = OwnTypes(domains[m].types)

LEMMA ShelfDeclares ==
  ASSUME Inv, step = "done", NEW p, NEW ts, Shelf(p, ts), ts # <<>>
  PROVE  /\ ts \in Seq(ItemSet) /\ p \in DOMAIN files /\ DOMAIN files[p] = 1 .. Len(ts)
         /\ \A i \in 1 .. Len(ts) : files[p][i].raw = ts[i].raw /\ files[p][i].kind = ts[i].kind
         /\ \A i \in 1 .. Len(ts) : ts[i] \in TypesIn(domains)
         /\ \A i, j \in 1 .. Len(ts) : ts[i].raw = ts[j].raw => i = j
         /\ p = SharedPath => ts = Shared /\ \A i \in 1 .. Len(ts) : ts[i].circular
         /\ p # SharedPath => \A i \in 1 .. Len(ts) : ~ts[i].circular
<1>1. /\ WellFormed(source) /\ AllMade(source, domains)
      /\ Has(files, SharedPath, TypeDecls(Shared, "cdp"))
      /\ \A i \in 1 .. Len(domains) : domains[i] \in DomainSet
      /\ \A i \in 1 .. Len(domains) :
              HasDomain(files, domains[i], CommandFile(domains[i]), TypeFile(domains[i]), EventFile(domains[i]))
  BY DoneFacts
<1>2. ASSUME NEW e, ts \in Seq(ItemSet), Has(files, p, TypeDecls(ts, e))
      PROVE  /\ p \in DOMAIN files /\ DOMAIN files[p] = 1 .. Len(ts)
             /\ \A i \in 1 .. Len(ts) : files[p][i].raw = ts[i].raw /\ files[p][i].kind = ts[i].kind
  <2>1. PICK ds : ds = TypeDecls(ts, e)
    OBVIOUS
  <2>2. IsSeq(ds) /\ Len(ds) = Len(ts) /\ \A i \in 1 .. Len(ts) : ds[i] = TypeDecl(ts[i], e)
    BY <1>2, <2>1, DeclElements
  <2>3. p \in DOMAIN files /\ files[p] = ds
    BY <1>2, <2>1 DEF Has
  <2>4. DOMAIN ds = 1 .. Len(ts)
    BY <2>2, SeqFacts
  <2>5. \A i \in 1 .. Len(ts) : ds[i].raw = ts[i].raw /\ ds[i].kind = ts[i].kind
    BY <2>2, TypeDeclIs
  <2> QED BY <2>3, <2>4, <2>5
<1>3. CASE p = SharedPath /\ ts = Shared
  <2>1. /\ ts \in Seq(ItemSet) /\ \A v : v \in ToSet(ts) <=> v \in TypesIn(domains) /\ v.circular
        /\ \A k, l \in 1 .. Len(ts) : ts[k].raw = ts[l].raw => k = l
    BY <1>1, <1>3, SharedAre
  <2>2. Has(files, p, TypeDecls(ts, "cdp"))
    BY <1>1, <1>3
  <2>3. \A i \in 1 .. Len(ts) : ts[i] \in TypesIn(domains) /\ ts[i].circular
    BY <2>1, TypedSeq
  <2> QED BY <1>2, <1>3, <2>1, <2>2, <2>3
<1>4. ASSUME NEW m \in 1 .. Len(domains), p = TypePath(domains[m]), ts = OwnTypes(domains[m].types)
      PROVE  /\ ts \in Seq(ItemSet) /\ p \in DOMAIN files /\ DOMAIN files[p] = 1 .. Len(ts)
             /\ \A i \in 1 .. Len(ts) : files[p][i].raw = ts[i].raw /\ files[p][i].kind = ts[i].kind
             /\ \A i \in 1 .. Len(ts) : ts[i] \in TypesIn(domains)
             /\ \A i, j \in 1 .. Len(ts) : ts[i].raw = ts[j].raw => i = j
             /\ p # SharedPath
             /\ \A i \in 1 .. Len(ts) : ~ts[i].circular
  <2>1. PICK d, all : d = domains[m] /\ all = d.types
    OBVIOUS
  <2>2. d \in DomainSet /\ d.name \in DomainNames /\ all \in Seq(ItemSet)
    BY <1>1, <2>1 DEF DomainSet
  <2>3. \A i, k \in 1 .. Len(all) : all[i].raw = all[k].raw => i = k
    <3>1. PICK s \in LiveDomains(source) : DomainMade(s, d)
      BY <1>1, <2>1 DEF AllMade
    <3> QED BY <2>1, <3>1 DEF DomainMade, TypesMade
  <2>4. PICK I : I = {k \in 1 .. Len(all) : ~all[k].circular}
    OBVIOUS
  <2>5. ts = OwnTypes(all)
    BY <1>4, <2>1
  <2>6. /\ ts \in Seq(ItemSet) /\ \A v : v \in ToSet(ts) <=> v \in ToSet(all) /\ ~v.circular
        /\ Selection(ts, all, I)
    BY <2>2, <2>4, <2>5, OwnTypesAre
  <2>7. \A i, j \in 1 .. Len(ts) : ts[i].raw = ts[j].raw => i = j
    BY <2>2, <2>3, <2>6, DistinctPicks
  <2>8. \A i \in 1 .. Len(ts) : ts[i] \in ToSet(all) /\ ~ts[i].circular
    BY <2>6, TypedSeq
  <2>9. \A i \in 1 .. Len(ts) : ts[i] \in TypesIn(domains)
    BY <2>1, <2>8, InTypes
  <2>10. all # <<>>
    <3>1. PICK k \in 1 .. Len(ts) : TRUE
      <4>1. Len(ts) >= 1
        BY <2>6, TypedSeq, SeqFacts
      <4> QED BY <4>1
    <3> QED BY <2>8, <3>1, NoElements
  <2>11. Has(files, p, TypeDecls(ts, d.name))
    <3>1. TypeFile(d) = TypeDecls(ts, d.name)
      BY <2>1, <2>5 DEF TypeFile
    <3>2. HasDomain(files, d, CommandFile(d), TypeFile(d), EventFile(d))
      BY <1>1, <2>1
    <3>3. Has(files, TypePath(d), TypeFile(d))
      BY <2>1, <2>10, <3>2 DEF HasDomain
    <3> QED BY <1>4, <2>1, <3>1, <3>3
  <2>12. p # SharedPath
    BY <1>4, <2>1, <2>2 DEF TypePath, SharedPath, DomainNames
  <2> QED BY <1>2, <2>6, <2>7, <2>8, <2>9, <2>11, <2>12
<1> QED BY <1>3, <1>4 DEF Shelf

LEMMA EntryShelf ==
  ASSUME Inv, step = "done", NEW p, NEW i, NEW r \in TypesThere(source), EntryOf(p, i, r)
  PROVE  \E ts : Shelf(p, ts) /\ i \in 1 .. Len(ts) /\ ts[i].raw = r
<1>1. /\ WellFormed(source) /\ AllMade(source, domains) /\ AllSeqs(files)
      /\ Has(files, SharedPath, TypeDecls(Shared, "cdp")) /\ Has(files, RootPath, <<TypeDecl(RootType, "cdproto")>>)
      /\ \A m \in 1 .. Len(domains) : domains[m] \in DomainSet
      /\ \A m \in 1 .. Len(domains) :
              HasDomain(files, domains[m], CommandFile(domains[m]), TypeFile(domains[m]), EventFile(domains[m]))
      /\ \A q \in DOMAIN files : q = SharedPath \/ q = RootPath \/ \E m \in 1 .. Len(domains) : q \in Paths(domains[m])
  BY DoneFacts
<1>2. PICK c, cs : cs = files[p] /\ c = cs[i]
  OBVIOUS
<1>3. IsSeq(cs) /\ p \in DOMAIN files /\ i \in 1 .. Len(cs) /\ c \in ToSet(cs) /\ c.raw = r /\ c.kind = "type"
  <2>1. IsSeq(cs) /\ p \in DOMAIN files /\ i \in DOMAIN cs /\ c.raw = r /\ c.kind = "type"
    BY <1>1, <1>2 DEF EntryOf, AllSeqs
  <2> QED BY <1>2, <2>1, SeqFacts
<1>4. r[1] \in DomainNames
  <2>1. PICK v \in TypesIn(domains) : v.raw = r
    BY <1>1, TypesAre
  <2>2. v \in ItemSet
    BY <1>1, <2>1, TypesAre
  <2> QED BY <2>1, <2>2 DEF ItemSet
<1>5. ASSUME NEW ts \in Seq(ItemSet), NEW e, cs = TypeDecls(ts, e)
      PROVE  i \in 1 .. Len(ts) /\ ts[i].raw = r
  <2>1. Len(cs) = Len(ts) /\ cs[i] = TypeDecl(ts[i], e)
    BY <1>3, <1>5, DeclElements
  <2> QED BY <1>2, <1>3, <2>1, TypeDeclIs
<1>6. CASE p = SharedPath
  <2>1. PICK ts : ts = Shared
    OBVIOUS
  <2>2. ts \in Seq(ItemSet)
    BY <1>1, <2>1, SharedAre
  <2>3. cs = TypeDecls(ts, "cdp")
    BY <1>1, <1>2, <1>6, <2>1 DEF Has
  <2>4. Shelf(p, ts)
    BY <1>6, <2>1 DEF Shelf
  <2> QED BY <1>5, <2>2, <2>3, <2>4
<1>7. p # RootPath
  <2> SUFFICES ASSUME p = RootPath PROVE FALSE
    OBVIOUS
  <2>1. PICK k : k = TypeDecl(RootType, "cdproto")
    OBVIOUS
  <2>2. cs = <<k>>
    BY <1>1, <1>2, <2>1 DEF Has
  <2>3. c = k
    BY <1>3, <2>2, Single
  <2>4. r = RootType.raw
    BY <1>3, <2>1, <2>3, TypeDeclIs
  <2> QED BY <1>4, <2>4, RootIs DEF DomainNames
<1>8. ASSUME NEW m \in 1 .. Len(domains), p \in Paths(domains[m])
      PROVE  \E ts : Shelf(p, ts) /\ i \in 1 .. Len(ts) /\ ts[i].raw = r
  <2>1. PICK d : d = domains[m]
    OBVIOUS
  <2>2. d \in DomainSet /\ HasDomain(files, d, CommandFile(d), TypeFile(d), EventFile(d)) /\ d.types \in Seq(ItemSet)
    BY <1>1, <2>1 DEF DomainSet
  <2>3. \/ p = CommandPath(d)
        \/ p = TypePath(d) /\ d.types # <<>>
        \/ p = EventPath(d) /\ d.events # <<>>
    BY <1>8, <2>1 DEF Paths
  <2>4. CASE p = CommandPath(d)
    <3>1. c \in ToSet(CommandFile(d))
      BY <1>2, <1>3, <2>2, <2>4 DEF HasDomain, Has
    <3>2. PICK v \in ToSet(d.commands) : c \in ToSet(CommandDecls(v, d.name))
      BY <2>2, <3>1, FileElements
    <3>3. v.kind = "command" /\ ~v.array
      BY <1>1, <2>1, <3>2, KindsOfOne
    <3>4. Belongs(v, d.name, c)
      BY <3>2, <3>3, CommandBelongs
    <3> QED BY <1>3, <3>3, <3>4 DEF Belongs
  <2>5. CASE p = EventPath(d) /\ d.events # <<>>
    <3>1. c \in ToSet(EventFile(d))
      BY <1>2, <1>3, <2>2, <2>5 DEF HasDomain, Has
    <3>2. PICK v \in ToSet(d.events) : c = TypeDecl(v, d.name)
      BY <2>2, <3>1, FileElements
    <3>3. v.kind = "event"
      BY <1>1, <2>1, <3>2, KindsOfOne
    <3> QED BY <1>3, <3>2, <3>3, TypeDeclIs
  <2>6. CASE p = TypePath(d) /\ d.types # <<>>
    <3>1. PICK ts : ts = OwnTypes(d.types)
      OBVIOUS
    <3>2. ts \in Seq(ItemSet)
      BY <2>2, <3>1, OwnTypesAre
    <3>3. cs = TypeDecls(ts, d.name)
      BY <1>2, <2>2, <2>6, <3>1 DEF HasDomain, Has, TypeFile
    <3>4. Shelf(p, ts)
      BY <2>1, <2>6, <3>1 DEF Shelf
    <3> QED BY <1>5, <3>2, <3>3, <3>4
  <2> QED BY <2>3, <2>4, <2>5, <2>6
<1> QED BY <1>1, <1>3, <1>6, <1>7, <1>8

LEMMA EntryExists ==
  ASSUME Inv, step = "done", NEW r \in TypesThere(source)
  PROVE  \E p, i : EntryOf(p, i, r)
<1>1. /\ WellFormed(source) /\ AllMade(source, domains) /\ \A m \in 1 .. Len(domains) : domains[m] \in DomainSet
  BY DoneFacts
<1>2. PICK w : w \in TypesIn(domains) /\ w.raw = r
  BY <1>1, TypesAre
<1>3. w.kind = "type"
  BY <1>1, <1>2, TypesAre
<1>4. ASSUME NEW p, NEW ts, Shelf(p, ts), IsSeq(ts), w \in ToSet(ts)
      PROVE  \E i : EntryOf(p, i, r)
  <2>1. PICK i \in 1 .. Len(ts) : ts[i] = w
    BY <1>4, SeqFacts
  <2>2. ts # <<>>
    BY <1>4, NoElements
  <2>3. EntryOf(p, i, r)
    BY <1>2, <1>3, <1>4, <2>1, <2>2, ShelfDeclares DEF EntryOf
  <2> QED BY <2>3
<1>5. CASE w.circular
  <2>1. PICK p, ts : p = SharedPath /\ ts = Shared
    OBVIOUS
  <2>2. Shelf(p, ts)
    BY <2>1 DEF Shelf
  <2>3. ts \in Seq(ItemSet) /\ w \in ToSet(ts)
    BY <1>1, <1>2, <1>5, <2>1, SharedAre
  <2> QED BY <1>4, <2>2, <2>3, TypedSeq
<1>6. CASE ~w.circular
  <2>1. PICK m \in 1 .. Len(domains) : w \in ToSet(domains[m].types)
    BY <1>2, InTypes
  <2>2. PICK p, all, ts : p = TypePath(domains[m]) /\ all = domains[m].types /\ ts = OwnTypes(all)
    OBVIOUS
  <2>3. all \in Seq(ItemSet)
    BY <1>1, <2>1, <2>2 DEF DomainSet
  <2>4. Shelf(p, ts)
    BY <2>1, <2>2 DEF Shelf
  <2>5. ts \in Seq(ItemSet) /\ w \in ToSet(ts)
    BY <1>6, <2>1, <2>2, <2>3, OwnTypesAre
  <2> QED BY <1>4, <2>4, <2>5, TypedSeq
<1> QED BY <1>5, <1>6

LEMMA EntryPlace ==
  ASSUME Inv, step = "done", NEW r \in TypesThere(source), NEW p, NEW i, EntryOf(p, i, r), NEW q, NEW j, EntryOf(q, j, r)
  PROVE  /\ p = q /\ i = j
         /\ p[1] = IF r \in SharedThere(source) THEN "cdp" ELSE r[1]
<1>1. /\ WellFormed(source) /\ AllMade(source, domains) /\ \A m \in 1 .. Len(domains) : domains[m] \in DomainSet
  BY DoneFacts
<1>2. PICK ts : Shelf(p, ts) /\ i \in 1 .. Len(ts) /\ ts[i].raw = r
  BY EntryShelf
<1>3. PICK us : Shelf(q, us) /\ j \in 1 .. Len(us) /\ us[j].raw = r
  BY EntryShelf
<1>4. ts # <<>> /\ us # <<>>
  BY <1>2, <1>3
<1>5. PICK w : w = ts[i]
  OBVIOUS
<1>6. w \in TypesIn(domains) /\ us[j] \in TypesIn(domains)
  BY <1>2, <1>3, <1>4, <1>5, ShelfDeclares
<1>7. us[j] = w /\ w.raw = r
  BY <1>1, <1>2, <1>3, <1>5, <1>6, TypesAre
<1>8. w.circular <=> r \in SharedThere(source)
  BY <1>1, <1>6, <1>7, TypesAre
<1>9. w.circular <=> p = SharedPath
  BY <1>2, <1>4, <1>5, ShelfDeclares
<1>10. w.circular <=> q = SharedPath
  BY <1>3, <1>4, <1>7, ShelfDeclares
<1>11. CASE w.circular
  <2>1. p = q /\ ts = us
    BY <1>2, <1>3, <1>4, <1>9, <1>10, <1>11, ShelfDeclares
  <2>2. i = j
    BY <1>2, <1>3, <1>4, <2>1, ShelfDeclares
  <2> QED BY <1>8, <1>9, <1>11, <2>1, <2>2 DEF SharedPath
<1>12. CASE ~w.circular
  <2>1. PICK m \in 1 .. Len(domains) : p = TypePath(domains[m]) /\ ts = OwnTypes(domains[m].types)
    BY <1>2, <1>9, <1>12 DEF Shelf
  <2>2. PICK n \in 1 .. Len(domains) : q = TypePath(domains[n]) /\ us = OwnTypes(domains[n].types)
    BY <1>3, <1>10, <1>12 DEF Shelf
  <2>3. domains[m].name = r[1]
    <3>1. PICK all : all = domains[m].types
      OBVIOUS
    <3>2. all \in Seq(ItemSet) /\ ts = OwnTypes(all)
      BY <1>1, <2>1, <3>1 DEF DomainSet
    <3>3. ts \in Seq(ItemSet) /\ \A v : v \in ToSet(ts) => v \in ToSet(all)
      BY <3>2, OwnTypesAre
    <3>4. w \in ToSet(all)
      BY <1>2, <1>5, <3>3, TypedSeq
    <3> QED BY <1>1, <1>7, <3>1, <3>4, TypesAre
  <2>4. domains[n].name = r[1]
    <3>1. PICK all : all = domains[n].types
      OBVIOUS
    <3>2. all \in Seq(ItemSet) /\ us = OwnTypes(all)
      BY <1>1, <2>2, <3>1 DEF DomainSet
    <3>3. us \in Seq(ItemSet) /\ \A v : v \in ToSet(us) => v \in ToSet(all)
      BY <3>2, OwnTypesAre
    <3>4. w \in ToSet(all)
      BY <1>3, <1>7, <3>3, TypedSeq
    <3> QED BY <1>1, <1>7, <3>1, <3>4, TypesAre
  <2>5. m = n
    BY <1>1, <2>3, <2>4 DEF AllMade
  <2>6. p = q /\ ts = us
    BY <2>1, <2>2, <2>5
  <2>7. i = j
    BY <1>2, <1>3, <1>4, <2>6, ShelfDeclares
  <2>8. p[1] = r[1]
    BY <2>1, <2>3 DEF TypePath
  <2> QED BY <1>8, <1>12, <2>6, <2>7, <2>8
<1> QED BY <1>11, <1>12

LEMMA InvDeclaredOnce == Inv => DeclaredOnce
<1> SUFFICES ASSUME Inv, step = "done", NEW r \in TypesThere(source)
    PROVE  LET in(p) == {i \in DOMAIN files[p] : files[p][i].raw = r /\ files[p][i].kind = "type"}
               ds == UNION {{<<p, i>> : i \in in(p)} : p \in DOMAIN files}
           IN  /\ Cardinality(ds) = 1
               /\ \A x \in ds : x[1][1] = IF r \in SharedThere(source) THEN "cdp" ELSE r[1]
  BY DEF DeclaredOnce
<1> DEFINE in(p) == {i \in DOMAIN files[p] : files[p][i].raw = r /\ files[p][i].kind = "type"}
           ds == UNION {{<<p, i>> : i \in in(p)} : p \in DOMAIN files}
<1>1. \A x : x \in ds <=> \E p, i : EntryOf(p, i, r) /\ x = <<p, i>>
  BY DEF EntryOf
<1> HIDE DEF ds
<1>2. PICK p, i : EntryOf(p, i, r)
  BY EntryExists
<1>3. PICK y : y = <<p, i>>
  OBVIOUS
<1>4. \A q, j : EntryOf(q, j, r) => q = p /\ j = i
  BY <1>2, EntryPlace
<1>5. \A x : x \in ds <=> x = y
  BY <1>1, <1>2, <1>3, <1>4
<1>6. ds = {y}
  BY <1>5
<1>7. Cardinality(ds) = 1
  BY <1>6, FS_Singleton
<1>8. \A x \in ds : x[1][1] = IF r \in SharedThere(source) THEN "cdp" ELSE r[1]
  <2>1. p[1] = IF r \in SharedThere(source) THEN "cdp" ELSE r[1]
    BY <1>2, EntryPlace
  <2> QED BY <1>3, <1>5, <2>1
<1> QED BY <1>7, <1>8 DEF ds

(* Each type of the protocol, added or made of enums also, is declared once *)
(* in all files, in the shared package or in that of its domain             *)
(* (generateSharedTypes, generateTypes).                                    *)
THEOREM TypesDeclaredOnce == Spec => []DeclaredOnce
  BY InvHolds, InvDeclaredOnce, PTL

-----------------------------------------------------------------------------
(* What the declarations use. *)

Using(v, u) == \E y \in Declarations : y.decl.raw = v.raw /\ u \in y.decl.uses

LEMMA UsingEntry ==
  ASSUME Inv, step = "done", NEW v, NEW u, NEW p \in DOMAIN files, NEW c \in ToSet(files[p]),
         c.raw = v.raw, u \in c.uses
  PROVE  Using(v, u)
<1>1. PICK y : y = Entry(p, c)
  OBVIOUS
<1>2. y \in Declarations /\ y.decl = c
  BY <1>1, DeclarationsAre, EntryIs
<1> QED BY <1>2 DEF Using

(* Only commands return something. *)
LEMMA ReturnsOf ==
  ASSUME Inv, step = "done", NEW v \in TypesIn(domains)
  PROVE  v.returns = <<>>
<1>1. WellFormed(source) /\ AllMade(source, domains) /\ v.kind = "type"
  BY DoneFacts, TypesAre
<1>2. (\E t \in LiveTypes(source) : Becomes(t, v)) \/ Inert(v)
  BY <1>1, TypeOrigins
<1>3. ASSUME NEW t \in LiveTypes(source), Becomes(t, v) PROVE v.returns = <<>>
  <2>1. t.kind = "type" /\ WellFormedItem(t)
    BY <1>1, ItemFacts DEF LiveTypes
  <2> QED BY <1>3, <2>1 DEF WellFormedItem, Becomes
<1> QED BY <1>2, <1>3 DEF Inert

LEMMA UseIn ==
  ASSUME NEW fs, NEW x \in ToSet(fs), ~x.hidden, x.ref # <<>>, NEW d
  PROVE  Use(x, d) \in UsesOf(fs, d)
  BY DEF UsesOf

LEMMA UsesDeclared ==
  ASSUME Inv, step = "done", NEW v, NEW d, Placed(v, d), v # RootType,
         NEW x \in Shown(v, d), x.ref # <<>>, NEW u, u = Use(x, d)
  PROVE  Using(v, u)
<1>1. /\ WellFormed(source) /\ AllMade(source, domains)
      /\ Has(files, SharedPath, TypeDecls(Shared, "cdp"))
      /\ \A i \in 1 .. Len(domains) : domains[i] \in DomainSet
      /\ \A i \in 1 .. Len(domains) :
              HasDomain(files, domains[i], CommandFile(domains[i]), TypeFile(domains[i]), EventFile(domains[i]))
  BY DoneFacts
<1>2. PICK fs, rs : fs = StructFields(v, d) /\ rs = v.returns
  OBVIOUS
<1>3. ~x.hidden /\ (x \in ToSet(fs) \/ x \in ToSet(rs))
  BY <1>2 DEF Shown
<1>4. (x \in ToSet(fs) => u \in UsesOf(fs, d)) /\ (x \in ToSet(rs) => u \in UsesOf(rs, d))
  BY <1>3, UseIn
<1>5. ASSUME rs = <<>>, NEW p, p \in DOMAIN files, TypeDecl(v, d) \in ToSet(files[p])
      PROVE  Using(v, u)
  <2>1. PICK c : c = TypeDecl(v, d)
    OBVIOUS
  <2>2. c.raw = v.raw /\ c.uses = UsesOf(fs, d)
    BY <1>2, <2>1, TypeDeclIs
  <2>3. x \in ToSet(fs)
    BY <1>3, <1>5, NoElements
  <2>4. u \in c.uses
    BY <1>4, <2>2, <2>3
  <2> QED BY <1>5, <2>1, <2>2, <2>4, UsingEntry
<1>6. CASE v \in ToSet(Shared) /\ d = "cdp"
  <2>1. v \in TypesIn(domains)
    BY <1>1, <1>6, SharedAre
  <2>2. rs = <<>>
    BY <1>2, <2>1, ReturnsOf
  <2>3. TypeDecl(v, d) \in ToSet(TypeDecls(Shared, "cdp"))
    BY <1>1, <1>6, SharedElements
  <2>4. SharedPath \in DOMAIN files /\ files[SharedPath] = TypeDecls(Shared, "cdp")
    BY <1>1 DEF Has
  <2>5. TypeDecl(v, d) \in ToSet(files[SharedPath])
    BY <2>3, <2>4, Zenon
  <2> QED BY <1>5, <2>2, <2>4, <2>5
<1>7. ASSUME NEW i \in 1 .. Len(domains), v \in ToSet(OwnItems(domains[i])), d = domains[i].name
      PROVE  Using(v, u)
  <2>1. PICK e : e = domains[i]
    OBVIOUS
  <2>2. /\ e \in DomainSet /\ HasDomain(files, e, CommandFile(e), TypeFile(e), EventFile(e)) /\ e.name = d
    BY <1>1, <1>7, <2>1
  <2>3. v \in ToSet(e.commands) \/ (v \in ToSet(e.types) /\ ~v.circular) \/ (v \in ToSet(e.events) /\ ~v.circular)
    BY <1>7, <2>1, <2>2, OwnItemsAre
  <2>4. CASE v \in ToSet(e.types) /\ ~v.circular
    <3>1. rs = <<>>
      BY <1>1, <1>2, <2>1, <2>4, KindsOfOne, ReturnsOf
    <3>2. TypeDecl(v, d) \in ToSet(TypeFile(e))
      BY <2>2, <2>4, FileElements
    <3>3. Has(files, TypePath(e), TypeFile(e))
      BY <2>2, <2>4, NoElements DEF HasDomain
    <3>4. TypePath(e) \in DOMAIN files /\ TypeDecl(v, d) \in ToSet(files[TypePath(e)])
      BY <3>2, <3>3, Zenon DEF Has
    <3> QED BY <1>5, <3>1, <3>4
  <2>5. CASE v \in ToSet(e.events) /\ ~v.circular
    <3>1. rs = <<>>
      BY <1>1, <1>2, <2>1, <2>5, KindsOfOne
    <3>2. TypeDecl(v, d) \in ToSet(EventFile(e))
      BY <2>2, <2>5, FileElements
    <3>3. Has(files, EventPath(e), EventFile(e))
      BY <2>2, <2>5, NoElements DEF HasDomain
    <3>4. EventPath(e) \in DOMAIN files /\ TypeDecl(v, d) \in ToSet(files[EventPath(e)])
      BY <3>2, <3>3, Zenon DEF Has
    <3> QED BY <1>5, <3>1, <3>4
  <2>6. CASE v \in ToSet(e.commands)
    <3>1. v.kind = "command" /\ ~v.array
      BY <1>1, <2>1, <2>6, KindsOfOne
    <3>2. v.fields = fs
      BY <1>2, <3>1 DEF StructFields
    <3>3. PICK c : \/ x \in ToSet(fs) /\ c = ParamsDecl(v, d)
                   \/ x \in ToSet(rs) /\ c = ReturnsDecl(v, d)
      BY <1>3
    <3>4. c \in ToSet(CommandDecls(v, d))
      BY <1>2, <3>3, CommandDeclsAre, NoElements
    <3>5. PICK n : (x \in ToSet(fs) /\ c = Declare(v, n, fs, d)) \/ (x \in ToSet(rs) /\ c = Declare(v, n, rs, d))
      BY <1>2, <3>2, <3>3 DEF ParamsDecl, ReturnsDecl
    <3>6. c.raw = v.raw /\ u \in c.uses
      BY <1>4, <3>5, DeclareIs
    <3>7. c \in ToSet(CommandFile(e))
      BY <2>2, <2>6, <3>4, FileElements
    <3>8. Has(files, CommandPath(e), CommandFile(e))
      BY <2>2 DEF HasDomain
    <3>9. CommandPath(e) \in DOMAIN files /\ c \in ToSet(files[CommandPath(e)])
      BY <3>7, <3>8, Zenon DEF Has
    <3> QED BY <3>6, <3>9, UsingEntry
  <2> QED BY <2>3, <2>4, <2>5, <2>6
<1> QED BY <1>6, <1>7 DEF Placed

(* Each item is generated where the reader looks for it.                   *)
LEMMA PlacedAtHome ==
  ASSUME Inv, step = "done", NEW t \in LiveItems(source)
  PROVE  \E v : Becomes(t, v) /\ Placed(v, Where(t)) /\ v # RootType
<1>1. WellFormed(source) /\ AllMade(source, domains)
  BY DoneFacts
<1>2. PICK v : Becomes(t, v) /\ Placed(v, Where(t))
  <2>1. CASE IsShared(source, t)
    <3>1. PICK v \in ToSet(Shared) : Becomes(t, v)
      BY <1>1, <2>1, Homes
    <3>2. Where(t) = "cdp"
      BY <2>1 DEF Where
    <3>3. Placed(v, Where(t))
      BY <3>1, <3>2 DEF Placed
    <3> QED BY <3>1, <3>3
  <2>2. CASE ~IsShared(source, t)
    <3>1. PICK i \in 1 .. Len(domains) :
              domains[i].name = t.raw[1] /\ \E v \in ToSet(OwnItems(domains[i])) : Becomes(t, v)
      BY <1>1, <2>2, Homes
    <3>2. PICK v \in ToSet(OwnItems(domains[i])) : Becomes(t, v)
      BY <3>1
    <3>3. Where(t) = domains[i].name
      BY <2>2, <3>1 DEF Where
    <3>4. Placed(v, Where(t))
      BY <3>2, <3>3 DEF Placed
    <3> QED BY <3>2, <3>4
  <2> QED BY <2>1, <2>2
<1>3. v.raw[1] \in DomainNames
  BY <1>1, <1>2, ItemFacts DEF Becomes, ItemSet
<1>4. v # RootType
  BY <1>3, RootIs DEF DomainNames
<1> QED BY <1>2, <1>4

(* A reference to what is there means it, and nothing else.                *)
LEMMA TargetIsMeant ==
  ASSUME WellFormed(source), NEW t, NEW ref, Meaning(t, ref) \in TypesThere(source), NEW r \in Targets(source, t, ref)
  PROVE  r = Meaning(t, ref)
<1>1. CASE IsShared(source, t) /\ ref[1] = ""
  <2>1. r \in SharedThere(source) /\ r[2] = ref[2] /\ t.raw \in SharedThere(source)
    BY <1>1 DEF Targets, IsShared
  <2>2. PICK q : q = Meaning(t, ref)
    OBVIOUS
  <2>3. q[1] = t.raw[1] /\ q[2] = ref[2]
    BY <1>1, <2>2 DEF Meaning
  <2> QED BY <2>1, <2>2, <2>3, SharedNames
<1>2. CASE ~(IsShared(source, t) /\ ref[1] = "")
  BY <1>2 DEF Targets
<1> QED BY <1>1, <1>2

LEMMA InvRefersAsWritten == Inv => RefersAsWritten
<1> SUFFICES ASSUME Inv, step = "done", NEW t \in LiveItems(source), ~t.array, NEW f \in Members(t), LookedUp(t, f) # <<>>,
                    Meaning(t, LookedUp(t, f)) \in TypesThere(source)
    PROVE \E x \in Declarations : \E u \in x.decl.uses :
          /\ x.decl.raw = t.raw /\ u.field = f.name
          /\ \E e \in DeclaredAs(u.pkg, u.name) : e.raw = Meaning(t, LookedUp(t, f))
  <2>1. ASSUME NEW t, NEW f, IsModifiers(f) => t.raw[1] = "Input", Named(t, f) # <<>>
        PROVE  LookedUp(t, f) # <<>> /\ Meaning(t, LookedUp(t, f)) = Meaning(t, Named(t, f))
    <3>1. CASE IsModifiers(f)
      BY <2>1, <3>1 DEF LookedUp, Named, Meaning, IsModifiers, Extracted
    <3>2. CASE ~IsModifiers(f)
      BY <2>1, <3>2 DEF LookedUp
    <3> QED BY <3>1, <3>2
  <2> QED BY <2>1 DEF RefersAsWritten
<1>1. WellFormed(source) /\ AllMade(source, domains) /\ t \in ItemSet
  BY DoneFacts, ItemFacts
<1>2. PICK v, d : d = Where(t) /\ Becomes(t, v) /\ Placed(v, d) /\ v # RootType
  BY PlacedAtHome
<1>3. PICK fs : fs = StructFields(v, d)
  OBVIOUS
<1>4. ShownOf(Shown(v, d), t)
  BY <1>1, <1>2, <1>3, ObjectShows
<1>5. PICK x \in Shown(v, d) : x.name = f.name /\ x.ref = LookedUp(t, f)
  BY <1>4 DEF ShownOf
<1>6. PICK ref : ref = LookedUp(t, f)
  OBVIOUS
<1>7. ref \in References /\ ref # <<>> /\ x.ref = ref
  BY <1>1, <1>5, <1>6, NamedRefs
<1>8. ResolveRef(ref, d) # <<>>
  BY <1>2, <1>5, <1>7, ShownResolves
<1>9. PICK u, rs : u = Use(x, d) /\ rs = ResolveRef(ref, d)
  OBVIOUS
<1>10. PICK w \in TypesIn(domains) : w \in ToSet(rs) /\ u.field = f.name /\ u.pkg = GoPackage(w, d) /\ u.name = w.name
  BY <1>5, <1>7, <1>8, <1>9, UseIs
<1>11. w.raw \in Targets(source, t, ref)
  BY <1>1, <1>2, <1>7, <1>9, <1>10, ResolvesAsMeant
<1>12. w.raw = Meaning(t, LookedUp(t, f))
  BY <1>1, <1>6, <1>11, TargetIsMeant
<1>13. \E e \in DeclaredAs(u.pkg, u.name) : e.raw = Meaning(t, LookedUp(t, f))
  BY <1>10, <1>12, TypeDeclared
<1>14. Using(v, u)
  BY <1>2, <1>5, <1>7, <1>9, UsesDeclared
<1>15. v.raw = t.raw
  BY <1>2 DEF Becomes
<1> QED BY <1>10, <1>13, <1>14, <1>15 DEF Using

(* Each member of a command, event or type that is no array uses, in Go,    *)
(* the type that the protocol names there, through the moves of fixup.go    *)
(* and the lookup by name of ResolveRef.                                    *)
THEOREM ReferencesKept == Spec => []RefersAsWritten
  BY InvHolds, InvRefersAsWritten, PTL

-----------------------------------------------------------------------------
LEMMA InvSharedImportsNothing == Inv => SharedImportsNothing
<1> SUFFICES ASSUME Inv, step = "done",
                    \A t \in LiveItems(source) : IsShared(source, t) =>
                      \A ref \in Asked(source, t) : Meaning(t, ref) \in SharedThere(source),
                    NEW x \in Declarations, x.path[1] = "cdp", NEW u \in x.decl.uses
             PROVE  u.pkg = "cdp"
  BY DEF SharedImportsNothing
<1>1. WellFormed(source) /\ AllMade(source, domains) /\ \A i \in 1 .. Len(domains) : domains[i] \in DomainSet
  BY DoneFacts
<1>2. PICK v, d : From(x, v, d)
  BY Origins
<1>3. d = "cdp" /\ v \in ToSet(Shared)
  <2>1. d = "cdp" /\ Placed(v, d)
    BY <1>2 DEF From
  <2>2. \A i \in 1 .. Len(domains) : domains[i].name # "cdp"
    BY <1>1 DEF DomainSet, DomainNames
  <2> QED BY <2>1, <2>2 DEF Placed
<1>4. PICK f \in Shown(v, d) : f.ref # <<>> /\ u = Use(f, d)
  BY <1>2 DEF From, Belongs
<1>5. ~Inert(v)
  BY <1>4, InertShows
<1>6. PICK t \in LiveItems(source) : Becomes(t, v) /\ IsShared(source, t) /\ Where(t) = "cdp"
  BY <1>1, <1>3, <1>5, SharedAtHome
<1>7. PICK fs, ref, rs : fs = StructFields(v, d) /\ ref = f.ref /\ rs = ResolveRef(ref, d)
  OBVIOUS
<1>8. Resolves(v.ref, d)
  <2>1. ~Panics(v, d)
    BY <1>3, DoneFacts
  <2> QED BY <2>1 DEF Panics
<1>9. ref \in Asked(source, t)
  BY <1>1, <1>3, <1>4, <1>6, <1>7, <1>8, RefsAre
<1>10. ref \in References /\ ref # <<>> /\ t \in ItemSet
  BY <1>1, <1>9, RefsTyped, ItemFacts
<1>11. rs # <<>>
  BY <1>2, <1>4, <1>7, ShownResolves DEF From
<1>12. PICK w \in TypesIn(domains) : w \in ToSet(rs) /\ u.pkg = GoPackage(w, d)
  BY <1>4, <1>7, <1>11, UseIs
<1>13. w.raw \in Targets(source, t, ref)
  BY <1>1, <1>3, <1>6, <1>7, <1>10, <1>12, ResolvesAsMeant
<1>14. Meaning(t, ref) \in SharedThere(source)
  BY <1>6, <1>9
<1>15. w.raw \in SharedThere(source)
  BY <1>1, <1>13, <1>14, SharedIsThere, TargetIsMeant
<1>16. w.circular
  BY <1>1, <1>12, <1>15, TypesAre
<1> QED BY <1>12, <1>16 DEF GoPackage

(* The shared package uses types of its own only, when the shared types of  *)
(* the protocol (pdl/dep.go) refer to each other only.                      *)
THEOREM SharedImportsNothingElse == Spec => []SharedImportsNothing
  BY InvHolds, InvSharedImportsNothing, PTL

-----------------------------------------------------------------------------
LEMMA InvEnumsWhole == Inv => EnumsWhole
<1> SUFFICES ASSUME Inv, step = "done", NEW e \in Enums(source)
             PROVE  \E t \in ToSet(TypesOf(e.raw[1])) :
                      /\ t.raw = e.raw
                      /\ ToSet(t.enum[1]) = ValuesOf(source, e.raw)
                      /\ Len(t.enum[1]) = Cardinality(ValuesOf(source, e.raw))
  BY DEF EnumsWhole
<1>1. WellFormed(source) /\ AllMade(source, domains)
  BY DoneFacts
<1>2. PICK v \in TypesIn(domains) : v.raw = e.raw /\ v.enum # <<>> /\ Once(v.enum[1])
  BY <1>1, TypesAre
<1>3. PICK vs, dom : dom = e.raw[1] /\ vs = TypesOf(dom)
  OBVIOUS
<1>4. v \in ToSet(vs)
  BY <1>1, <1>2, <1>3, TypesOfAre
<1>5. Values(v) = ValuesOf(source, e.raw)
  BY <1>1, <1>2, ValuesAre
<1>6. v.enum \in EnumValues
  BY <1>1, <1>2, TypesAre DEF ItemSet
<1>7. PICK s : s = v.enum[1]
  OBVIOUS
<1>8. IsSeq(s)
  <2>1. v.enum \in Seq(Names) /\ Len(v.enum) >= 1
    BY <1>2, <1>6, TypedSeq, SeqFacts DEF EnumValues
  <2>2. s \in Names
    BY <1>7, <2>1
  <2> QED BY <2>2, AnySeq DEF Names
<1>9. ToSet(s) = ValuesOf(source, e.raw)
  BY <1>2, <1>5, <1>7 DEF Values
<1>10. Cardinality(ToSet(s)) = Len(s)
  BY <1>2, <1>7, <1>8, LengthOfDistinct DEF Once
<1> QED BY <1>2, <1>3, <1>4, <1>7, <1>9, <1>10

(* A type made of enums (addEnumValues) has each value of every member that *)
(* gave one, and of the type that was there, once.                          *)
THEOREM EnumsAreWhole == Spec => []EnumsWhole
  BY InvHolds, InvEnumsWhole, PTL

===============================================================================
