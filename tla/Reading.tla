------------------------------ MODULE Reading ------------------------------
(***************************************************************************)
(* What a protocol says to its readers, whatever the tool does with it:    *)
(* which types there are, which of them are shared, and what each member   *)
(* refers to once the corrections of FixDomains are made.  A protocol p is *)
(* a sequence of domains.                                                  *)
(***************************************************************************)
EXTENDS Fixup, FiniteSets

LiveDomains(p) == {d \in ToSet(p) : ~d.deprecated}
LiveItems(p) ==
  {t \in UNION {ToSet(d.types \o d.commands \o d.events) : d \in LiveDomains(p)} : Live(t)}
LiveTypes(p) == {t \in LiveItems(p) : t.kind = "type"}

(* An item with the corrections to particular domains. *)
AsFixed(t) ==
  CASE t.kind = "type" -> Changed(t) [] t.kind = "event" -> ChangedEvent(t) [] OTHER -> t

Members(t) ==
  {f \in ToSet(AsFixed(t).fields \o AsFixed(t).returns) : ~f.deprecated /\ ~f.hidden}

(* The enums that become types: the item, its member, the name of the type. *)
Enums(p) ==
  UNION {{[raw |-> <<t.raw[1], EnumName(AsFixed(t), f)>>, field |-> f] : f \in {g \in Members(t) : Extracted(g)}} :
           t \in LiveItems(p)}

IsModifiers(f) == ~f.array /\ f.enum = <<>> /\ f.name = <<"modifiers">>
IsNodeType(f) == ~f.array /\ f.enum = <<>> /\ f.name = <<"node", "Type">>

(* What the member f of t refers to, as a reference, or <<>>.  FixDomains   *)
(* promises Input.Modifier for modifiers (fixup.go:17).                     *)
Named(t, f) ==
  IF Extracted(f) THEN <<"", EnumName(AsFixed(t), f)>>
  ELSE IF IsModifiers(f) THEN <<"Input", <<"Modifier">>>>
  ELSE IF IsNodeType(f) THEN <<"DOM", NodeType>>
  ELSE f.ref

(* What the tool makes of it: the Modifier of the domain the member is in.  *)
LookedUp(t, f) == IF IsModifiers(f) THEN <<"", <<"Modifier">>>> ELSE Named(t, f)

(* References that FixDomains writes, in place of a type or of another one. *)
Rewritten(t, f) ==
  \/ Extracted(f) \/ IsModifiers(f) \/ IsNodeType(f)
  \/ t.raw = <<"Page", <<"Frame">>>> /\ f.name \in {<<"id">>, <<"parent", "Id">>}
  \/ t.raw = <<"Inspector", <<"detached">>>> /\ f.name = <<"reason">>

(* The types that are there as such, and those that come from enums.       *)
Given(p) == LiveTypes(p) \cup UNION {ToSet(Added(d.name)) : d \in LiveDomains(p)}
GivenNames(p) == {t.raw : t \in Given(p)}
TypesThere(p) == GivenNames(p) \cup {e.raw : e \in Enums(p)}

SharedThere(p) ==
  {t.raw : t \in {u \in Given(p) : u.circular}}
    \cup {e.raw : e \in {x \in Enums(p) : x.field.circular /\ x.raw \notin GivenNames(p)}}

IsShared(p, t) == t.kind = "type" /\ t.raw \in SharedThere(p)

Meaning(t, ref) == <<IF ref[1] = "" THEN t.raw[1] ELSE ref[1], ref[2]>>

(* What the reference may be resolved to: of a shared type, a plain one is *)
(* a name of any shared type.                                              *)
Targets(p, t, ref) ==
  IF IsShared(p, t) /\ ref[1] = "" THEN {r \in SharedThere(p) : r[2] = ref[2]}
  ELSE {Meaning(t, ref)} \cap TypesThere(p)

(* The items whose members the Go definition of t has: an array type is    *)
(* defined by what the struct of its items holds.                           *)
Holders(p, t) ==
  IF t.array THEN {v \in LiveTypes(p) : t.ref # <<>> /\ v.raw \in Targets(p, t, t.ref)} ELSE {t}

(* The references that the tool has to resolve to define t.                 *)
Asked(p, t) ==
  ((IF t.array THEN {t.ref} ELSE {})
     \cup UNION {{LookedUp(u, f) : f \in Members(u)} : u \in Holders(p, t)}) \ {<<>>}

(* The values of the type r: its own, and those of the enums that join it. *)
ValuesOf(p, r) ==
  UNION ({ToSet(e.field.enum[1]) : e \in {e \in Enums(p) : e.raw = r}}
         \cup {ToSet(t.enum[1]) : t \in {t \in Given(p) : t.raw = r /\ t.enum # <<>>}})

-----------------------------------------------------------------------------
(* The protocols that the tool is made for. *)

EnumValues == {e \in Seq(Names) : Len(e) <= 1}
References == {<<>>} \cup ((Words \ {"cdp"}) \X Names)

(* Domains are packages and name files: none has the name of another one.  *)
DomainNames == Words \ {"cdp", "cdproto", "types", "events"}

FieldSet ==
  [name : Names, typ : Words, array : BOOLEAN, ref : References, enum : EnumValues,
   deprecated : BOOLEAN, hidden : BOOLEAN, circular : BOOLEAN]

ItemSet ==
  [raw : DomainNames \X Names, kind : {"type", "command", "event"}, name : Names,
   typ : Words, array : BOOLEAN, ref : References, enum : EnumValues, circular : BOOLEAN,
   deprecated : BOOLEAN, redirect : BOOLEAN, fields : Seq(FieldSet), returns : Seq(FieldSet)]

DomainSet ==
  [name : DomainNames, deprecated : BOOLEAN,
   types : Seq(ItemSet), commands : Seq(ItemSet), events : Seq(ItemSet)]

(* Members have a type or a reference; only types are arrays, refer to     *)
(* something themselves, as arrays, or lack members, when they are no       *)
(* objects; only commands return something.                                 *)
WellFormedItem(t) ==
  /\ \A f \in ToSet(t.fields \o t.returns) : ~f.hidden /\ (f.typ = "" <=> f.ref # <<>>)
  /\ IF t.array THEN t.kind = "type" ELSE t.ref = <<>>
  /\ t.kind = "type" /\ ~t.array /\ AsFixed(t).typ # "object" => t.fields = <<>>
  /\ t.kind # "command" => t.returns = <<>>
  /\ t.kind = "event" => ~t.circular

(* The items of a domain are its own, each of its kind; its types have     *)
(* names of their own, also with those that FixDomains adds, and members    *)
(* whose enums make one type agree on whether they are shared.              *)
WellFormedDomain(d) ==
  /\ \A t \in ToSet(d.types) : t.kind = "type"
  /\ \A t \in ToSet(d.commands) : t.kind = "command"
  /\ \A t \in ToSet(d.events) : t.kind = "event"
  /\ \A t \in ToSet(d.types \o d.commands \o d.events) : t.raw[1] = d.name /\ WellFormedItem(t)
  /\ LET ts == d.types \o Added(d.name)
     IN  \A i, j \in 1 .. Len(ts) : ts[i].raw = ts[j].raw => i = j
  /\ \A t, u \in ToSet(d.types \o d.commands \o d.events) : \A f \in Members(t), g \in Members(u) :
       Extracted(f) /\ Extracted(g) /\ EnumName(AsFixed(t), f) = EnumName(AsFixed(u), g) =>
         f.circular = g.circular

(* The short name of a shared type is that of no other type of a domain    *)
(* with shared types (pdl/dep.go).  No array type has array items: the     *)
(* recursion of GoTypeDef (gotpl/util.go:220) is left out of Generate.     *)
WellFormed(p) ==
  /\ p \in Seq(DomainSet) /\ p # <<>>
  /\ \A i, j \in 1 .. Len(p) : p[i].name = p[j].name => i = j
  /\ \A d \in ToSet(p) : WellFormedDomain(d)
  /\ \A r, s \in SharedThere(p) : \A q \in TypesThere(p) : s[1] = q[1] /\ q[2] = r[2] => q = r
  /\ \A t \in LiveTypes(p) : t.array /\ t.ref # <<>> =>
       \A u \in LiveTypes(p) : u.raw \in Targets(p, t, t.ref) => ~u.array

=============================================================================
