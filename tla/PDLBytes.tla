------------------------------ MODULE PDLBytes ------------------------------
(***************************************************************************)
(* pdl.Combine and PDL.Bytes (pdl/pdl.go): several documents become one,   *)
(* and a document becomes lines again.  Documents and lines are those of   *)
(* PDLParse.                                                               *)
(***************************************************************************)
EXTENDS PDLParse, SequencesExt

-----------------------------------------------------------------------------
(* Combine. *)

(* Faulty variant of NewerVersion: the comparison of majors is reversed. *)
OlderVersion(v, w) ==
  IF w = <<>> THEN v
  ELSE IF v[1] > w[1] \/ v = <<0, 0>> THEN w
  ELSE IF v[2] < w[2] THEN <<v[1], w[2]>>
  ELSE v

(* The version Combine keeps when it has v (never nil) and meets w. *)
NewerVersion(v, w) ==
  IF w = <<>> THEN v
  ELSE IF v[1] < w[1] THEN w
  ELSE IF v[2] < w[2] THEN <<v[1], w[2]>>
  ELSE v

Merged(p, q) ==
  [copyright |-> IF p.copyright = <<>> THEN q.copyright ELSE p.copyright,
   version |-> NewerVersion(IF p.version = <<>> THEN <<0, 0>> ELSE p.version, q.version),
   domains |-> p.domains \o q.domains]

Combine(pdls) ==
  LET upTo[n \in 0 .. Len(pdls)] ==
        IF n = 0 THEN EmptyDoc ELSE Merged(upTo[n - 1], pdls[n])
  IN  upTo[Len(pdls)]

-----------------------------------------------------------------------------
(* sort.Slice: any permutation in which no element is less than one before *)
(* it; the sort is not stable.                                             *)

Permuted(s) == {[i \in 1 .. Len(s) |-> s[f[i]]] : f \in Bijection(1 .. Len(s), 1 .. Len(s))}

Sorted(s, Less(_, _)) ==
  {t \in Permuted(s) : \A i, j \in 1 .. Len(t) : i < j => ~Less(t[j], t[i])}

(* Faulty variant of ByDomain: its operands are swapped. *)
ByDomainSwapped(d, e) == e.name < d.name

ByDomain(d, e) == d.name < e.name

(* The comparisons of types, commands and events look at one element twice: *)
(* strings.Compare(types[i].Name, types[i].Name) < 0.                       *)
ByName(t, u) == t.name < t.name

(* A domain with its lists in an order that Bytes may write them in. *)
WithLists(d, ts, cs, es) == [d EXCEPT !.types = ts, !.commands = cs, !.events = es]

Rearranged(d) ==
  {WithLists(d, ts, cs, es) : ts \in Sorted(d.types, ByName),
                              cs \in Sorted(d.commands, ByName),
                              es \in Sorted(d.events, ByName)}

-----------------------------------------------------------------------------
(* The lines of each part. *)

Blank == <<[class |-> "blank"]>>

DescLines(d) == [i \in 1 .. Len(d) |-> [class |-> "comment", text |-> d[i]]]

LiteralLines(e) == [i \in 1 .. Len(e) |-> [class |-> "literal", value |-> e[i]]]

(* Faulty variant of RedirectLines: the name to use instead is not written. *)
RedirectLinesUnnamed(t, isType) ==
  IF t.redirect = <<>> THEN <<>>
  ELSE <<IF isType THEN [class |-> "unknown"] ELSE [class |-> "redirect", name |-> t.redirect[1]]>>

(* writeRedirect.  In front of a type it is called with an indent of two   *)
(* spaces, of which redirectRE wants four: that line matches no expression. *)
RedirectLines(t, isType) ==
  IF t.redirect = <<>> THEN <<>>
  ELSE (IF t.redirect[2] = "" THEN <<>>
        ELSE DescLines(<<CHOOSE x \in DOMAIN Instead : Instead[x] = t.redirect[2]>>))
       \o <<IF isType THEN [class |-> "unknown"]
                      ELSE [class |-> "redirect", name |-> t.redirect[1]]>>

TypeName(typ) == IF typ.ref # "" THEN typ.ref ELSE typ.type

(* A member's line: enum, in place of what it is, when it has literals. *)
MemberLine(p) ==
  LET isArray == p.typ.type = "array" /\ p.enum = <<>>
  IN  [class |-> "member", name |-> p.name, flags |-> p.flags, array |-> isArray,
       typ |-> IF p.enum # <<>> THEN "enum"
               ELSE IF isArray THEN TypeName(p.typ.items[1])
               ELSE TypeName(p.typ)]

MemberLines(p) == DescLines(p.desc) \o <<MemberLine(p)>> \o LiteralLines(p.enum)

(* writeProps. *)
PropLines(section, props) ==
  IF props = <<>> THEN <<>>
  ELSE <<[class |-> section]>> \o FlattenSeq([i \in 1 .. Len(props) |-> MemberLines(props[i])])

(* Faulty variant of TypeLine: the type of array elements is not looked up. *)
TypeLineOfArray(t) ==
  LET extends == IF t.typ.type = "array" THEN "" ELSE t.typ.type
  IN  IF extends = "" THEN [class |-> "unknown"]
      ELSE [class |-> "type", name |-> t.name, flags |-> t.flags, typ |-> extends, array |-> FALSE]

(* A type's line.  The name of a reference is not written, and a line that *)
(* ends after "extends" matches no expression.                             *)
TypeLine(t) ==
  LET isArray == t.typ.type = "array"
      extends == IF ~isArray THEN t.typ.type
                 ELSE IF t.typ.items = <<>> THEN "array"
                 ELSE TypeName(t.typ.items[1])
  IN  IF extends = "" THEN [class |-> "unknown"]
      ELSE [class |-> "type", name |-> t.name, flags |-> t.flags,
            typ |-> extends, array |-> isArray]

TypeLines(t) ==
  DescLines(t.desc) \o <<TypeLine(t)>> \o RedirectLines(t, TRUE)
    \o (IF t.enum = <<>> THEN <<>> ELSE <<[class |-> "enum"]>> \o LiteralLines(t.enum))
    \o PropLines("properties", t.properties) \o Blank

CommandLines(c) ==
  DescLines(c.desc) \o <<[class |-> "command", name |-> c.name, flags |-> c.flags]>>
    \o RedirectLines(c, FALSE)
    \o PropLines("parameters", c.parameters) \o PropLines("returns", c.returns) \o Blank

EventLines(e) ==
  DescLines(e.desc) \o <<[class |-> "event", name |-> e.name, flags |-> e.flags]>>
    \o RedirectLines(e, FALSE) \o PropLines("parameters", e.parameters) \o Blank

DomainLines(d) ==
  DescLines(d.desc) \o <<[class |-> "domain", name |-> d.name, flags |-> d.flags]>>
    \o [i \in 1 .. Len(d.dependencies) |-> [class |-> "depends", name |-> d.dependencies[i]]]
    \o Blank
    \o FlattenSeq([i \in 1 .. Len(d.types) |-> TypeLines(d.types[i])])
    \o FlattenSeq([i \in 1 .. Len(d.commands) |-> CommandLines(d.commands[i])])
    \o FlattenSeq([i \in 1 .. Len(d.events) |-> EventLines(d.events[i])])

HeaderLines(d) ==
  (IF d.copyright = <<>> THEN <<>> ELSE DescLines(d.copyright) \o Blank)
    \o (IF d.version = <<>> THEN <<>>
        ELSE <<[class |-> "version"],
               [class |-> "major", number |-> d.version[1]],
               [class |-> "minor", number |-> d.version[2]]>> \o Blank)

(* p.Items.Ref of a member declared as a bare array: items is nil. *)
BareArray(p) == p.typ.type = "array" /\ p.typ.items = <<>>

(* What Bytes may write for document d. *)
Bytes(d) ==
  {HeaderLines(d) \o FlattenSeq([i \in 1 .. Len(ds) |-> DomainLines(ds[i])]) :
     ds \in UNION {{r \in [1 .. Len(s) -> UNION {Rearranged(s[i]) : i \in 1 .. Len(s)}] :
                      \A i \in 1 .. Len(s) : r[i] \in Rearranged(s[i])}
                   : s \in Sorted(d.domains, ByDomain)}}

=============================================================================
