------------------------------ MODULE PDLParse ------------------------------
(***************************************************************************)
(* pdl.Parse (pdl/pdl.go): one pass over the lines of a PDL file, with a   *)
(* handful of pointers saying where the next line belongs.                 *)
(*                                                                         *)
(* A line is a record; its class is the first of the regular expressions   *)
(* that it matches.  Names, comment texts and enum literals are opaque     *)
(* values.  A nil pointer is an empty sequence, a pointer into the         *)
(* document is the path to what it points at.  A section line that is      *)
(* repeated drops the members its list had: enumliterals is Detached when   *)
(* it points into one of them.                                             *)
(***************************************************************************)
EXTENDS Naturals, Sequences

CONSTANTS
  CircularDeps,  \* circularDeps: pairs <<domain, type>>
  Instead        \* Instead[t] = n for the comment texts t that say "Use 'D.n' instead"

(* redirectCommentRE, ^Use '([^']+)' instead$, does not match an empty text. *)
ASSUME ParseConstants == "" \notin DOMAIN Instead

VARIABLES
  doc,           \* pdl
  domain,        \* <<index>> of the domain being filled
  item,          \* <<domain, list, index>> of a type, command or event
  subitems,      \* <<domain, list, index, field>>
  enumliterals,  \* path of an item, or of a member (its list and an index), or Detached
  desc,          \* comment lines gathered so far
  clearDesc,
  copyright,
  outcome        \* "reading", or how Parse stopped: "error" or "panic"

parser == <<doc, domain, item, subitems, enumliterals, desc, clearDesc, copyright, outcome>>

-----------------------------------------------------------------------------
Items == {"type", "command", "event"}
Sections == {"parameters", "returns", "properties"}
Primitives ==
  {"any", "array", "binary", "boolean", "integer", "number", "object", "string"}

Detached == <<0>>

EmptyDoc == [copyright |-> <<>>, version |-> <<>>, domains |-> <<>>]

ParseInit ==
  /\ doc = EmptyDoc
  /\ domain = <<>>
  /\ item = <<>> /\ subitems = <<>> /\ enumliterals = <<>>
  /\ desc = <<>> /\ clearDesc = FALSE /\ copyright = FALSE
  /\ outcome = "reading"

(* A new call of Parse. *)
ParseRestart ==
  /\ doc' = EmptyDoc
  /\ domain' = <<>>
  /\ item' = <<>> /\ subitems' = <<>> /\ enumliterals' = <<>>
  /\ desc' = <<>> /\ clearDesc' = FALSE /\ copyright' = FALSE
  /\ outcome' = "reading"

(* assignType: what a type expression says about the Type it is given to. *)
Scalar(typ) ==
  LET t == IF typ = "enum" THEN "string" ELSE typ
  IN  IF t \in Primitives THEN [type |-> t, ref |-> ""] ELSE [type |-> "", ref |-> t]

Assigned(typ, isArray) ==
  IF isArray
    THEN [type |-> "array", ref |-> "", items |-> <<Scalar(typ)>>]
    ELSE [type |-> Scalar(typ).type, ref |-> Scalar(typ).ref, items |-> <<>>]

Untyped == [type |-> "", ref |-> "", items |-> <<>>]

IsCircularDep(dtyp, typ) == <<dtyp, typ>> \in CircularDeps

(* strings.TrimSpace(desc): the comments without text that end it go. *)
LastText(d) == CHOOSE n \in 0 .. Len(d) :
  /\ n > 0 => d[n] # ""
  /\ \A i \in n + 1 .. Len(d) : d[i] = ""

TrimSpace(d) == SubSeq(d, 1, LastText(d))

NewType(dtyp, l, typ, d) ==
  [name |-> l.name, flags |-> l.flags, circular |-> IsCircularDep(dtyp, l.name),
   desc |-> TrimSpace(d), typ |-> typ, redirect |-> <<>>, enum |-> <<>>,
   parameters |-> <<>>, returns |-> <<>>, properties |-> <<>>]

NewDomain(l, d) ==
  [name |-> l.name, flags |-> l.flags, desc |-> TrimSpace(d), dependencies |-> <<>>,
   types |-> <<>>, commands |-> <<>>, events |-> <<>>]

-----------------------------------------------------------------------------
(* What every line does first.  The description is kept over comments only; *)
(* the first line that is no comment ends the copyright.                    *)

Desc == IF clearDesc THEN <<>> ELSE desc

Doc == IF copyright THEN doc ELSE [doc EXCEPT !.copyright = Desc]

NotAComment == desc' = Desc /\ clearDesc' = TRUE /\ copyright' = TRUE

ReadComment(l) ==
  /\ l.class = "comment"
  /\ desc' = IF Desc = <<>> /\ l.text = "" THEN <<>> ELSE Append(Desc, l.text)
  /\ clearDesc' = FALSE
  /\ UNCHANGED <<doc, domain, item, subitems, enumliterals, copyright, outcome>>

ReadBlank(l) ==
  /\ l.class = "blank"
  /\ NotAComment
  /\ doc' = Doc
  /\ UNCHANGED <<domain, item, subitems, enumliterals, outcome>>

(* Faulty variant of ReadDomain: a new domain drops the current item. *)
ReadDomainDropsItem(l) ==
  /\ l.class = "domain"
  /\ NotAComment
  /\ doc' = [Doc EXCEPT !.domains = Append(@, NewDomain(l, Desc))]
  /\ domain' = <<Len(doc.domains) + 1>>
  /\ item' = <<>>
  /\ UNCHANGED <<subitems, enumliterals, outcome>>

ReadDomain(l) ==
  /\ l.class = "domain"
  /\ NotAComment
  /\ doc' = [Doc EXCEPT !.domains = Append(@, NewDomain(l, Desc))]
  /\ domain' = <<Len(doc.domains) + 1>>
  /\ UNCHANGED <<item, subitems, enumliterals, outcome>>

ReadDepends(l) ==
  /\ l.class = "depends" /\ domain # <<>>
  /\ NotAComment
  /\ doc' = [Doc EXCEPT !.domains[domain[1]].dependencies = Append(@, l.name)]
  /\ UNCHANGED <<domain, item, subitems, enumliterals, outcome>>

ListOf == [type |-> "types", command |-> "commands", event |-> "events"]

(* A type, command or event.  subitems and enumliterals keep pointing into *)
(* the previous one.                                                        *)
ReadItem(l) ==
  /\ l.class \in Items /\ domain # <<>>
  /\ NotAComment
  /\ LET list == ListOf[l.class]
         typ == IF l.class = "type" THEN Assigned(l.typ, l.array) ELSE Untyped
     IN  /\ doc' = [Doc EXCEPT !.domains[domain[1]][list] =
                      Append(@, NewType(Doc.domains[domain[1]].name, l, typ, Desc))]
         /\ item' = <<domain[1], list, Len(doc.domains[domain[1]][list]) + 1>>
  /\ UNCHANGED <<domain, subitems, enumliterals, outcome>>

(* Faulty variant of ReadMember: the literals of an enum member go where    *)
(* literals went before.                                                    *)
ReadMemberKeepsLiterals(l) ==
  /\ l.class = "member" /\ domain # <<>> /\ subitems # <<>>
  /\ NotAComment
  /\ LET s == subitems
         param == NewType(Doc.domains[domain[1]].name, l, Assigned(l.typ, l.array), Desc)
     IN  /\ doc' = [Doc EXCEPT !.domains[s[1]][s[2]][s[3]][s[4]] = Append(@, param)]
         /\ enumliterals' = IF l.typ = "enum" /\ enumliterals = <<>>
                              THEN Append(s, Len(doc.domains[s[1]][s[2]][s[3]][s[4]]) + 1)
                              ELSE enumliterals
  /\ UNCHANGED <<domain, item, subitems, outcome>>

ReadMember(l) ==
  /\ l.class = "member" /\ domain # <<>> /\ subitems # <<>>
  /\ NotAComment
  /\ LET members == doc.domains[subitems[1]][subitems[2]][subitems[3]][subitems[4]]
         param == NewType(Doc.domains[domain[1]].name, l, Assigned(l.typ, l.array), Desc)
     IN  /\ doc' = [Doc EXCEPT !.domains[subitems[1]][subitems[2]][subitems[3]][subitems[4]] =
                      Append(@, param)]
         /\ enumliterals' =
              IF l.typ = "enum"
                THEN <<subitems[1], subitems[2], subitems[3], subitems[4], Len(members) + 1>>
                ELSE enumliterals
  /\ UNCHANGED <<domain, item, subitems, outcome>>

(* Faulty variant of ReadSection: enumliterals is an index into a list that *)
(* is cut and filled again.                                                 *)
ReadSectionReused(l) ==
  /\ l.class \in Sections /\ item # <<>>
  /\ NotAComment
  /\ doc' = [Doc EXCEPT !.domains[item[1]][item[2]][item[3]][l.class] = <<>>]
  /\ subitems' = <<item[1], item[2], item[3], l.class>>
  /\ UNCHANGED <<domain, item, enumliterals, outcome>>

(* Whether p is the path of a member of a list, whose path is q. *)
MemberIn(p, q) == Len(p) = 5 /\ <<p[1], p[2], p[3], p[4]>> = q

(* parameters, returns, properties: a new list, empty.  A member of the     *)
(* list it replaces is kept by enumliterals, where it points there.         *)
ReadSection(l) ==
  /\ l.class \in Sections /\ item # <<>>
  /\ NotAComment
  /\ doc' = [Doc EXCEPT !.domains[item[1]][item[2]][item[3]][l.class] = <<>>]
  /\ subitems' = <<item[1], item[2], item[3], l.class>>
  /\ enumliterals' = IF MemberIn(enumliterals, subitems') THEN Detached ELSE enumliterals
  /\ UNCHANGED <<domain, item, outcome>>

(* Faulty variant of ReadEnum: enumliterals is left as it was. *)
ReadEnumOnly(l) ==
  /\ l.class = "enum" /\ item # <<>>
  /\ NotAComment
  /\ doc' = [Doc EXCEPT !.domains[item[1]][item[2]][item[3]].enum = <<>>]
  /\ UNCHANGED <<domain, item, subitems, enumliterals, outcome>>

ReadEnum(l) ==
  /\ l.class = "enum" /\ item # <<>>
  /\ NotAComment
  /\ doc' = [Doc EXCEPT !.domains[item[1]][item[2]][item[3]].enum = <<>>]
  /\ enumliterals' = item
  /\ UNCHANGED <<domain, item, subitems, outcome>>

ReadVersion(l) ==
  /\ l.class = "version"
  /\ NotAComment
  /\ doc' = [Doc EXCEPT !.version = <<0, 0>>]
  /\ UNCHANGED <<domain, item, subitems, enumliterals, outcome>>

ReadMajorMinor(l) ==
  /\ l.class \in {"major", "minor"} /\ doc.version # <<>>
  /\ NotAComment
  /\ doc' = [Doc EXCEPT !.version =
               IF l.class = "major" THEN <<l.number, @[2]>> ELSE <<@[1], l.number>>]
  /\ UNCHANGED <<domain, item, subitems, enumliterals, outcome>>

(* Where a description says what to use instead: the name after the last dot. *)
NamedInstead(d) == IF Len(d) = 1 /\ d[1] \in DOMAIN Instead THEN Instead[d[1]] ELSE ""

ReadRedirect(l) ==
  /\ l.class = "redirect" /\ item # <<>>
  /\ NotAComment
  /\ doc' = [Doc EXCEPT !.domains[item[1]][item[2]][item[3]].redirect =
               <<l.name, NamedInstead(Desc)>>]
  /\ UNCHANGED <<domain, item, subitems, enumliterals, outcome>>

ReadLiteral(l) ==
  /\ l.class = "literal" /\ enumliterals # <<>>
  /\ NotAComment
  /\ LET e == enumliterals
     IN  doc' = IF e = Detached THEN Doc
                ELSE IF Len(e) = 3
                  THEN [Doc EXCEPT !.domains[e[1]][e[2]][e[3]].enum = Append(@, l.value)]
                  ELSE [Doc EXCEPT !.domains[e[1]][e[2]][e[3]][e[4]][e[5]].enum =
                          Append(@, l.value)]
  /\ UNCHANGED <<domain, item, subitems, enumliterals, outcome>>

(* A line that matches no expression: the error return. *)
ReadUnknown(l) ==
  /\ l.class = "unknown"
  /\ outcome' = "error"
  /\ NotAComment
  /\ doc' = Doc
  /\ UNCHANGED <<domain, item, subitems, enumliterals>>

(* The pointers a line goes through, none of which the code tests for nil. *)
NilPointer(l) ==
  \/ l.class \in {"depends", "member"} \cup Items /\ domain = <<>>
  \/ l.class = "member" /\ subitems = <<>>
  \/ l.class \in {"enum", "redirect"} \cup Sections /\ item = <<>>
  \/ l.class \in {"major", "minor"} /\ doc.version = <<>>
  \/ l.class = "literal" /\ enumliterals = <<>>

ReadNil(l) ==
  /\ NilPointer(l)
  /\ outcome' = "panic"
  /\ NotAComment
  /\ doc' = Doc
  /\ UNCHANGED <<domain, item, subitems, enumliterals>>

(* One line of the loop of Parse. *)
ReadLine(l) ==
  /\ outcome = "reading"
  /\ \/ ReadComment(l) \/ ReadBlank(l)
     \/ ReadDomain(l) \/ ReadDepends(l) \/ ReadItem(l)
     \/ ReadMember(l) \/ ReadSection(l) \/ ReadEnum(l)
     \/ ReadVersion(l) \/ ReadMajorMinor(l)
     \/ ReadRedirect(l) \/ ReadLiteral(l)
     \/ ReadUnknown(l) \/ ReadNil(l)

=============================================================================
