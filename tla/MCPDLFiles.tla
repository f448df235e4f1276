----------------------------- MODULE MCPDLFiles -----------------------------
(* Samples of PDLFiles for TLC: sets of lines that are interesting together. *)
EXTENDS PDLFiles

DomainLine(n, flags) == [class |-> "domain", name |-> n, flags |-> flags]
ItemLine(c, n) == [class |-> c, name |-> n, flags |-> {}]
TypeDecl(n, typ, array) ==
  [class |-> "type", name |-> n, flags |-> {}, typ |-> typ, array |-> array]
Member(n, typ, array, flags) ==
  [class |-> "member", name |-> n, flags |-> flags, typ |-> typ, array |-> array]
Comment(t) == [class |-> "comment", text |-> t]
Plain(c) == [class |-> c]
Literal(v) == [class |-> "literal", value |-> v]

Circular == {<<1, 2>>}

(* Sections, members and enums of all kinds of items in two domains.       *)
Structure ==
  {DomainLine(1, {}), DomainLine(2, {"experimental"}),
   TypeDecl(1, "object", FALSE), ItemLine("command", 2), ItemLine("event", 3),
   Plain("properties"), Plain("parameters"), Plain("returns"), Plain("enum"),
   Member(2, "Other.Ref", TRUE, {"optional"}), Member(1, "enum", FALSE, {}), Literal("a")}

(* What Bytes writes: every kind of item and member once.                  *)
Written ==
  {DomainLine(1, {}), [class |-> "depends", name |-> 2],
   TypeDecl(1, "integer", TRUE), ItemLine("command", 2), ItemLine("event", 3),
   Plain("properties"), Plain("parameters"), Plain("returns"), Plain("enum"),
   Member(2, "Other.Ref", TRUE, {"optional"}), Member(1, "enum", FALSE, {}), Literal("a")}

(* Comments around everything that keeps a description or not.             *)
UseInstead == [t \in {"use 7"} |-> "seven"]
Comments ==
  {Comment("a"), Comment(""), Comment("use 7"), Plain("blank"),
   Plain("version"), DomainLine(1, {}), ItemLine("command", 2), ItemLine("event", 1),
   [class |-> "redirect", name |-> 2], Plain("parameters"),
   Member(1, "string", FALSE, {"deprecated"})}

(* Files with versions, with copyrights and with domains, to combine.       *)
Versions ==
  {Plain("version"), [class |-> "major", number |-> 1], [class |-> "major", number |-> 2],
   [class |-> "minor", number |-> 1], [class |-> "minor", number |-> 3]}

Copyrights ==
  {Comment("a"), Comment("b"), Plain("version"), DomainLine(1, {}), DomainLine(2, {"deprecated"})}

Domains ==
  {Comment("a"), DomainLine(1, {}), DomainLine(2, {"deprecated"}), DomainLine(3, {"experimental"})}

(* One line of each kind, for files in any order.  The member is declared  *)
(* as a bare array, which Bytes does not survive.                          *)
OneOfEach ==
  {Comment("a"), Plain("version"), [class |-> "major", number |-> 1],
   DomainLine(1, {}), [class |-> "depends", name |-> 2],
   TypeDecl(1, "object", FALSE), ItemLine("command", 2), ItemLine("event", 3),
   [class |-> "redirect", name |-> 2], Plain("properties"), Plain("parameters"),
   Plain("enum"), Member(1, "array", FALSE, {}), Member(1, "enum", FALSE, {}), Literal("a"),
   Plain("unknown")}

(* Sections that start again, with members that are enums and that are not. *)
Repeated ==
  {DomainLine(1, {}), ItemLine("command", 2), Plain("parameters"),
   Member(1, "enum", FALSE, {}), Member(2, "integer", FALSE, {}), Literal("a")}

(* A member whose type is an array of enum.                                *)
EnumArrays ==
  {DomainLine(1, {}), ItemLine("command", 2), Plain("parameters"),
   Member(1, "enum", TRUE, {}), Literal("a")}

Sample(ls, count, size) == [lines |-> ls, files |-> count, length |-> size]

(* Structure is only parsed; Written and Comments are also written and      *)
(* parsed again, Versions, Copyrights and Domains as two files combined.    *)
FilesOfAllKinds ==
  {Sample(Structure, 0, 7), Sample(Written, 1, 6), Sample(Comments, 1, 5),
   Sample(Versions, 2, 6), Sample(Copyrights, 2, 5), Sample(Domains, 2, 5)}

AnyOrder == {Sample(OneOfEach, 1, 5), Sample(Repeated, 0, 7)}
EnumArray == {Sample(EnumArrays, 1, 5)}

=============================================================================
