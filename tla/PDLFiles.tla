------------------------------ MODULE PDLFiles ------------------------------
(***************************************************************************)
(* The life of the protocol definition files in cdproto-gen: each file is  *)
(* parsed, the documents are combined and written as one file              *)
(* (CombineBytes, run), and that file is parsed in its turn, as the -pdl   *)
(* flag of a later run has it.                                             *)
(*                                                                         *)
(* The files are written by the environment, one grammatical line after    *)
(* another: `open' holds the classes of line that may come next.           *)
(***************************************************************************)
EXTENDS PDLBytes, Lists

CONSTANTS
  Samples,  \* sets of lines to make files of, each with the number of files
            \* and of lines that bound the behaviours it is used in
  Ordered   \* whether the files follow the grammar

VARIABLES
  phase,  \* "files" while the files are read, "combined" afterwards
  files,  \* the files read in full, as sequences of lines
  pdls,   \* the documents they gave
  read,   \* the lines read of the current file
  open,   \* the classes of line the grammar allows next
  input   \* the lines still to be read of the combined file

vars == <<parser, phase, files, pdls, read, open, input>>

-----------------------------------------------------------------------------
(* The grammar of the files. *)

Anywhere == {"comment", "blank", "domain"}

Follows(l) ==
  CASE l.class = "version" -> {"major", "minor"}
    [] l.class = "domain" -> {"depends"} \cup Items
    [] l.class = "type" -> {"redirect", "enum", "properties"} \cup Items
    [] l.class = "command" -> {"redirect", "parameters", "returns"} \cup Items
    [] l.class = "event" -> {"redirect", "parameters"} \cup Items
    [] l.class \in Sections -> (open \ {l.class, "redirect", "enum", "literal"}) \cup {"member"}
    [] l.class = "enum" -> (open \ {"enum", "redirect", "member"}) \cup {"literal"}
    [] l.class = "redirect" -> open \ {"redirect"}
    [] l.class = "member" -> IF l.typ = "enum" THEN open \cup {"literal"} ELSE open \ {"literal"}
    [] OTHER -> open

Grammatical(l) == l.class \in Anywhere \cup open

(* Names of domains are ordered, like numbers.                              *)
ASSUME FilesConstants ==
  /\ Ordered \in BOOLEAN
  /\ \A s \in Samples : s.files \in Nat /\ s.length \in Nat
  /\ \A s \in Samples : \A l \in s.lines :
       /\ l.class = "domain" => l.name \in Nat
       /\ l.class \in {"major", "minor"} => l.number \in Nat

LinesRead == FlattenSeq(files) \o read

(* The samples that the files read so far may have been made of. *)
SamplesLeft == {s \in Samples : Range(LinesRead) \subseteq s.lines}

-----------------------------------------------------------------------------
Init ==
  /\ ParseInit
  /\ phase = "files"
  /\ files = <<>> /\ pdls = <<>> /\ read = <<>>
  /\ open = {"version"}
  /\ input = <<>>

(* Parse reads the next line of a definition file. *)
ReadFile ==
  /\ phase = "files"
  /\ \E s \in SamplesLeft : \E l \in s.lines :
       /\ Len(LinesRead) < s.length
       /\ Ordered => Grammatical(l)
       /\ ReadLine(l)
       /\ read' = Append(read, l)
       /\ open' = Follows(l)
  /\ UNCHANGED <<phase, files, pdls, input>>

(* The end of a file: Parse returns, and is called for the next one. *)
EndOfFile ==
  /\ phase = "files" /\ outcome = "reading"
  /\ read # <<>>
  /\ \E s \in SamplesLeft : Len(files) < s.files
  /\ files' = Append(files, read)
  /\ pdls' = Append(pdls, doc)
  /\ read' = <<>>
  /\ open' = {"version"}
  /\ ParseRestart
  /\ UNCHANGED <<phase, input>>

(* The lists of members that Bytes writes of each kind of item. *)
Listed ==
  [types |-> {"properties"}, commands |-> {"parameters", "returns"}, events |-> {"parameters"}]

HasBareArray(d) ==
  \E i \in 1 .. Len(d.domains) : \E list \in DOMAIN Listed :
    \E j \in 1 .. Len(d.domains[i][list]) : \E f \in Listed[list] :
      \E k \in 1 .. Len(d.domains[i][list][j][f]) : BareArray(d.domains[i][list][j][f][k])

(* All files are read: Combine(pdls...).Bytes(). *)
CombineBytes ==
  /\ phase = "files" /\ read = <<>> /\ files # <<>>
  /\ phase' = "combined"
  /\ IF HasBareArray(Combine(pdls))
       THEN /\ outcome' = "panic"
            /\ UNCHANGED <<doc, domain, item, subitems, enumliterals, desc, clearDesc, copyright,
                           input>>
       ELSE input' \in Bytes(Combine(pdls)) /\ ParseRestart
  /\ UNCHANGED <<files, pdls, read, open>>

(* Parse reads the next line of the combined file. *)
ReadCombined ==
  /\ phase = "combined" /\ input # <<>>
  /\ ReadLine(Head(input))
  /\ input' = Tail(input)
  /\ UNCHANGED <<phase, files, pdls, read, open>>

Next == ReadFile \/ EndOfFile \/ CombineBytes \/ ReadCombined

Spec == Init /\ [][Next]_vars

-----------------------------------------------------------------------------
(* What a file means, without a parser: each line belongs to the nearest   *)
(* line above it that can own it.                                          *)

Latest(ls, j, Can(_)) ==
  LET above == {i \in 1 .. j - 1 : Can(ls[i])}
  IN  IF above = {} THEN 0 ELSE CHOOSE i \in above : \A k \in above : k <= i

(* The values of a function of some lines of ls, in the order of the lines. *)
Each(ls, f) ==
  LET lines == Picked([i \in 1 .. Len(ls) |-> i], DOMAIN f)
  IN  [k \in 1 .. Len(lines) |-> f[lines[k]]]

(* The comments directly above a line, from the first that has a text.      *)
CommentsAbove(ls, j) ==
  LET top == Latest(ls, j, LAMBDA l : l.class # "comment")
      texts == [i \in 1 .. j - 1 - top |-> ls[top + i].text]
      start == {i \in 1 .. Len(texts) : texts[i] # ""}
  IN  IF start = {} THEN <<>>
      ELSE SubSeq(texts, CHOOSE i \in start : \A k \in start : i <= k, Len(texts))

IsDomain(l) == l.class = "domain"
IsItem(l) == l.class \in Items
IsSection(l) == l.class \in Sections
OwnsLiterals(l) == l.class = "enum" \/ (l.class = "member" /\ l.typ = "enum")

DomainOf(ls, j) == Latest(ls, j, IsDomain)
ItemOf(ls, j) == Latest(ls, j, IsItem)
SectionOf(ls, j) == Latest(ls, j, IsSection)
OwnerOf(ls, j) == Latest(ls, j, OwnsLiterals)

(* The lines of a class, and those of them below a domain or an item.       *)
AllOf(ls, class) == {j \in 1 .. Len(ls) : ls[j].class = class}
InDomain(ls, class, d) == {j \in AllOf(ls, class) : DomainOf(ls, j) = d}
InItem(ls, class, it) == {j \in AllOf(ls, class) : ItemOf(ls, j) = it}
InSection(ls, it, section) ==
  {j \in InItem(ls, "member", it) : ls[SectionOf(ls, j)].class = section}

TypeOf(l) == IF l.class = "type" THEN Assigned(l.typ, l.array) ELSE Untyped

LiteralsOf(ls, o) ==
  Each(ls, [j \in {i \in AllOf(ls, "literal") : OwnerOf(ls, i) = o} |-> ls[j].value])

MeaningOfMember(ls, j) ==
  [NewType(ls[DomainOf(ls, j)].name, ls[j], Assigned(ls[j].typ, ls[j].array),
           CommentsAbove(ls, j)) EXCEPT !.enum = LiteralsOf(ls, j)]

MembersOf(ls, it, section) ==
  Each(ls, [j \in InSection(ls, it, section) |-> MeaningOfMember(ls, j)])

EnumOf(ls, it) ==
  LET enum == InItem(ls, "enum", it)
  IN  IF enum = {} THEN <<>> ELSE LiteralsOf(ls, CHOOSE j \in enum : TRUE)

RedirectOf(ls, it) ==
  LET redirects == InItem(ls, "redirect", it)
      redirect == CHOOSE j \in redirects : TRUE
  IN  IF redirects = {} THEN <<>>
      ELSE <<ls[redirect].name, NamedInstead(CommentsAbove(ls, redirect))>>

MeaningOfItem(ls, it) ==
  [NewType(ls[DomainOf(ls, it)].name, ls[it], TypeOf(ls[it]), CommentsAbove(ls, it)) EXCEPT
     !.enum = EnumOf(ls, it),
     !.redirect = RedirectOf(ls, it),
     !.parameters = MembersOf(ls, it, "parameters"),
     !.returns = MembersOf(ls, it, "returns"),
     !.properties = MembersOf(ls, it, "properties")]

ItemsOf(ls, d, class) == Each(ls, [j \in InDomain(ls, class, d) |-> MeaningOfItem(ls, j)])

MeaningOfDomain(ls, d) ==
  [NewDomain(ls[d], CommentsAbove(ls, d)) EXCEPT
     !.dependencies = Each(ls, [j \in InDomain(ls, "depends", d) |-> ls[j].name]),
     !.types = ItemsOf(ls, d, "type"),
     !.commands = ItemsOf(ls, d, "command"),
     !.events = ItemsOf(ls, d, "event")]

NumberOf(ls, class) ==
  LET last == Latest(ls, Len(ls) + 1, LAMBDA l : l.class = class)
  IN  IF last = 0 THEN 0 ELSE ls[last].number

Meaning(ls) ==
  LET head == {j \in 1 .. Len(ls) : ls[j].class # "comment"}
  IN  [copyright |-> IF head = {} THEN <<>>
                     ELSE CommentsAbove(ls, CHOOSE j \in head : \A k \in head : j <= k),
       version |-> IF AllOf(ls, "version") = {} THEN <<>>
                   ELSE <<NumberOf(ls, "major"), NumberOf(ls, "minor")>>,
       domains |-> Each(ls, [j \in AllOf(ls, "domain") |-> MeaningOfDomain(ls, j)])]

(* Documents that differ in the order of domains, types, commands, events. *)
Unordered(d) ==
  [e \in DOMAIN d |-> IF e \in {"types", "commands", "events"} THEN ToBag(d[e]) ELSE d[e]]

SameUpToOrder(p, q) ==
  /\ p.copyright = q.copyright
  /\ p.version = q.version
  /\ ToBag([i \in DOMAIN p.domains |-> Unordered(p.domains[i])])
       = ToBag([i \in DOMAIN q.domains |-> Unordered(q.domains[i])])

-----------------------------------------------------------------------------
(* Properties. *)

(* What a pointer of the parser leads to. *)
LeadsToItem(p) ==
  /\ p[1] \in 1 .. Len(doc.domains) /\ p[2] \in DOMAIN Listed
  /\ p[3] \in 1 .. Len(doc.domains[p[1]][p[2]])

MembersAt(p) == doc.domains[p[1]][p[2]][p[3]][p[4]]

IsEnum(m) == \E array \in BOOLEAN : m.typ = Assigned("enum", array)

LeadsToEnum(p) ==
  /\ p[4] \in Sections
  /\ p[5] \in 1 .. Len(MembersAt(p)) /\ IsEnum(MembersAt(p)[p[5]])

(* Whatever the order of the lines, each pointer of the parser is nil or    *)
(* leads to what it is used as: domain to the last domain, item to a type,  *)
(* command or event, subitems to a list of members of one, enumliterals to  *)
(* an item, to a member that is declared as an enum, or to such a member    *)
(* that has left the document.  And a member has literals only when it is   *)
(* declared as an enum: no stale pointer has given it those of another.     *)
TypeOK ==
  /\ outcome \in {"reading", "error", "panic"}
  /\ clearDesc \in BOOLEAN /\ copyright \in BOOLEAN
  /\ domain \in {<<>>, <<Len(doc.domains)>>}
  /\ item # <<>> => LeadsToItem(item)
  /\ subitems # <<>> => LeadsToItem(subitems) /\ subitems[4] \in Sections
  /\ enumliterals \notin {<<>>, Detached} =>
       LeadsToItem(enumliterals) /\ (Len(enumliterals) = 3 \/ LeadsToEnum(enumliterals))
  /\ \A i \in 1 .. Len(doc.domains) : \A list \in DOMAIN Listed :
       \A j \in 1 .. Len(doc.domains[i][list]) : \A f \in Sections :
         \A k \in 1 .. Len(doc.domains[i][list][j][f]) :
           LET m == doc.domains[i][list][j][f][k] IN m.enum # <<>> => IsEnum(m)

(* While it reads files that follow the grammar, Parse neither fails nor    *)
(* goes through a nil pointer: each kind of line comes after the line that  *)
(* sets the pointer it needs (pdl/pdl.go:55-61).                            *)
GrammaticalAccepted == Ordered /\ phase = "files" => outcome = "reading"

(* Parse accepts every file that Bytes has written (README: a single,       *)
(* combined protocol file can be given with -pdl).                          *)
CombinedAccepted == phase = "combined" => outcome = "reading"

(* Whatever the order of the lines, Parse panics on a line that no line     *)
(* above can own, and on no other.                                          *)
Orphan(ls, j) ==
  \/ ls[j].class \in {"depends", "member"} \cup Items /\ DomainOf(ls, j) = 0
  \/ ls[j].class = "member" /\ SectionOf(ls, j) = 0
  \/ ls[j].class \in {"enum", "redirect"} \cup Sections /\ ItemOf(ls, j) = 0
  \/ ls[j].class \in {"major", "minor"} /\ Latest(ls, j, LAMBDA l : l.class = "version") = 0
  \/ ls[j].class = "literal" /\ OwnerOf(ls, j) = 0

PanicsOnOrphans ==
  phase = "files" /\ read # <<>> => (outcome = "panic" <=> Orphan(read, Len(read)))

(* At every line, the document that Parse has built through its pointers is *)
(* what the lines read so far mean.                                         *)
ParsedAsWritten == Ordered /\ phase = "files" => doc = Meaning(read)

(* The combined file, parsed again, holds exactly the domains of the files, *)
(* with the first copyright there is.                                       *)
RoundTrip ==
  phase = "combined" /\ input = <<>> /\ outcome = "reading" =>
    SameUpToOrder(doc, Combine([i \in 1 .. Len(files) |-> Meaning(files[i])]))

(* The combined file is not labelled with an older version than any of its  *)
(* parts, whatever the order in which they are combined.                    *)
CombinedVersionCovers ==
  phase = "combined" /\ input = <<>> /\ outcome = "reading" =>
    \A i \in 1 .. Len(pdls) : pdls[i].version # <<>> =>
      \/ doc.version[1] > pdls[i].version[1]
      \/ doc.version[1] = pdls[i].version[1] /\ doc.version[2] >= pdls[i].version[2]

InOrder(s) == \A i, j \in 1 .. Len(s) : i < j => s[i].name <= s[j].name

(* The combined file lists its domains by name.                             *)
DomainsSorted == phase = "combined" => InOrder(doc.domains)

=============================================================================
