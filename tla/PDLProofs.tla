----------------------------- MODULE PDLProofs -----------------------------
(***************************************************************************)
(* Proofs about the parser of PDLFiles and about the file that is combined *)
(* from what it reads, for any vocabulary of lines and files of any length. *)
(*                                                                         *)
(* That Parse accepts what the grammar allows is not inductive: it needs   *)
(* the link between the grammar and the pointers, PointersSet.  A class of *)
(* line that may come next has found its pointers set.                     *)
(*                                                                         *)
(* That it panics on orphans only, in whatever order the lines come, needs *)
(* PointersKept: a pointer is set when, and only when, a line that sets it *)
(* has been read: nothing resets it before the end of the file.            *)
(*                                                                         *)
(* FilesInv is the invariant of the rest.  The document is lists within    *)
(* lists, and the pointers are indices into them (ParserShape).  What is   *)
(* left of a combined file begins its domains in order (DomainsBegin) and  *)
(* has one version, of which the document holds what has been read         *)
(* (VersionAt, VersionRead).  AcceptedInv adds that no line left will find  *)
(* its pointer nil (Served).                                               *)
(* EnumsInv adds to it where literals go: enumliterals leads to a member    *)
(* that is declared as an enum, and so only such members have literals.    *)
(*                                                                         *)
(* The second half is about reading what Bytes writes.  Reading a line is  *)
(* a function, Then, of what Parse knows before it (State): ThenIsRead     *)
(* shows that the step of the specification is that function, so that      *)
(* ThenAll(State, input) is the document there will be when the lines left *)
(* are read.  The lemmas then follow the lines that are written for a      *)
(* literal, a member, a section, an item, a domain and a document; each    *)
(* shows that they add to what has been read just what they were written   *)
(* for.  ReadDocument is the last: a document whose parts can be told from *)
(* their lines (DomainBack) is given back.                                 *)
(***************************************************************************)
EXTENDS PDLFiles, SequenceLemmas

IsDoc(d) == d = [copyright |-> d.copyright, version |-> d.version, domains |-> d.domains]

LineClasses ==
  {"version", "major", "minor", "depends", "redirect", "enum", "literal", "member"}
    \cup Items \cup Sections

PointersSet ==
  /\ open \subseteq LineClasses
  /\ \A c \in open :
       /\ c \notin {"version", "major", "minor"} => domain # <<>>
       /\ c = "member" => subitems # <<>>
       /\ c \in {"enum", "redirect"} \cup Sections => item # <<>>
       /\ c \in {"major", "minor"} => doc.version # <<>>
       /\ c = "literal" => enumliterals # <<>>

GrammarInv == phase = "files" => outcome = "reading" /\ IsDoc(doc) /\ PointersSet

-----------------------------------------------------------------------------
(* A line of a class the grammar allows goes through no nil pointer, and    *)
(* what it leaves behind allows the lines that may follow it.               *)
LEMMA GrammaticalLine ==
  ASSUME NEW l, outcome = "reading", IsDoc(doc), PointersSet, Grammatical(l), ReadLine(l),
         open' = Follows(l)
  PROVE  outcome' = "reading" /\ IsDoc(doc') /\ PointersSet'
<1> USE DEF PointersSet, LineClasses, Items, Sections
<1>1. IsDoc(Doc) /\ Doc.version = doc.version
  BY DEF IsDoc, Doc
<1>2. ~NilPointer(l) /\ l.class # "unknown"
  BY DEF Grammatical, Anywhere, NilPointer
<1>3. CASE ReadComment(l)
  BY <1>3 DEF ReadComment, Follows
<1>4. CASE ReadBlank(l)
  BY <1>1, <1>4 DEF ReadBlank, Follows
<1>5. CASE ReadDomain(l)
  <2>1. IsDoc(doc')
    BY <1>1, <1>5 DEF ReadDomain, IsDoc
  <2>2. l.class = "domain" /\ outcome' = outcome /\ domain' # <<>>
    BY <1>5 DEF ReadDomain
  <2> QED BY <2>1, <2>2 DEF Follows
<1>6. CASE ReadDepends(l)
  <2>1. IsDoc(doc') /\ doc'.version = doc.version
    BY <1>1, <1>6 DEF ReadDepends, IsDoc
  <2> QED BY <2>1, <1>6 DEF ReadDepends, Follows
<1>7. CASE ReadItem(l)
  <2>1. IsDoc(doc')
    BY <1>1, <1>7 DEF ReadItem, IsDoc
  <2>2. /\ l.class \in Items /\ outcome' = outcome
        /\ domain' = domain /\ domain # <<>> /\ item' # <<>>
    BY <1>7 DEF ReadItem
  <2> QED BY <2>1, <2>2 DEF Follows
<1>8. CASE ReadMember(l)
  <2>1. IsDoc(doc') /\ doc'.version = doc.version
    BY <1>1, <1>8 DEF ReadMember, IsDoc
  <2>2. /\ l.class = "member"
        /\ UNCHANGED <<domain, item, subitems, outcome>>
        /\ domain # <<>> /\ subitems # <<>>
        /\ enumliterals' # <<>> \/ (l.typ # "enum" /\ enumliterals' = enumliterals)
    BY <1>8 DEF ReadMember
  <2> QED BY <2>1, <2>2 DEF Follows, Grammatical, Anywhere
<1>9. CASE ReadSection(l)
  <2>1. IsDoc(doc') /\ doc'.version = doc.version
    BY <1>1, <1>9 DEF ReadSection, IsDoc
  <2>2. /\ l.class \in Sections /\ subitems' # <<>> /\ UNCHANGED <<domain, item, outcome>>
        /\ enumliterals' = enumliterals \/ enumliterals' # <<>>
    BY <1>9 DEF ReadSection, Detached
  <2> QED BY <2>1, <2>2 DEF Follows, Grammatical, Anywhere
<1>10. CASE ReadEnum(l)
  <2>1. IsDoc(doc') /\ doc'.version = doc.version
    BY <1>1, <1>10 DEF ReadEnum, IsDoc
  <2>2. /\ l.class = "enum" /\ enumliterals' # <<>>
        /\ UNCHANGED <<domain, item, subitems, outcome>>
    BY <1>10 DEF ReadEnum
  <2> QED BY <2>1, <2>2 DEF Follows, Grammatical, Anywhere
<1>11. CASE ReadVersion(l)
  <2>1. IsDoc(doc') /\ doc'.version # <<>>
    BY <1>1, <1>11 DEF ReadVersion, IsDoc
  <2> QED BY <2>1, <1>11 DEF ReadVersion, Follows
<1>12. CASE ReadMajorMinor(l)
  <2>1. IsDoc(doc') /\ doc'.version # <<>>
    BY <1>1, <1>12 DEF ReadMajorMinor, IsDoc
  <2> QED BY <2>1, <1>12 DEF ReadMajorMinor, Follows
<1>13. CASE ReadRedirect(l)
  <2>1. IsDoc(doc') /\ doc'.version = doc.version
    BY <1>1, <1>13 DEF ReadRedirect, IsDoc
  <2> QED BY <2>1, <1>13 DEF ReadRedirect, Follows
<1>14. CASE ReadLiteral(l)
  <2>1. IsDoc(doc') /\ doc'.version = doc.version
    BY <1>1, <1>14 DEF ReadLiteral, IsDoc
  <2> QED BY <2>1, <1>14 DEF ReadLiteral, Follows
<1> QED BY <1>2, <1>3, <1>4, <1>5, <1>6, <1>7, <1>8, <1>9, <1>10, <1>11, <1>12, <1>13, <1>14
        DEF ReadLine, ReadUnknown, ReadNil

LEMMA GrammarInit == Init => GrammarInv
  BY DEF Init, ParseInit, GrammarInv, PointersSet, IsDoc, EmptyDoc, LineClasses, Items, Sections

LEMMA GrammarStep == Ordered /\ GrammarInv /\ [Next]_vars => GrammarInv'
<1> SUFFICES ASSUME Ordered, GrammarInv, [Next]_vars PROVE GrammarInv'
  OBVIOUS
<1>1. CASE UNCHANGED vars
  BY <1>1 DEF vars, parser, GrammarInv, PointersSet, IsDoc
<1>2. CASE ReadFile
  <2>1. PICK s \in SamplesLeft : \E l \in s.lines :
                /\ Ordered => Grammatical(l)
                /\ ReadLine(l)
                /\ open' = Follows(l)
    BY <1>2 DEF ReadFile
  <2> QED BY <1>2, <2>1, GrammaticalLine DEF ReadFile, GrammarInv
<1>3. CASE EndOfFile
  BY <1>3 DEF EndOfFile, ParseRestart, GrammarInv, PointersSet, IsDoc, EmptyDoc, LineClasses, Items,
              Sections
<1>4. CASE CombineBytes
  BY <1>4 DEF CombineBytes, GrammarInv
<1>5. CASE ReadCombined
  BY <1>5 DEF ReadCombined, GrammarInv
<1> QED BY <1>1, <1>2, <1>3, <1>4, <1>5 DEF Next

(* Parse accepts every file that follows the grammar, whatever its lines    *)
(* and however long it is.                                                  *)
THEOREM ParseAccepts == Spec => []GrammaticalAccepted
<1>1. CASE Ordered
  <2>1. Init => GrammarInv
    BY GrammarInit
  <2>2. GrammarInv /\ [Next]_vars => GrammarInv'
    BY <1>1, GrammarStep
  <2>3. GrammarInv => GrammaticalAccepted
    BY DEF GrammarInv, GrammaticalAccepted
  <2> QED BY <2>1, <2>2, <2>3, PTL DEF Spec
<1>2. CASE ~Ordered
  <2>1. GrammaticalAccepted
    BY <1>2 DEF GrammaticalAccepted
  <2> QED BY <2>1, PTL
<1> QED BY <1>1, <1>2

-----------------------------------------------------------------------------
(***************************************************************************)
(* Lines in any order: which pointer is set depends on the lines above.    *)
(***************************************************************************)
(* The last of some lines, as Latest chooses it.                           *)
LastOf(A) == CHOOSE i \in A : \A k \in A : k <= i

(* There is a last one: the naturals are well-founded.                     *)
LEMMA LastOfSome ==
  ASSUME NEW n \in Nat, NEW A, A \subseteq 1 .. n, A # {}
  PROVE  LastOf(A) \in A /\ \A k \in A : k <= LastOf(A)
<1> DEFINE T == {n - i : i \in A}
<1>1. T \subseteq Nat /\ T # {}
  <2>1. ASSUME NEW i \in A PROVE n - i \in Nat
    <3>1. i \in 1 .. n
      OBVIOUS
    <3> QED BY <3>1
  <2> QED BY <2>1
<1>2. \E x \in T : \A y \in T : <<y, x>> \notin OpToRel(<, Nat)
  BY <1>1, NatLessThanWellFounded, WFMin
<1>3. PICK x \in T : \A y \in T : <<y, x>> \notin OpToRel(<, Nat)
  BY <1>2
<1>4. PICK i \in A : x = n - i
  BY <1>3
<1>5. ASSUME NEW k \in A PROVE k <= i
  <2>1. n - k \in T /\ n - k \in Nat /\ x \in Nat
    BY <1>1
  <2> HIDE DEF T
  <2>2. <<n - k, x>> \notin OpToRel(<, Nat)
    BY <1>3, <2>1
  <2>3. ~(n - k < x)
    BY <2>1, <2>2 DEF OpToRel
  <2>4. k \in Int /\ i \in Int
    OBVIOUS
  <2> QED BY <1>4, <2>3, <2>4
<1> QED BY <1>5 DEF LastOf

(* The line that owns a line is 0 when there is none above.                *)
LastLine(A) == IF A = {} THEN 0 ELSE LastOf(A)

(* No line is numbered 0.                                                  *)
LEMMA NoneAbove ==
  ASSUME NEW n \in Nat, NEW A, A \subseteq 1 .. n
  PROVE  LastLine(A) = 0 <=> A = {}
<1>1. CASE A = {}
  BY <1>1 DEF LastLine
<1>2. CASE A # {}
  <2>1. LastOf(A) \in 1 .. n
    BY <1>2, LastOfSome
  <2>2. LastOf(A) # 0
    BY <2>1
  <2> QED BY <1>2, <2>2 DEF LastLine
<1> QED BY <1>1, <1>2

(* The lines that a file may hold.                                         *)
Lines == UNION {s.lines : s \in Samples}

(* The lines that set a pointer.                                           *)
IsVersion(l) == l.class = "version"

Domains == {i \in 1 .. Len(read) : IsDomain(read[i])}
ItemLines == {i \in 1 .. Len(read) : IsItem(read[i])}
SectionLines == {i \in 1 .. Len(read) : IsSection(read[i])}
Versions == {i \in 1 .. Len(read) : IsVersion(read[i])}
Owners == {i \in 1 .. Len(read) : OwnsLiterals(read[i])}

(* A pointer is set when a line that sets it has been read.                *)
PointersKept ==
  /\ domain # <<>> <=> Domains # {}
  /\ item # <<>> <=> ItemLines # {}
  /\ subitems # <<>> <=> SectionLines # {}
  /\ doc.version # <<>> <=> Versions # {}
  /\ enumliterals # <<>> <=> Owners # {}

(* A line that no line above owns is one that meets a nil pointer.         *)
LEMMA OrphanPointer ==
  ASSUME read \in Seq(Lines), PointersKept, NEW l, read' = Append(read, l)
  PROVE  Orphan(read', Len(read')) <=> NilPointer(l)
<1> DEFINE n == Len(read)
<1>1. n \in Nat /\ Len(read') = n + 1 /\ read'[n + 1] = l /\ \A i \in 1 .. n : read'[i] = read[i]
  OBVIOUS
<1>2. n + 1 - 1 = n
  BY <1>1
<1> HIDE DEF n
<1>3. DomainOf(read', n + 1) = 0 <=> Domains = {}
  <2> DEFINE A == {i \in 1 .. (n + 1) - 1 : IsDomain(read'[i])}
  <2>1. DomainOf(read', n + 1) = LastLine(A)
    BY DEF DomainOf, Latest, LastOf, LastLine
  <2> HIDE DEF A
  <2>2. A = Domains
    BY <1>1, <1>2 DEF A, Domains, n
  <2>3. Domains \subseteq 1 .. n
    BY DEF Domains, n
  <2>4. LastLine(Domains) = 0 <=> Domains = {}
    BY <1>1, <2>3, NoneAbove
  <2> QED BY <2>1, <2>2, <2>4, Zenon
<1>4. ItemOf(read', n + 1) = 0 <=> ItemLines = {}
  <2> DEFINE A == {i \in 1 .. (n + 1) - 1 : IsItem(read'[i])}
  <2>1. ItemOf(read', n + 1) = LastLine(A)
    BY DEF ItemOf, Latest, LastOf, LastLine
  <2> HIDE DEF A
  <2>2. A = ItemLines
    BY <1>1, <1>2 DEF A, ItemLines, n
  <2>3. ItemLines \subseteq 1 .. n
    BY DEF ItemLines, n
  <2>4. LastLine(ItemLines) = 0 <=> ItemLines = {}
    BY <1>1, <2>3, NoneAbove
  <2> QED BY <2>1, <2>2, <2>4, Zenon
<1>5. SectionOf(read', n + 1) = 0 <=> SectionLines = {}
  <2> DEFINE A == {i \in 1 .. (n + 1) - 1 : IsSection(read'[i])}
  <2>1. SectionOf(read', n + 1) = LastLine(A)
    BY DEF SectionOf, Latest, LastOf, LastLine
  <2> HIDE DEF A
  <2>2. A = SectionLines
    BY <1>1, <1>2 DEF A, SectionLines, n
  <2>3. SectionLines \subseteq 1 .. n
    BY DEF SectionLines, n
  <2>4. LastLine(SectionLines) = 0 <=> SectionLines = {}
    BY <1>1, <2>3, NoneAbove
  <2> QED BY <2>1, <2>2, <2>4, Zenon
<1>6. Latest(read', n + 1, LAMBDA m : m.class = "version") = 0 <=> Versions = {}
  <2> DEFINE A == {i \in 1 .. (n + 1) - 1 : read'[i].class = "version"}
  <2>1. Latest(read', n + 1, LAMBDA m : m.class = "version") = LastLine(A)
    BY DEF Latest, LastOf, LastLine
  <2> HIDE DEF A
  <2>2. A = Versions
    BY <1>1, <1>2 DEF A, Versions, IsVersion, n
  <2>3. Versions \subseteq 1 .. n
    BY DEF Versions, n
  <2>4. LastLine(Versions) = 0 <=> Versions = {}
    BY <1>1, <2>3, NoneAbove
  <2> QED BY <2>1, <2>2, <2>4, Zenon
<1>7. OwnerOf(read', n + 1) = 0 <=> Owners = {}
  <2> DEFINE A == {i \in 1 .. (n + 1) - 1 : OwnsLiterals(read'[i])}
  <2>1. OwnerOf(read', n + 1) = LastLine(A)
    BY DEF OwnerOf, Latest, LastOf, LastLine
  <2> HIDE DEF A
  <2>2. A = Owners
    BY <1>1, <1>2 DEF A, Owners, n
  <2>3. Owners \subseteq 1 .. n
    BY DEF Owners, n
  <2>4. LastLine(Owners) = 0 <=> Owners = {}
    BY <1>1, <2>3, NoneAbove
  <2> QED BY <2>1, <2>2, <2>4, Zenon
<1> QED BY <1>1, <1>3, <1>4, <1>5, <1>6, <1>7 DEF Orphan, NilPointer, PointersKept

(* A line adds itself to those that set a pointer, or to none.             *)
LEMMA LineAdded ==
  ASSUME read \in Seq(Lines), NEW l, read' = Append(read, l)
  PROVE  /\ Domains' # {} <=> Domains # {} \/ IsDomain(l)
         /\ ItemLines' # {} <=> ItemLines # {} \/ IsItem(l)
         /\ SectionLines' # {} <=> SectionLines # {} \/ IsSection(l)
         /\ Versions' # {} <=> Versions # {} \/ IsVersion(l)
         /\ Owners' # {} <=> Owners # {} \/ OwnsLiterals(l)
<1> DEFINE n == Len(read)
<1>1. n \in Nat /\ Len(read') = n + 1 /\ read'[n + 1] = l /\ \A i \in 1 .. n : read'[i] = read[i]
  OBVIOUS
<1>2. \A i : i \in 1 .. n + 1 <=> i \in 1 .. n \/ i = n + 1
  BY <1>1
<1>3. Len(read) = n
  OBVIOUS
<1> HIDE DEF n
<1>4. Domains' # {} <=> Domains # {} \/ IsDomain(l)
  BY <1>1, <1>2, <1>3 DEF Domains
<1>5. ItemLines' # {} <=> ItemLines # {} \/ IsItem(l)
  BY <1>1, <1>2, <1>3 DEF ItemLines
<1>6. SectionLines' # {} <=> SectionLines # {} \/ IsSection(l)
  BY <1>1, <1>2, <1>3 DEF SectionLines
<1>7. Versions' # {} <=> Versions # {} \/ IsVersion(l)
  BY <1>1, <1>2, <1>3 DEF Versions
<1>8. Owners' # {} <=> Owners # {} \/ OwnsLiterals(l)
  BY <1>1, <1>2, <1>3 DEF Owners
<1> QED BY <1>4, <1>5, <1>6, <1>7, <1>8

(* What a line does to the pointers, and when it finds one missing.        *)
Sets(l) ==
  /\ domain' # <<>> <=> domain # <<>> \/ IsDomain(l)
  /\ item' # <<>> <=> item # <<>> \/ IsItem(l)
  /\ subitems' # <<>> <=> subitems # <<>> \/ IsSection(l)
  /\ doc'.version # <<>> <=> doc.version # <<>> \/ IsVersion(l)
  /\ enumliterals' # <<>> <=> enumliterals # <<>> \/ OwnsLiterals(l)

(* The same of every kind of line, and Parse panics at a nil pointer only. *)
LEMMA AnyLine ==
  ASSUME NEW l, outcome = "reading", IsDoc(doc), ReadLine(l)
  PROVE  /\ IsDoc(doc')
         /\ outcome' = "panic" <=> NilPointer(l)
         /\ outcome' = "reading" => Sets(l)
<1> USE DEF Items, Sections, IsDomain, IsItem, IsSection, IsVersion, OwnsLiterals, Sets
<1>1. IsDoc(Doc) /\ Doc.version = doc.version
  BY DEF IsDoc, Doc
<1>2. CASE ReadComment(l)
  BY <1>2 DEF ReadComment, NilPointer
<1>3. CASE ReadBlank(l)
  BY <1>1, <1>3 DEF ReadBlank, NilPointer
<1>4. CASE ReadDomain(l)
  <2>1. IsDoc(doc') /\ doc'.version = doc.version
    BY <1>1, <1>4 DEF ReadDomain, IsDoc
  <2> QED BY <2>1, <1>4 DEF ReadDomain, NilPointer
<1>5. CASE ReadDepends(l)
  <2>1. IsDoc(doc') /\ doc'.version = doc.version
    BY <1>1, <1>5 DEF ReadDepends, IsDoc
  <2> QED BY <2>1, <1>5 DEF ReadDepends, NilPointer
<1>6. CASE ReadItem(l)
  <2>1. IsDoc(doc') /\ doc'.version = doc.version
    BY <1>1, <1>6 DEF ReadItem, IsDoc
  <2>2. /\ l.class \in Items /\ domain # <<>> /\ item' # <<>>
        /\ UNCHANGED <<domain, subitems, enumliterals, outcome>>
    BY <1>6 DEF ReadItem
  <2> QED BY <2>1, <2>2 DEF NilPointer
<1>7. CASE ReadMember(l)
  <2>1. IsDoc(doc') /\ doc'.version = doc.version
    BY <1>1, <1>7 DEF ReadMember, IsDoc
  <2>2. /\ l.class = "member" /\ domain # <<>> /\ subitems # <<>>
        /\ UNCHANGED <<domain, item, subitems, outcome>>
        /\ IF l.typ = "enum" THEN enumliterals' # <<>> ELSE enumliterals' = enumliterals
    BY <1>7 DEF ReadMember
  <2> QED BY <2>1, <2>2 DEF NilPointer
<1>8. CASE ReadSection(l)
  <2>1. IsDoc(doc') /\ doc'.version = doc.version
    BY <1>1, <1>8 DEF ReadSection, IsDoc
  <2>2. /\ l.class \in Sections /\ item # <<>> /\ subitems' # <<>>
        /\ UNCHANGED <<domain, item, outcome>>
        /\ enumliterals' = enumliterals \/ (Len(enumliterals) = 5 /\ enumliterals' = Detached)
    BY <1>8 DEF ReadSection, MemberIn
  <2>3. enumliterals' # <<>> <=> enumliterals # <<>>
    BY <2>2 DEF Detached
  <2> QED BY <2>1, <2>2, <2>3 DEF NilPointer
<1>9. CASE ReadEnum(l)
  <2>1. IsDoc(doc') /\ doc'.version = doc.version
    BY <1>1, <1>9 DEF ReadEnum, IsDoc
  <2>2. /\ l.class = "enum" /\ item # <<>> /\ enumliterals' # <<>>
        /\ UNCHANGED <<domain, item, subitems, outcome>>
    BY <1>9 DEF ReadEnum
  <2> QED BY <2>1, <2>2 DEF NilPointer
<1>10. CASE ReadVersion(l)
  <2>1. IsDoc(doc') /\ doc'.version # <<>>
    BY <1>1, <1>10 DEF ReadVersion, IsDoc
  <2> QED BY <2>1, <1>10 DEF ReadVersion, NilPointer
<1>11. CASE ReadMajorMinor(l)
  <2>1. IsDoc(doc') /\ doc'.version # <<>>
    BY <1>1, <1>11 DEF ReadMajorMinor, IsDoc
  <2> QED BY <2>1, <1>11 DEF ReadMajorMinor, NilPointer
<1>12. CASE ReadRedirect(l)
  <2>1. IsDoc(doc') /\ doc'.version = doc.version
    BY <1>1, <1>12 DEF ReadRedirect, IsDoc
  <2> QED BY <2>1, <1>12 DEF ReadRedirect, NilPointer
<1>13. CASE ReadLiteral(l)
  <2>1. IsDoc(doc') /\ doc'.version = doc.version
    BY <1>1, <1>13 DEF ReadLiteral, IsDoc
  <2> QED BY <2>1, <1>13 DEF ReadLiteral, NilPointer
<1>14. CASE ReadUnknown(l)
  BY <1>1, <1>14 DEF ReadUnknown, NilPointer
<1>15. CASE ReadNil(l)
  BY <1>1, <1>15 DEF ReadNil
<1> QED BY <1>2, <1>3, <1>4, <1>5, <1>6, <1>7, <1>8, <1>9, <1>10, <1>11, <1>12, <1>13, <1>14, <1>15
        DEF ReadLine

(* The inductive invariant.                                                *)
OrphanInv ==
  /\ phase = "files" => read \in Seq(Lines) /\ IsDoc(doc) /\ (outcome = "reading" => PointersKept)
  /\ PanicsOnOrphans

(* Before the first line of a file no pointer is set.                      *)
LEMMA OrphanStart ==
  ASSUME read = <<>>, doc = EmptyDoc, domain = <<>>, item = <<>>, subitems = <<>>, enumliterals = <<>>
  PROVE  read \in Seq(Lines) /\ IsDoc(doc) /\ PointersKept
<1>1. Domains = {} /\ ItemLines = {} /\ SectionLines = {} /\ Versions = {} /\ Owners = {}
  BY DEF Domains, ItemLines, SectionLines, Versions, Owners
<1> QED BY <1>1 DEF PointersKept, IsDoc, EmptyDoc

(* Every step of the specification keeps it.                               *)
LEMMA OrphanStep == OrphanInv /\ [Next]_vars => OrphanInv'
<1> SUFFICES ASSUME OrphanInv, [Next]_vars PROVE OrphanInv'
  OBVIOUS
<1>1. CASE UNCHANGED vars
  <2>1. UNCHANGED <<phase, read, doc, outcome, domain, item, subitems, enumliterals>>
    BY <1>1 DEF vars, parser
  <2>2. PointersKept' <=> PointersKept
    BY <2>1 DEF PointersKept, Domains, ItemLines, SectionLines, Versions, Owners
  <2>3. PanicsOnOrphans'
    BY <2>1 DEF OrphanInv, PanicsOnOrphans
  <2> QED BY <2>1, <2>2, <2>3 DEF OrphanInv, IsDoc
<1>2. CASE ReadFile
  <2>1. PICK s \in SamplesLeft : \E l \in s.lines : ReadLine(l) /\ read' = Append(read, l)
    BY <1>2 DEF ReadFile
  <2> PICK l \in s.lines : ReadLine(l) /\ read' = Append(read, l)
    BY <2>1
  <2>2. l \in Lines
    BY DEF SamplesLeft, Lines
  <2>3. phase = "files" /\ phase' = "files" /\ outcome = "reading"
    BY <1>2 DEF ReadFile, ReadLine
  <2>4. read \in Seq(Lines) /\ IsDoc(doc) /\ PointersKept
    BY <2>3 DEF OrphanInv
  <2>5. /\ IsDoc(doc')
        /\ outcome' = "panic" <=> NilPointer(l)
        /\ outcome' = "reading" => Sets(l)
    BY <2>3, <2>4, AnyLine
  <2>6. read' \in Seq(Lines)
    BY <2>2, <2>4
  <2>7. outcome' = "reading" => PointersKept'
    BY <2>4, <2>5, LineAdded DEF Sets, PointersKept
  <2>8. Orphan(read', Len(read')) <=> NilPointer(l)
    BY <2>4, OrphanPointer
  <2> QED BY <2>3, <2>5, <2>6, <2>7, <2>8 DEF OrphanInv, PanicsOnOrphans
<1>3. CASE EndOfFile
  <2>1. /\ read' = <<>> /\ doc' = EmptyDoc /\ domain' = <<>> /\ item' = <<>>
        /\ subitems' = <<>> /\ enumliterals' = <<>>
    BY <1>3 DEF EndOfFile, ParseRestart
  <2>2. (Domains = {} /\ ItemLines = {} /\ SectionLines = {} /\ Versions = {} /\ Owners = {})'
    BY <2>1 DEF Domains, ItemLines, SectionLines, Versions, Owners
  <2>3. PointersKept' /\ IsDoc(doc')
    BY <2>1, <2>2 DEF PointersKept, IsDoc, EmptyDoc
  <2>4. (read \in Seq(Lines) /\ IsDoc(doc) /\ PointersKept)'
    BY <2>1, <2>3
  <2> QED BY <2>1, <2>4 DEF OrphanInv, PanicsOnOrphans
<1>4. CASE CombineBytes
  BY <1>4 DEF CombineBytes, OrphanInv, PanicsOnOrphans
<1>5. CASE ReadCombined
  BY <1>5 DEF ReadCombined, OrphanInv, PanicsOnOrphans
<1> QED BY <1>1, <1>2, <1>3, <1>4, <1>5 DEF Next

(* Whatever is in a file, and in which order, Parse panics on a line that   *)
(* no line above can own, and on no other: the pointers that it never       *)
(* resets are set exactly when such a line has been read.                   *)
THEOREM OrphansPanic == Spec => []PanicsOnOrphans
<1>1. Init => OrphanInv
  BY OrphanStart DEF Init, ParseInit, OrphanInv, PanicsOnOrphans
<1>2. OrphanInv => PanicsOnOrphans
  BY DEF OrphanInv
<1> QED BY <1>1, <1>2, OrphanStep, PTL DEF Spec

-----------------------------------------------------------------------------
(* Documents, and what changes in them keeps.                              *)

(* What a document is made of: sequences of what each of them holds.       *)
ItemLists == {"types", "commands", "events"}

MemberShape(m) == IsSeq(m.desc) /\ IsSeq(m.enum)

MembersShape(ms) == IsSeq(ms) /\ \A k \in 1 .. Len(ms) : MemberShape(ms[k])

ItemShape(t) == IsSeq(t.desc) /\ IsSeq(t.enum) /\ \A f \in Sections : MembersShape(t[f])

ItemsShape(ts) == IsSeq(ts) /\ \A j \in 1 .. Len(ts) : ItemShape(ts[j])

DomainShape(d) ==
  /\ {"name", "dependencies"} \cup ItemLists \subseteq DOMAIN d
  /\ d.name \in Nat
  /\ IsSeq(d.desc) /\ IsSeq(d.dependencies)
  /\ \A list \in ItemLists : ItemsShape(d[list])

DomainsShape(ds) == IsSeq(ds) /\ \A i \in 1 .. Len(ds) : DomainShape(ds[i])

VersionShape(v) == v # <<>> => v \in Nat \X Nat

DocShape(d) ==
  IsDoc(d) /\ IsSeq(d.copyright) /\ VersionShape(d.version) /\ DomainsShape(d.domains)

PutItem(ds, a, b, c, x) == [ds EXCEPT ![a][b][c] = x]
AddItem(ds, a, b, x) == [ds EXCEPT ![a][b] = Append(@, x)]

(* Documents with domains of the same names and the same numbers of items. *)
SameLengths(ds, es) ==
  /\ DomainsShape(es) /\ Len(es) = Len(ds)
  /\ \A i \in 1 .. Len(ds) : es[i].name = ds[i].name
  /\ \A i \in 1 .. Len(ds) : \A list \in ItemLists : Len(es[i][list]) = Len(ds[i][list])

(* The domain a has one item more in the list b. *)
OneItemMore(ds, es, a, b) ==
  /\ DomainsShape(es) /\ Len(es) = Len(ds)
  /\ \A i \in 1 .. Len(ds) : es[i].name = ds[i].name
  /\ \A i \in 1 .. Len(ds) : \A list \in ItemLists :
       Len(es[i][list]) = IF i = a /\ list = b THEN Len(ds[i][list]) + 1 ELSE Len(ds[i][list])

(* The item c of a list of a domain is replaced by x. *)
LEMMA ItemChanged ==
  ASSUME NEW ds, DomainsShape(ds), NEW a, NEW b \in ItemLists, NEW c,
         NEW x, a \in 1 .. Len(ds) => (c \in 1 .. Len(ds[a][b]) => ItemShape(x)),
         NEW es, es = PutItem(ds, a, b, c, x)
  PROVE  SameLengths(ds, es)
<1>1. IsSeq(ds) /\ Len(ds) \in Nat /\ \A i \in 1 .. Len(ds) : DomainShape(ds[i])
  BY SeqFacts DEF DomainsShape
<1>2. PICK d, ts, us, e : d = ds[a] /\ ts = d[b] /\ us = Put(ts, c, x) /\ e = [d EXCEPT ![b] = us]
  OBVIOUS
<1>3. es = Put(ds, a, e)
  BY <1>2 DEF Put, PutItem
<1>4. IsSeq(es) /\ Len(es) = Len(ds) /\ \A i \in 1 .. Len(ds) : es[i] = IF i = a THEN e ELSE ds[i]
  BY <1>1, <1>3, OnePlace
<1>5. ASSUME a \in 1 .. Len(ds)
      PROVE  DomainShape(e) /\ e.name = d.name /\ \A list \in ItemLists : Len(e[list]) = Len(d[list])
  <2>1. DomainShape(d) /\ ItemsShape(ts)
    BY <1>1, <1>2, <1>5 DEF DomainShape
  <2>2. IsSeq(us) /\ Len(us) = Len(ts) /\ \A k \in 1 .. Len(ts) : us[k] = IF k = c THEN x ELSE ts[k]
    BY <1>2, <2>1, OnePlace DEF ItemsShape
  <2>3. ItemsShape(us)
    BY <1>2, <1>5, <2>1, <2>2 DEF ItemsShape
  <2>4. {"name", "dependencies"} \cup ItemLists \subseteq DOMAIN d
    BY <2>1 DEF DomainShape
  <2>5. /\ DOMAIN e = DOMAIN d /\ e.name = d.name /\ e.desc = d.desc /\ e.dependencies = d.dependencies
        /\ \A list \in ItemLists : e[list] = IF list = b THEN us ELSE d[list]
    BY <1>2, <2>4 DEF ItemLists
  <2>6. DomainShape(e)
    BY <2>1, <2>3, <2>4, <2>5 DEF DomainShape
  <2> QED BY <1>2, <2>2, <2>5, <2>6
<1>6. ASSUME NEW i \in 1 .. Len(ds)
      PROVE  DomainShape(es[i]) /\ es[i].name = ds[i].name /\ \A list \in ItemLists : Len(es[i][list]) = Len(ds[i][list])
  BY <1>1, <1>2, <1>4, <1>5
<1>7. DomainsShape(es)
  BY <1>4, <1>6 DEF DomainsShape
<1> QED BY <1>4, <1>6, <1>7 DEF SameLengths

(* An item is added to a list of a domain. *)
LEMMA ItemAdded ==
  ASSUME NEW ds, DomainsShape(ds), NEW a \in 1 .. Len(ds), NEW b \in ItemLists,
         NEW x, ItemShape(x),
         NEW es, es = AddItem(ds, a, b, x)
  PROVE  OneItemMore(ds, es, a, b)
<1>1. IsSeq(ds) /\ Len(ds) \in Nat /\ \A i \in 1 .. Len(ds) : DomainShape(ds[i])
  BY SeqFacts DEF DomainsShape
<1>2. PICK d, ts, us, e : d = ds[a] /\ ts = d[b] /\ us = Append(ts, x) /\ e = [d EXCEPT ![b] = us]
  OBVIOUS
<1>3. es = Put(ds, a, e)
  BY <1>2 DEF Put, AddItem
<1>4. IsSeq(es) /\ Len(es) = Len(ds) /\ \A i \in 1 .. Len(ds) : es[i] = IF i = a THEN e ELSE ds[i]
  BY <1>1, <1>3, OnePlace
<1>5. /\ DomainShape(e) /\ e.name = d.name
      /\ \A list \in ItemLists : Len(e[list]) = IF list = b THEN Len(d[list]) + 1 ELSE Len(d[list])
  <2>1. DomainShape(d) /\ ItemsShape(ts)
    BY <1>1, <1>2 DEF DomainShape
  <2>2. IsSeq(us) /\ Len(us) = Len(ts) + 1 /\ us[Len(ts) + 1] = x /\ \A k \in 1 .. Len(ts) : us[k] = ts[k]
    BY <1>2, <2>1, Appended DEF ItemsShape
  <2>3. ItemsShape(us)
    <3>1. Len(ts) \in Nat
      BY <2>1, SeqFacts DEF ItemsShape
    <3>2. \A k \in 1 .. Len(us) : k \in 1 .. Len(ts) \/ k = Len(ts) + 1
      BY <2>2, <3>1
    <3> QED BY <2>1, <2>2, <3>2 DEF ItemsShape
  <2>4. {"name", "dependencies"} \cup ItemLists \subseteq DOMAIN d
    BY <2>1 DEF DomainShape
  <2>5. /\ DOMAIN e = DOMAIN d /\ e.name = d.name /\ e.desc = d.desc /\ e.dependencies = d.dependencies
        /\ \A list \in ItemLists : e[list] = IF list = b THEN us ELSE d[list]
    BY <1>2, <2>4 DEF ItemLists
  <2>6. DomainShape(e)
    BY <2>1, <2>3, <2>4, <2>5 DEF DomainShape
  <2>7. ASSUME NEW list \in ItemLists
        PROVE  Len(e[list]) = IF list = b THEN Len(d[list]) + 1 ELSE Len(d[list])
    <3>1. CASE list = b
      <4>1. Len(us) = Len(ts) + 1
        BY <2>2
      <4>2. e[list] = us /\ d[list] = ts
        BY <1>2, <2>5, <3>1
      <4> QED BY <3>1, <4>1, <4>2, Zenon
    <3>2. CASE list # b
      <4>1. e[list] = d[list]
        BY <2>5, <3>2
      <4> QED BY <3>2, <4>1, Zenon
    <3> QED BY <3>1, <3>2
  <2> QED BY <2>5, <2>6, <2>7
<1>6. ASSUME NEW i \in 1 .. Len(ds)
      PROVE  /\ DomainShape(es[i]) /\ es[i].name = ds[i].name
             /\ \A list \in ItemLists :
                  Len(es[i][list]) = IF i = a /\ list = b THEN Len(ds[i][list]) + 1 ELSE Len(ds[i][list])
  BY <1>1, <1>2, <1>4, <1>5
<1>7. DomainsShape(es)
  BY <1>4, <1>6 DEF DomainsShape
<1> QED BY <1>4, <1>6, <1>7 DEF OneItemMore

-----------------------------------------------------------------------------
(* What is left of a description after TrimSpace.                          *)
HasText(x) == x # ""

LEMMA Trimmed == ASSUME NEW d, IsSeq(d) PROVE IsSeq(TrimSpace(d))
<1> DEFINE A == {n \in 1 .. Len(d) : HasText(d[n])}
           EndsAt(n) == (n > 0 => HasText(d[n])) /\ \A i \in n + 1 .. Len(d) : ~HasText(d[i])
<1>1. Len(d) \in Nat
  BY SeqFacts
<1>2. \E n \in 0 .. Len(d) : EndsAt(n)
  <2>1. CASE A = {}
    <3>1. \A i \in 1 .. Len(d) : ~HasText(d[i])
      BY <2>1
    <3>2. EndsAt(0) /\ 0 \in 0 .. Len(d)
      BY <1>1, <3>1
    <3> QED BY <3>2
  <2>2. CASE A # {}
    <3>1. A \subseteq 1 .. Len(d)
      OBVIOUS
    <3>2. PICK n \in A : \A k \in A : k <= n
      BY <1>1, <2>2, <3>1, LastOfSome
    <3>3. n \in 0 .. Len(d) /\ n \in Nat /\ n > 0 /\ HasText(d[n])
      BY <1>1, <3>2
    <3>4. ASSUME NEW i \in n + 1 .. Len(d) PROVE ~HasText(d[i])
      <4>1. i \in 1 .. Len(d) /\ ~(i <= n)
        BY <1>1, <3>3
      <4> QED BY <3>2, <4>1
    <3> QED BY <3>3, <3>4
  <2> QED BY <2>1, <2>2
<1>3. LastText(d) \in 0 .. Len(d)
  BY <1>2 DEF LastText, HasText
<1>4. PICK n : n = LastText(d)
  OBVIOUS
<1>5. n \in Nat /\ TrimSpace(d) = [i \in 1 .. n |-> d[i]]
  BY <1>1, <1>3, <1>4 DEF TrimSpace, IsSeq
<1>6. PICK t : t = TrimSpace(d)
  OBVIOUS
<1>7. t = [i \in 1 .. n |-> t[i]]
  BY <1>5, <1>6
<1>8. IsSeq(t)
  BY <1>5, <1>7, SeqFunction
<1> QED BY <1>6, <1>8

LEMMA NewItem == ASSUME NEW dtyp, NEW l, NEW typ, NEW d, IsSeq(d) PROVE ItemShape(NewType(dtyp, l, typ, d)) /\ MemberShape(NewType(dtyp, l, typ, d))
<1>1. IsSeq(TrimSpace(d)) /\ IsSeq(<<>>) /\ Len(<<>>) = 0
  BY Trimmed, NoElements
<1>2. MembersShape(<<>>)
  BY <1>1 DEF MembersShape
<1> QED BY <1>1, <1>2 DEF ItemShape, MemberShape, NewType, Sections

LEMMA NewDomainShape ==
  ASSUME NEW l, l.name \in Nat, NEW d, IsSeq(d)
  PROVE  /\ DomainShape(NewDomain(l, d)) /\ NewDomain(l, d).name = l.name
         /\ \A list \in ItemLists : Len(NewDomain(l, d)[list]) = 0
<1>1. IsSeq(TrimSpace(d)) /\ IsSeq(<<>>) /\ Len(<<>>) = 0
  BY Trimmed, NoElements
<1>2. ItemsShape(<<>>)
  BY <1>1 DEF ItemsShape
<1> QED BY <1>1, <1>2 DEF DomainShape, NewDomain, ItemLists

(* A domain is added. *)
LEMMA DomainAdded ==
  ASSUME NEW ds, DomainsShape(ds), NEW d, DomainShape(d)
  PROVE  /\ DomainsShape(Append(ds, d)) /\ Len(Append(ds, d)) = Len(ds) + 1
         /\ Append(ds, d)[Len(ds) + 1] = d /\ \A i \in 1 .. Len(ds) : Append(ds, d)[i] = ds[i]
<1>1. IsSeq(ds) /\ Len(ds) \in Nat
  BY SeqFacts DEF DomainsShape
<1>2. /\ IsSeq(Append(ds, d)) /\ Len(Append(ds, d)) = Len(ds) + 1
      /\ Append(ds, d)[Len(ds) + 1] = d /\ \A i \in 1 .. Len(ds) : Append(ds, d)[i] = ds[i]
  BY <1>1, Appended
<1>3. \A i \in 1 .. Len(ds) + 1 : i \in 1 .. Len(ds) \/ i = Len(ds) + 1
  BY <1>1
<1> QED BY <1>2, <1>3 DEF DomainsShape

(* One field of an item changes. *)
LEMMA MembersChanged ==
  ASSUME NEW t, ItemShape(t), NEW f \in Sections, NEW ms, MembersShape(ms)
  PROVE  ItemShape([t EXCEPT ![f] = ms])
BY DEF ItemShape, Sections

LEMMA EnumChanged ==
  ASSUME NEW t, ItemShape(t), NEW e, IsSeq(e)
  PROVE  ItemShape([t EXCEPT !.enum = e])
BY DEF ItemShape, Sections

LEMMA RedirectChanged ==
  ASSUME NEW t, ItemShape(t), NEW r
  PROVE  ItemShape([t EXCEPT !.redirect = r])
BY DEF ItemShape, Sections

(* A literal is added to a member. *)
LEMMA LiteralAdded ==
  ASSUME NEW ms, MembersShape(ms), NEW k, NEW v
  PROVE  MembersShape([ms EXCEPT ![k].enum = Append(@, v)])
<1>1. IsSeq(ms) /\ \A i \in 1 .. Len(ms) : MemberShape(ms[i])
  BY DEF MembersShape
<1>2. PICK m, n, ns : m = ms[k] /\ n = [m EXCEPT !.enum = Append(@, v)] /\ ns = Put(ms, k, n)
  OBVIOUS
<1>3. IsSeq(ns) /\ Len(ns) = Len(ms) /\ \A i \in 1 .. Len(ms) : ns[i] = IF i = k THEN n ELSE ms[i]
  BY <1>1, <1>2, OnePlace
<1>4. ASSUME k \in 1 .. Len(ms) PROVE MemberShape(n)
  <2>1. MemberShape(m)
    BY <1>1, <1>2, <1>4
  <2>2. IsSeq(m.enum) /\ IsSeq(m.desc)
    BY <2>1 DEF MemberShape
  <2>3. IsSeq(Append(m.enum, v))
    BY <2>2, Appended
  <2> QED BY <1>2, <2>2, <2>3 DEF MemberShape
<1>5. MembersShape(ns)
  BY <1>1, <1>3, <1>4 DEF MembersShape
<1> QED BY <1>2, <1>5 DEF Put

LEMMA MemberAdded ==
  ASSUME NEW ms, MembersShape(ms), NEW m, MemberShape(m)
  PROVE  MembersShape(Append(ms, m))
<1>1. IsSeq(ms) /\ Len(ms) \in Nat /\ \A i \in 1 .. Len(ms) : MemberShape(ms[i])
  BY SeqFacts DEF MembersShape
<1>2. /\ IsSeq(Append(ms, m)) /\ Len(Append(ms, m)) = Len(ms) + 1
      /\ Append(ms, m)[Len(ms) + 1] = m /\ \A i \in 1 .. Len(ms) : Append(ms, m)[i] = ms[i]
  BY <1>1, Appended
<1>3. \A i \in 1 .. Len(ms) + 1 : i \in 1 .. Len(ms) \/ i = Len(ms) + 1
  BY <1>1
<1> QED BY <1>1, <1>2, <1>3 DEF MembersShape

-----------------------------------------------------------------------------
(* The pointers of the parser lead to something in the document.           *)

(* A place in a document, and a document that has grown. *)
InDoc(p, ds) ==
  /\ p[1] \in 1 .. Len(ds) /\ p[2] \in ItemLists
  /\ p[3] \in 1 .. Len(ds[p[1]][p[2]])

Grows(ds, es) ==
  /\ Len(ds) <= Len(es)
  /\ \A i \in 1 .. Len(ds) :
       es[i].name = ds[i].name /\ \A list \in ItemLists : Len(ds[i][list]) <= Len(es[i][list])

PointersIn(ds) ==
  /\ domain \in {<<>>, <<Len(ds)>>} /\ (domain # <<>> => Len(ds) >= 1)
  /\ item # <<>> => domain # <<>> /\ InDoc(item, ds) /\ Len(item) = 3
  /\ subitems # <<>> => domain # <<>> /\ InDoc(subitems, ds) /\ subitems[4] \in Sections
  /\ enumliterals \notin {<<>>, Detached} =>
       InDoc(enumliterals, ds) /\ (Len(enumliterals) = 3 \/ enumliterals[4] \in Sections)

Outcomes == {"reading", "error", "panic"}

ParserShape ==
  /\ DocShape(doc) /\ IsSeq(desc) /\ PointersIn(doc.domains)
  /\ outcome \in Outcomes /\ clearDesc \in BOOLEAN /\ copyright \in BOOLEAN

(* What is assumed of a line.                                              *)
LineShape(l) ==
  /\ l.class = "domain" => l.name \in Nat
  /\ l.class \in {"major", "minor"} => l.number \in Nat

(* The names of the domains, after a line.                                 *)
NamesAfter(l) ==
  /\ \A i \in 1 .. Len(doc.domains) : doc'.domains[i].name = doc.domains[i].name
  /\ IF IsDomain(l)
       THEN /\ Len(doc'.domains) = Len(doc.domains) + 1
            /\ doc'.domains[Len(doc.domains) + 1].name = l.name
       ELSE Len(doc'.domains) = Len(doc.domains)

LEMMA Lengths ==
  ASSUME NEW ds, DomainsShape(ds)
  PROVE  /\ IsSeq(ds) /\ Len(ds) \in Nat
         /\ \A i \in 1 .. Len(ds) :
              DomainShape(ds[i]) /\ \A list \in ItemLists : ItemsShape(ds[i][list]) /\ Len(ds[i][list]) \in Nat
  BY SeqFacts DEF DomainsShape, DomainShape, ItemsShape

LEMMA PlaceKept ==
  ASSUME NEW ds, NEW es, DomainsShape(ds), DomainsShape(es), Grows(ds, es), NEW p, InDoc(p, ds)
  PROVE  InDoc(p, es)
<1>1. p[1] \in 1 .. Len(ds) /\ p[2] \in ItemLists /\ p[3] \in 1 .. Len(ds[p[1]][p[2]])
  BY DEF InDoc
<1>2. Len(ds) \in Nat /\ Len(es) \in Nat /\ Len(ds) <= Len(es)
  BY Lengths DEF Grows
<1>3. p[1] \in 1 .. Len(es)
  BY <1>1, <1>2
<1>4. Len(ds[p[1]][p[2]]) <= Len(es[p[1]][p[2]])
  BY <1>1 DEF Grows
<1>5. Len(ds[p[1]][p[2]]) \in Nat /\ Len(es[p[1]][p[2]]) \in Nat
  BY <1>1, <1>3, Lengths
<1>6. p[3] \in 1 .. Len(es[p[1]][p[2]])
  <2>1. PICK i, m, n : i = p[3] /\ m = Len(ds[p[1]][p[2]]) /\ n = Len(es[p[1]][p[2]])
    OBVIOUS
  <2>2. m \in Nat /\ n \in Nat /\ m <= n /\ i \in 1 .. m
    BY <1>1, <1>4, <1>5, <2>1
  <2>3. i \in 1 .. n
    BY <2>2
  <2> QED BY <2>1, <2>3
<1> QED BY <1>1, <1>3, <1>6 DEF InDoc

LEMMA GrowsSame == ASSUME NEW ds, DomainsShape(ds) PROVE Grows(ds, ds)
  BY Lengths DEF Grows

(* What reading a line makes of the document, its domains apart. *)
DocWith(es) == [Doc EXCEPT !.domains = es]

LEMMA DescSeq == ASSUME IsSeq(desc) PROVE IsSeq(Desc)
  BY NoElements DEF Desc

LEMMA DocIs ==
  ASSUME DocShape(doc), IsSeq(desc), NEW es, DomainsShape(es)
  PROVE  /\ DocShape(DocWith(es)) /\ DocWith(es).domains = es /\ DocWith(es).version = doc.version
         /\ DocShape(Doc) /\ Doc.domains = doc.domains /\ Doc.version = doc.version
         /\ Doc = DocWith(doc.domains)
<1>1. IsDoc(Doc) /\ Doc.domains = doc.domains /\ Doc.version = doc.version
  BY DEF DocShape, IsDoc, Doc
<1>2. IsSeq(Doc.copyright)
  BY DescSeq DEF DocShape, IsDoc, Doc
<1>3. /\ IsDoc(DocWith(es)) /\ DocWith(es).copyright = Doc.copyright
      /\ DocWith(es).domains = es /\ DocWith(es).version = Doc.version
  BY <1>1 DEF IsDoc, DocWith
<1>4. Doc = DocWith(doc.domains)
  BY <1>1 DEF IsDoc, DocWith
<1> QED BY <1>1, <1>2, <1>3, <1>4 DEF DocShape

LEMMA DocParts ==
  ASSUME ParserShape
  PROVE  /\ IsDoc(doc) /\ IsDoc(Doc) /\ Doc.domains = doc.domains /\ Doc.version = doc.version
         /\ \A es : /\ DocWith(es).copyright = Doc.copyright /\ DocWith(es).version = doc.version
                    /\ DocWith(es).domains = es
         /\ \A v : /\ [Doc EXCEPT !.version = v].copyright = Doc.copyright
                   /\ [Doc EXCEPT !.version = v].version = v /\ [Doc EXCEPT !.version = v].domains = doc.domains
<1>1. IsDoc(doc) /\ IsDoc(Doc) /\ Doc.domains = doc.domains /\ Doc.version = doc.version
  BY DEF ParserShape, DocShape, IsDoc, Doc
<1> QED BY <1>1 DEF DocWith, IsDoc

(* A domain gets one more dependency.                                      *)
AddDependency(ds, a, x) == [ds EXCEPT ![a].dependencies = Append(@, x)]

LEMMA DependencyAdded ==
  ASSUME NEW ds, DomainsShape(ds), NEW a, NEW x, NEW es, es = AddDependency(ds, a, x)
  PROVE  /\ DomainsShape(es) /\ Len(es) = Len(ds)
         /\ \A i \in 1 .. Len(ds) : es[i].name = ds[i].name
         /\ \A i \in 1 .. Len(ds) : \A list \in ItemLists : Len(es[i][list]) = Len(ds[i][list])
<1>1. IsSeq(ds) /\ Len(ds) \in Nat /\ \A i \in 1 .. Len(ds) : DomainShape(ds[i])
  BY Lengths
<1>2. PICK d, us, e : d = ds[a] /\ us = Append(d.dependencies, x) /\ e = [d EXCEPT !.dependencies = us]
  OBVIOUS
<1>3. es = Put(ds, a, e)
  BY <1>2 DEF Put, AddDependency
<1>4. IsSeq(es) /\ Len(es) = Len(ds) /\ \A i \in 1 .. Len(ds) : es[i] = IF i = a THEN e ELSE ds[i]
  BY <1>1, <1>3, OnePlace
<1>5. ASSUME a \in 1 .. Len(ds)
      PROVE  DomainShape(e) /\ e.name = d.name /\ \A list \in ItemLists : e[list] = d[list]
  <2>1. DomainShape(d)
    BY <1>1, <1>2, <1>5
  <2>2. IsSeq(us)
    BY <1>2, <2>1, Appended DEF DomainShape
  <2>3. {"name", "dependencies"} \cup ItemLists \subseteq DOMAIN d
    BY <2>1 DEF DomainShape
  <2>4. /\ DOMAIN e = DOMAIN d /\ e.name = d.name /\ e.desc = d.desc /\ e.dependencies = us
        /\ \A list \in ItemLists : e[list] = d[list]
    BY <1>2, <2>3 DEF ItemLists
  <2> QED BY <2>1, <2>2, <2>3, <2>4 DEF DomainShape
<1>6. ASSUME NEW i \in 1 .. Len(ds)
      PROVE  DomainShape(es[i]) /\ es[i].name = ds[i].name /\ \A list \in ItemLists : Len(es[i][list]) = Len(ds[i][list])
  BY <1>1, <1>2, <1>4, <1>5
<1>7. DomainsShape(es)
  BY <1>4, <1>6 DEF DomainsShape
<1> QED BY <1>4, <1>6, <1>7

(* Pointers that a line leaves alone still lead to something.               *)
LEMMA PointersKeptIn ==
  ASSUME NEW ds, NEW es, DomainsShape(ds), DomainsShape(es), Grows(ds, es), Len(es) = Len(ds), PointersIn(ds)
  PROVE  PointersIn(es)
  BY PlaceKept DEF PointersIn

-----------------------------------------------------------------------------
(* What each kind of line does to the document and the pointers.           *)

VersionLines == {"version", "major", "minor"}

VersionAfter(l) ==
  /\ l.class \notin VersionLines => doc'.version = doc.version
  /\ l.class = "version" => doc'.version = <<0, 0>>
  /\ l.class = "major" /\ outcome' = "reading" =>
       doc.version # <<>> /\ doc'.version = <<l.number, doc.version[2]>>
  /\ l.class = "minor" /\ outcome' = "reading" =>
       doc.version # <<>> /\ doc'.version = <<doc.version[1], l.number>>

LineRead(l) == ParserShape' /\ NamesAfter(l) /\ VersionAfter(l)

(* The step of a line that is no comment, in which the domains become es.  *)
LEMMA DomainsRead ==
  ASSUME ParserShape, NEW l, NotAComment, l.class \notin VersionLines, ~IsDomain(l),
         outcome' \in Outcomes,
         NEW es, doc' = DocWith(es), DomainsShape(es), Grows(doc.domains, es),
         Len(es) = Len(doc.domains), PointersIn(es)'
  PROVE  LineRead(l)
<1>1. DocShape(doc') /\ doc'.domains = es /\ doc'.version = doc.version
  BY DocIs DEF ParserShape
<1>2. IsSeq(desc') /\ clearDesc' \in BOOLEAN /\ copyright' \in BOOLEAN
  BY DescSeq DEF ParserShape, NotAComment
<1>3. PointersIn(doc.domains)'
  BY <1>1 DEF PointersIn
<1>4. NamesAfter(l)
  BY <1>1 DEF NamesAfter, Grows
<1> QED BY <1>1, <1>2, <1>3, <1>4 DEF LineRead, ParserShape, VersionAfter, VersionLines

LEMMA CommentRead ==
  ASSUME ParserShape, NEW l, ReadComment(l)
  PROVE  LineRead(l)
<1>1. IsSeq(desc')
  <2>1. IsSeq(Desc)
    BY DescSeq DEF ParserShape
  <2>2. IsSeq(<<>>) /\ IsSeq(Append(Desc, l.text))
    BY <2>1, NoElements, Appended
  <2> QED BY <2>2 DEF ReadComment
<1>2. ParserShape'
  BY <1>1 DEF ReadComment, ParserShape, PointersIn
<1>3. NamesAfter(l)
  BY DEF ReadComment, NamesAfter, IsDomain
<1> QED BY <1>2, <1>3 DEF ReadComment, LineRead, VersionAfter, VersionLines

LEMMA DomainRead ==
  ASSUME ParserShape, NEW l, LineShape(l), ReadDomain(l)
  PROVE  LineRead(l)
<1>1. PICK ds, d, es : ds = doc.domains /\ d = NewDomain(l, Desc) /\ es = Append(ds, d)
  OBVIOUS
<1>2. l.class = "domain" /\ l.name \in Nat
  BY DEF ReadDomain, LineShape
<1>3. DomainShape(d) /\ d.name = l.name
  BY <1>1, <1>2, DescSeq, NewDomainShape DEF ParserShape
<1>4. DomainsShape(ds) /\ Len(ds) \in Nat
  BY <1>1, Lengths DEF ParserShape, DocShape
<1>5. /\ DomainsShape(es) /\ Len(es) = Len(ds) + 1 /\ es[Len(ds) + 1] = d
      /\ \A i \in 1 .. Len(ds) : es[i] = ds[i]
  BY <1>1, <1>3, <1>4, DomainAdded
<1>6. doc' = DocWith(es)
  <2>1. doc' = [Doc EXCEPT !.domains = Append(Doc.domains, NewDomain(l, Desc))]
    BY DEF ReadDomain
  <2>2. Doc.domains = ds
    BY <1>1, <1>4, DocIs DEF ParserShape
  <2> QED BY <1>1, <2>1, <2>2 DEF DocWith
<1>7. DocShape(doc') /\ doc'.domains = es
  BY <1>5, <1>6, DocIs DEF ParserShape
<1>8. Grows(ds, es)
  BY <1>4, <1>5, Lengths DEF Grows
<1>9. PointersIn(doc.domains)'
  <2>1. domain' = <<Len(es)>> /\ Len(es) >= 1 /\ domain' # <<>>
    BY <1>1, <1>4, <1>5 DEF ReadDomain
  <2>2. \A p : InDoc(p, ds) => InDoc(p, es)
    BY <1>4, <1>5, <1>8, PlaceKept
  <2>3. item' = item /\ subitems' = subitems /\ enumliterals' = enumliterals
    BY DEF ReadDomain
  <2>4. PointersIn(ds)
    BY <1>1 DEF ParserShape
  <2> QED BY <1>7, <2>1, <2>2, <2>3, <2>4 DEF PointersIn
<1>10. NamesAfter(l)
  BY <1>1, <1>2, <1>3, <1>5, <1>7 DEF NamesAfter, IsDomain
<1>11. IsSeq(desc') /\ clearDesc' \in BOOLEAN /\ copyright' \in BOOLEAN /\ outcome' = outcome
  BY DescSeq DEF ParserShape, NotAComment, ReadDomain
<1>12. doc'.version = doc.version
  BY <1>5, <1>6, DocIs DEF ParserShape
<1> QED BY <1>2, <1>7, <1>9, <1>10, <1>11, <1>12 DEF LineRead, ParserShape, VersionAfter, VersionLines

LEMMA DependsRead ==
  ASSUME ParserShape, NEW l, ReadDepends(l)
  PROVE  LineRead(l)
<1>1. PICK ds, a, es : ds = doc.domains /\ a = domain[1] /\ es = AddDependency(ds, a, l.name)
  OBVIOUS
<1>2. DomainsShape(ds)
  BY <1>1 DEF ParserShape, DocShape
<1>3. /\ DomainsShape(es) /\ Len(es) = Len(ds)
      /\ \A i \in 1 .. Len(ds) : es[i].name = ds[i].name
      /\ \A i \in 1 .. Len(ds) : \A list \in ItemLists : Len(es[i][list]) = Len(ds[i][list])
  BY <1>1, <1>2, DependencyAdded
<1>4. Grows(ds, es)
  BY <1>2, <1>3, Lengths DEF Grows
<1>5. doc' = DocWith(es)
  <2>1. doc' = [Doc EXCEPT !.domains = AddDependency(Doc.domains, domain[1], l.name)]
    BY DEF ReadDepends, AddDependency
  <2>2. Doc.domains = ds
    BY <1>1, <1>2, DocIs DEF ParserShape
  <2> QED BY <1>1, <2>1, <2>2 DEF DocWith
<1>6. PointersIn(es)'
  <2>1. PointersIn(es)
    BY <1>1, <1>2, <1>3, <1>4, PointersKeptIn DEF ParserShape
  <2> QED BY <2>1 DEF ReadDepends, PointersIn
<1>7. outcome' \in Outcomes /\ NotAComment /\ l.class = "depends"
  BY DEF ReadDepends, ParserShape
<1>8. l.class \notin VersionLines /\ ~IsDomain(l)
  BY <1>7 DEF VersionLines, IsDomain
<1> QED BY <1>1, <1>3, <1>4, <1>5, <1>6, <1>7, <1>8, DomainsRead

(* A place that is left by a pointer: the item there has its shape.        *)
LEMMA ItemThere ==
  ASSUME NEW ds, DomainsShape(ds), NEW p, InDoc(p, ds)
  PROVE  ItemShape(ds[p[1]][p[2]][p[3]])
<1>1. p[1] \in 1 .. Len(ds) /\ p[2] \in ItemLists /\ p[3] \in 1 .. Len(ds[p[1]][p[2]])
  BY DEF InDoc
<1>2. ItemsShape(ds[p[1]][p[2]])
  BY <1>1, Lengths
<1> QED BY <1>1, <1>2 DEF ItemsShape

(* The step of a line that changes the item at a place.                    *)
LEMMA PlaceRead ==
  ASSUME ParserShape, NEW l, NotAComment, l.class \notin VersionLines, ~IsDomain(l),
         outcome' \in Outcomes,
         NEW p, InDoc(p, doc.domains), NEW x, ItemShape(x),
         doc' = DocWith(PutItem(doc.domains, p[1], p[2], p[3], x)),
         \A es : DomainsShape(es) /\ Len(es) = Len(doc.domains) /\ Grows(doc.domains, es) => PointersIn(es)'
  PROVE  LineRead(l)
<1>1. PICK ds, a, b, c, es : /\ ds = doc.domains /\ a = p[1] /\ b = p[2] /\ c = p[3]
                            /\ es = PutItem(ds, a, b, c, x)
  OBVIOUS
<1>2. DomainsShape(ds)
  BY <1>1 DEF ParserShape, DocShape
<1>3. b \in ItemLists
  BY <1>1 DEF InDoc
<1>4. /\ DomainsShape(es) /\ Len(es) = Len(ds)
      /\ \A i \in 1 .. Len(ds) : es[i].name = ds[i].name
      /\ \A i \in 1 .. Len(ds) : \A list \in ItemLists : Len(es[i][list]) = Len(ds[i][list])
  <2>1. es = PutItem(ds, a, b, c, x)
    BY <1>1
  <2>2. SameLengths(ds, es)
    BY <1>2, <1>3, <2>1, ItemChanged
  <2> QED BY <2>2 DEF SameLengths
<1>5. Grows(ds, es)
  BY <1>2, <1>4, Lengths DEF Grows
<1> QED BY <1>1, <1>4, <1>5, DomainsRead

(* Pointers of which some move to places in the document.                   *)
LEMMA PointersMoved ==
  ASSUME ParserShape, domain' = domain,
         item' = item \/ (domain # <<>> /\ InDoc(item', doc.domains) /\ Len(item') = 3),
         \/ subitems' = subitems
         \/ domain # <<>> /\ InDoc(subitems', doc.domains) /\ subitems'[4] \in Sections,
         \/ enumliterals' = enumliterals \/ enumliterals' = Detached
         \/ InDoc(enumliterals', doc.domains) /\ (Len(enumliterals') = 3 \/ enumliterals'[4] \in Sections),
         NEW es, DomainsShape(es), Len(es) = Len(doc.domains), Grows(doc.domains, es)
  PROVE  PointersIn(es)'
<1>1. \A p : InDoc(p, doc.domains) => InDoc(p, es)
  BY PlaceKept DEF ParserShape, DocShape
<1>2. PointersIn(doc.domains)
  BY DEF ParserShape
<1>3. PICK ds : ds = doc.domains
  OBVIOUS
<1>4. /\ domain' \in {<<>>, <<Len(es)>>} /\ (domain' # <<>> => Len(es) >= 1)
  BY <1>2 DEF PointersIn
<1>5. item' # <<>> => domain' # <<>> /\ InDoc(item', es) /\ Len(item') = 3
  BY <1>1, <1>2 DEF PointersIn
<1>6. subitems' # <<>> => domain' # <<>> /\ InDoc(subitems', es) /\ subitems'[4] \in Sections
  BY <1>1, <1>2 DEF PointersIn
<1>7. enumliterals' \notin {<<>>, Detached} => InDoc(enumliterals', es) /\ (Len(enumliterals') = 3 \/ enumliterals'[4] \in Sections)
  BY <1>1, <1>2 DEF PointersIn
<1> QED BY <1>4, <1>5, <1>6, <1>7 DEF PointersIn

LEMMA ItemRead ==
  ASSUME ParserShape, NEW l, ReadItem(l)
  PROVE  LineRead(l)
<1>1. PICK ds, a, b, x, es : /\ ds = doc.domains /\ a = domain[1] /\ b = ListOf[l.class]
                             /\ x = NewType(ds[a].name, l, IF l.class = "type" THEN Assigned(l.typ, l.array) ELSE Untyped, Desc)
                             /\ es = AddItem(ds, a, b, x)
  OBVIOUS
<1>2. DomainsShape(ds) /\ Len(ds) \in Nat
  BY <1>1, Lengths DEF ParserShape, DocShape
<1>3. l.class \in Items /\ domain # <<>> /\ outcome' = outcome
  BY DEF ReadItem
<1>4. a = Len(ds) /\ a \in 1 .. Len(ds)
  BY <1>1, <1>2, <1>3 DEF ParserShape, PointersIn
<1>5. b \in ItemLists
  BY <1>1, <1>3 DEF ListOf, Items, ItemLists
<1>6. ItemShape(x)
  BY <1>1, NewItem, DescSeq DEF ParserShape
<1>7. /\ DomainsShape(es) /\ Len(es) = Len(ds)
      /\ \A i \in 1 .. Len(ds) : es[i].name = ds[i].name
      /\ \A i \in 1 .. Len(ds) : \A list \in ItemLists :
           Len(es[i][list]) = IF i = a /\ list = b THEN Len(ds[i][list]) + 1 ELSE Len(ds[i][list])
  <2>1. es = AddItem(ds, a, b, x)
    BY <1>1
  <2>2. OneItemMore(ds, es, a, b)
    BY <1>2, <1>4, <1>5, <1>6, <2>1, ItemAdded
  <2> QED BY <2>2 DEF OneItemMore
<1>8. Grows(ds, es)
  <2>1. ASSUME NEW i \in 1 .. Len(ds), NEW list \in ItemLists PROVE Len(ds[i][list]) <= Len(es[i][list])
    <3>1. Len(ds[i][list]) \in Nat
      BY <1>2, Lengths
    <3>2. Len(es[i][list]) = Len(ds[i][list]) \/ Len(es[i][list]) = Len(ds[i][list]) + 1
      BY <1>7
    <3> QED BY <3>1, <3>2
  <2> QED BY <1>2, <1>7, <2>1 DEF Grows
<1>9. doc' = DocWith(es) /\ item' = <<a, b, Len(ds[a][b]) + 1>>
  <2>1. Doc.domains = ds
    BY <1>1, <1>2, DocIs DEF ParserShape
  <2>2. doc' = [Doc EXCEPT !.domains = AddItem(Doc.domains, a, b, x)]
    BY <1>1, <2>1 DEF ReadItem, AddItem
  <2>3. item' = <<a, b, Len(ds[a][b]) + 1>>
    BY <1>1 DEF ReadItem
  <2> QED BY <1>1, <2>1, <2>2, <2>3 DEF DocWith
<1>10. PointersIn(es)'
  <2>1. PointersIn(es)
    BY <1>1, <1>2, <1>7, <1>8, PointersKeptIn DEF ParserShape
  <2>2. InDoc(item', es)
    <3>1. PICK p : p = <<a, b, Len(ds[a][b]) + 1>>
      OBVIOUS
    <3>2. p[1] = a /\ p[2] = b /\ p[3] = Len(ds[a][b]) + 1
      BY <3>1
    <3>3. Len(es[a][b]) = Len(ds[a][b]) + 1 /\ Len(ds[a][b]) \in Nat
      BY <1>2, <1>4, <1>5, <1>7, Lengths
    <3>4. InDoc(p, es)
      BY <1>2, <1>4, <1>5, <1>7, <3>2, <3>3 DEF InDoc
    <3> QED BY <1>9, <3>1, <3>4
  <2>4. Len(item') = 3
    BY <1>9
  <2>3. domain' = domain /\ subitems' = subitems /\ enumliterals' = enumliterals
    BY DEF ReadItem
  <2> QED BY <1>3, <2>1, <2>2, <2>3, <2>4 DEF PointersIn
<1>11. outcome' \in Outcomes /\ NotAComment
  BY DEF ReadItem, ParserShape
<1>12. l.class \notin VersionLines /\ ~IsDomain(l)
  BY <1>3 DEF VersionLines, IsDomain, Items
<1> QED BY <1>1, <1>7, <1>8, <1>9, <1>10, <1>11, <1>12, DomainsRead

LEMMA SectionRead ==
  ASSUME ParserShape, NEW l, ReadSection(l)
  PROVE  LineRead(l)
<1>1. PICK p, t, x : p = item /\ t = doc.domains[p[1]][p[2]][p[3]] /\ x = [t EXCEPT ![l.class] = <<>>]
  OBVIOUS
<1>2. l.class \in Sections /\ item # <<>> /\ outcome' = outcome /\ UNCHANGED <<domain, item>>
      /\ (enumliterals' = enumliterals \/ enumliterals' = Detached)
  BY DEF ReadSection
<1>3. domain # <<>> /\ InDoc(p, doc.domains)
  BY <1>1, <1>2 DEF ParserShape, PointersIn
<1>4. ItemShape(t)
  BY <1>1, <1>3, ItemThere DEF ParserShape, DocShape
<1>5. MembersShape(<<>>)
  BY NoElements DEF MembersShape
<1>6. ItemShape(x)
  BY <1>1, <1>2, <1>4, <1>5, MembersChanged
<1>7. doc' = DocWith(PutItem(doc.domains, p[1], p[2], p[3], x))
  <2>1. Doc.domains = doc.domains
    BY DocIs DEF ParserShape, DocShape
  <2>2. doc' = [Doc EXCEPT !.domains = PutItem(Doc.domains, p[1], p[2], p[3], x)]
    BY <1>1, <2>1 DEF ReadSection, PutItem
  <2> QED BY <2>1, <2>2 DEF DocWith
<1>8. InDoc(subitems', doc.domains) /\ subitems'[4] \in Sections
  <2>1. PICK q : q = <<p[1], p[2], p[3], l.class>>
    OBVIOUS
  <2>2. subitems' = q
    BY <1>1, <2>1 DEF ReadSection
  <2>3. q[1] = p[1] /\ q[2] = p[2] /\ q[3] = p[3] /\ q[4] = l.class
    BY <2>1
  <2>4. InDoc(q, doc.domains)
    BY <1>3, <2>3 DEF InDoc
  <2> QED BY <1>2, <2>2, <2>3, <2>4
<1>9. ASSUME NEW es, DomainsShape(es), Len(es) = Len(doc.domains), Grows(doc.domains, es) PROVE PointersIn(es)'
  BY <1>2, <1>3, <1>8, <1>9, PointersMoved
<1>10. outcome' \in Outcomes /\ NotAComment
  BY DEF ReadSection, ParserShape
<1>11. l.class \notin VersionLines /\ ~IsDomain(l)
  BY <1>2 DEF VersionLines, IsDomain, Sections
<1> QED BY <1>3, <1>6, <1>7, <1>9, <1>10, <1>11, PlaceRead

LEMMA MemberRead ==
  ASSUME ParserShape, NEW l, ReadMember(l)
  PROVE  LineRead(l)
<1>1. PICK p, t, ms, m, x : /\ p = subitems /\ t = doc.domains[p[1]][p[2]][p[3]] /\ ms = t[p[4]]
                            /\ m = NewType(doc.domains[domain[1]].name, l, Assigned(l.typ, l.array), Desc)
                            /\ x = [t EXCEPT ![p[4]] = Append(ms, m)]
  OBVIOUS
<1>2. l.class = "member" /\ subitems # <<>> /\ outcome' = outcome /\ UNCHANGED <<domain, item, subitems>>
  BY DEF ReadMember
<1>3. domain # <<>> /\ InDoc(p, doc.domains) /\ p[4] \in Sections
  BY <1>1, <1>2 DEF ParserShape, PointersIn
<1>4. ItemShape(t)
  BY <1>1, <1>3, ItemThere DEF ParserShape, DocShape
<1>5. MembersShape(ms)
  BY <1>1, <1>3, <1>4 DEF ItemShape
<1>6. MemberShape(m)
  BY <1>1, NewItem, DescSeq DEF ParserShape
<1>7. MembersShape(Append(ms, m))
  BY <1>5, <1>6, MemberAdded
<1>8. ItemShape(x)
  BY <1>1, <1>3, <1>4, <1>7, MembersChanged
<1>9. doc' = DocWith(PutItem(doc.domains, p[1], p[2], p[3], x))
  <2>1. Doc.domains = doc.domains
    BY DocIs DEF ParserShape, DocShape
  <2>2. doc' = [Doc EXCEPT !.domains = PutItem(Doc.domains, p[1], p[2], p[3], x)]
    BY <1>1, <2>1 DEF ReadMember, PutItem
  <2> QED BY <2>1, <2>2 DEF DocWith
<1>10. \/ enumliterals' = enumliterals
       \/ InDoc(enumliterals', doc.domains) /\ enumliterals'[4] \in Sections
  <2>1. PICK q : q = <<p[1], p[2], p[3], p[4], Len(ms) + 1>>
    OBVIOUS
  <2>2. enumliterals' = enumliterals \/ enumliterals' = q
    BY <1>1, <2>1 DEF ReadMember
  <2>3. q[1] = p[1] /\ q[2] = p[2] /\ q[3] = p[3] /\ q[4] = p[4]
    BY <2>1
  <2>4. InDoc(q, doc.domains) /\ q[4] \in Sections
    BY <1>3, <2>3 DEF InDoc
  <2> QED BY <2>2, <2>4
<1>11. ASSUME NEW es, DomainsShape(es), Len(es) = Len(doc.domains), Grows(doc.domains, es) PROVE PointersIn(es)'
  BY <1>2, <1>10, <1>11, PointersMoved
<1>12. outcome' \in Outcomes /\ NotAComment
  BY DEF ReadMember, ParserShape
<1>13. l.class \notin VersionLines /\ ~IsDomain(l)
  BY <1>2 DEF VersionLines, IsDomain
<1> QED BY <1>3, <1>8, <1>9, <1>11, <1>12, <1>13, PlaceRead

LEMMA EnumRead ==
  ASSUME ParserShape, NEW l, ReadEnum(l)
  PROVE  LineRead(l)
<1>1. PICK p, t, x : p = item /\ t = doc.domains[p[1]][p[2]][p[3]] /\ x = [t EXCEPT !.enum = <<>>]
  OBVIOUS
<1>2. l.class = "enum" /\ item # <<>> /\ outcome' = outcome /\ UNCHANGED <<domain, item, subitems>> /\ enumliterals' = item
  BY DEF ReadEnum
<1>3. domain # <<>> /\ InDoc(p, doc.domains)
  BY <1>1, <1>2 DEF ParserShape, PointersIn
<1>4. ItemShape(t)
  BY <1>1, <1>3, ItemThere DEF ParserShape, DocShape
<1>5. ItemShape(x)
  BY <1>1, <1>4, NoElements, EnumChanged
<1>6. doc' = DocWith(PutItem(doc.domains, p[1], p[2], p[3], x))
  <2>1. Doc.domains = doc.domains
    BY DocIs DEF ParserShape, DocShape
  <2>2. doc' = [Doc EXCEPT !.domains = PutItem(Doc.domains, p[1], p[2], p[3], x)]
    BY <1>1, <2>1 DEF ReadEnum, PutItem
  <2> QED BY <2>1, <2>2 DEF DocWith
<1>7. Len(item) = 3
  BY <1>2 DEF ParserShape, PointersIn
<1>8. ASSUME NEW es, DomainsShape(es), Len(es) = Len(doc.domains), Grows(doc.domains, es) PROVE PointersIn(es)'
  BY <1>1, <1>2, <1>3, <1>7, <1>8, PointersMoved
<1>9. outcome' \in Outcomes /\ NotAComment
  BY DEF ReadEnum, ParserShape
<1>10. l.class \notin VersionLines /\ ~IsDomain(l)
  BY <1>2 DEF VersionLines, IsDomain
<1> QED BY <1>3, <1>5, <1>6, <1>8, <1>9, <1>10, PlaceRead

LEMMA RedirectRead ==
  ASSUME ParserShape, NEW l, ReadRedirect(l)
  PROVE  LineRead(l)
<1>1. PICK p, t, r, x : /\ p = item /\ t = doc.domains[p[1]][p[2]][p[3]]
                        /\ r = <<l.name, NamedInstead(Desc)>> /\ x = [t EXCEPT !.redirect = r]
  OBVIOUS
<1>2. l.class = "redirect" /\ item # <<>> /\ outcome' = outcome /\ UNCHANGED <<domain, item, subitems, enumliterals>>
  BY DEF ReadRedirect
<1>3. domain # <<>> /\ InDoc(p, doc.domains)
  BY <1>1, <1>2 DEF ParserShape, PointersIn
<1>4. ItemShape(t)
  BY <1>1, <1>3, ItemThere DEF ParserShape, DocShape
<1>5. ItemShape(x)
  BY <1>1, <1>4, RedirectChanged
<1>6. doc' = DocWith(PutItem(doc.domains, p[1], p[2], p[3], x))
  <2>1. Doc.domains = doc.domains
    BY DocIs DEF ParserShape, DocShape
  <2>2. doc' = [Doc EXCEPT !.domains = PutItem(Doc.domains, p[1], p[2], p[3], x)]
    BY <1>1, <2>1 DEF ReadRedirect, PutItem
  <2> QED BY <2>1, <2>2 DEF DocWith
<1>7. ASSUME NEW es, DomainsShape(es), Len(es) = Len(doc.domains), Grows(doc.domains, es) PROVE PointersIn(es)'
  BY <1>2, <1>7, PointersMoved
<1>8. outcome' \in Outcomes /\ NotAComment
  BY DEF ReadRedirect, ParserShape
<1>9. l.class \notin VersionLines /\ ~IsDomain(l)
  BY <1>2 DEF VersionLines, IsDomain
<1> QED BY <1>3, <1>5, <1>6, <1>7, <1>8, <1>9, PlaceRead

(* An item with one more literal, of its own or of a member.               *)
WithLiteral(t, e, v) ==
  IF Len(e) = 3 THEN [t EXCEPT !.enum = Append(@, v)] ELSE [t EXCEPT ![e[4]][e[5]].enum = Append(@, v)]

LEMMA LiteralKept ==
  ASSUME ParserShape, NEW l, ReadLiteral(l), enumliterals # Detached
  PROVE  LineRead(l)
<1>1. PICK p, t, x : p = enumliterals /\ t = doc.domains[p[1]][p[2]][p[3]] /\ x = WithLiteral(t, p, l.value)
  OBVIOUS
<1>2. l.class = "literal" /\ enumliterals # <<>> /\ outcome' = outcome /\ UNCHANGED <<domain, item, subitems, enumliterals>>
  BY DEF ReadLiteral
<1>3. InDoc(p, doc.domains) /\ (Len(p) = 3 \/ p[4] \in Sections)
  BY <1>1, <1>2 DEF ParserShape, PointersIn
<1>4. ItemShape(t)
  BY <1>1, <1>3, ItemThere DEF ParserShape, DocShape
<1>5. ItemShape(x)
  <2>1. CASE Len(p) = 3
    <3>1. IsSeq(Append(t.enum, l.value))
      BY <1>4, Appended DEF ItemShape
    <3>2. x = [t EXCEPT !.enum = Append(t.enum, l.value)]
      BY <1>1, <2>1 DEF WithLiteral
    <3> QED BY <1>4, <3>1, <3>2, EnumChanged
  <2>2. CASE Len(p) # 3
    <3>1. p[4] \in Sections
      BY <1>3, <2>2
    <3>2. PICK ms, ns : ms = t[p[4]] /\ ns = [ms EXCEPT ![p[5]].enum = Append(@, l.value)]
      OBVIOUS
    <3>3. MembersShape(ns)
      <4>1. MembersShape(ms)
        BY <1>4, <3>1, <3>2 DEF ItemShape
      <4> QED BY <3>2, <4>1, LiteralAdded
    <3>4. x = [t EXCEPT ![p[4]] = ns]
      BY <1>1, <2>2, <3>2 DEF WithLiteral
    <3> QED BY <1>4, <3>1, <3>3, <3>4, MembersChanged
  <2> QED BY <2>1, <2>2
<1>6. doc' = DocWith(PutItem(doc.domains, p[1], p[2], p[3], x))
  <2>1. Doc.domains = doc.domains
    BY DocIs DEF ParserShape, DocShape
  <2>2. doc' = [Doc EXCEPT !.domains = PutItem(Doc.domains, p[1], p[2], p[3], x)]
    <3>1. CASE Len(p) = 3
      BY <1>1, <1>2, <2>1, <3>1 DEF ReadLiteral, PutItem, WithLiteral
    <3>2. CASE Len(p) # 3
      BY <1>1, <2>1, <3>2 DEF ReadLiteral, PutItem, WithLiteral
    <3> QED BY <3>1, <3>2
  <2> QED BY <2>1, <2>2 DEF DocWith
<1>7. ASSUME NEW es, DomainsShape(es), Len(es) = Len(doc.domains), Grows(doc.domains, es) PROVE PointersIn(es)'
  BY <1>2, <1>7, PointersMoved
<1>8. outcome' \in Outcomes /\ NotAComment
  BY DEF ReadLiteral, ParserShape
<1>9. l.class \notin VersionLines /\ ~IsDomain(l)
  BY <1>2 DEF VersionLines, IsDomain
<1> QED BY <1>3, <1>5, <1>6, <1>7, <1>8, <1>9, PlaceRead

(* A line that leaves everything but the version and the copyright.         *)
LEMMA HeadRead ==
  ASSUME ParserShape, NEW l, NotAComment, ~IsDomain(l), outcome' \in Outcomes,
         UNCHANGED <<domain, item, subitems, enumliterals>>,
         NEW v, VersionShape(v), doc' = [Doc EXCEPT !.version = v]
  PROVE  ParserShape' /\ NamesAfter(l) /\ doc'.version = v
<1>1. DocShape(Doc) /\ Doc.domains = doc.domains
  BY DocIs DEF ParserShape, DocShape
<1>2. DocShape(doc') /\ doc'.domains = doc.domains /\ doc'.version = v
  BY <1>1 DEF DocShape, IsDoc
<1>3. IsSeq(desc') /\ clearDesc' \in BOOLEAN /\ copyright' \in BOOLEAN
  BY DescSeq DEF ParserShape, NotAComment
<1>4. PointersIn(doc.domains)'
  BY <1>2 DEF PointersIn, ParserShape
<1>5. NamesAfter(l)
  BY <1>2 DEF NamesAfter
<1> QED BY <1>2, <1>3, <1>4, <1>5 DEF ParserShape

LEMMA OtherRead ==
  ASSUME ParserShape, NEW l, NotAComment, ~IsDomain(l), outcome' \in Outcomes,
         UNCHANGED <<domain, item, subitems, enumliterals>>, doc' = Doc,
         l.class \in VersionLines => outcome' # "reading" /\ l.class # "version"
  PROVE  LineRead(l)
<1>1. DocShape(Doc) /\ Doc.domains = doc.domains /\ Doc.version = doc.version
  BY DocIs DEF ParserShape, DocShape
<1>2. IsSeq(desc') /\ clearDesc' \in BOOLEAN /\ copyright' \in BOOLEAN
  BY DescSeq DEF ParserShape, NotAComment
<1>3. PointersIn(doc.domains)'
  BY <1>1 DEF PointersIn, ParserShape
<1>4. NamesAfter(l)
  BY <1>1 DEF NamesAfter
<1> QED BY <1>1, <1>2, <1>3, <1>4 DEF ParserShape, LineRead, VersionAfter, VersionLines

(* A literal of a member that has left the document changes nothing in it.  *)
LEMMA LiteralRead ==
  ASSUME ParserShape, NEW l, ReadLiteral(l)
  PROVE  LineRead(l)
<1>1. CASE enumliterals # Detached
  BY <1>1, LiteralKept
<1>2. CASE enumliterals = Detached
  <2>1. doc' = Doc
    BY <1>2 DEF ReadLiteral
  <2>2. /\ l.class = "literal" /\ NotAComment /\ outcome' \in Outcomes
        /\ UNCHANGED <<domain, item, subitems, enumliterals>>
    BY DEF ReadLiteral, ParserShape
  <2> QED BY <2>1, <2>2, OtherRead DEF VersionLines, IsDomain
<1> QED BY <1>1, <1>2

(* Every line leaves the parser with a document and with pointers into it.  *)
LEMMA AnyLineRead ==
  ASSUME ParserShape, NEW l, LineShape(l), ReadLine(l)
  PROVE  LineRead(l)
<1>1. CASE ReadBlank(l)
  <2>1. l.class = "blank" /\ outcome' = outcome
    BY <1>1 DEF ReadBlank
  <2> QED BY <1>1, <2>1, OtherRead DEF ReadBlank, ParserShape, VersionLines, IsDomain
<1>2. CASE ReadVersion(l)
  <2>1. VersionShape(<<0, 0>>)
    BY DEF VersionShape
  <2>2. l.class = "version"
    BY <1>2 DEF ReadVersion
  <2>3. ParserShape' /\ NamesAfter(l) /\ doc'.version = <<0, 0>>
    BY <1>2, <2>1, <2>2, HeadRead DEF ReadVersion, ParserShape, IsDomain
  <2> QED BY <2>2, <2>3 DEF LineRead, VersionAfter, VersionLines
<1>3. CASE ReadMajorMinor(l)
  <2>1. PICK v, w : v = doc.version /\ w = IF l.class = "major" THEN <<l.number, v[2]>> ELSE <<v[1], l.number>>
    OBVIOUS
  <2>2. l.class \in {"major", "minor"} /\ v # <<>> /\ l.number \in Nat
    BY <1>3, <2>1 DEF ReadMajorMinor, LineShape
  <2>3. VersionShape(w)
    <3>1. VersionShape(v)
      BY <2>1 DEF ParserShape, DocShape
    <3>2. v \in Nat \X Nat
      BY <2>2, <3>1 DEF VersionShape
    <3> QED BY <2>1, <2>2, <3>2 DEF VersionShape
  <2>4. doc' = [Doc EXCEPT !.version = w]
    <3>1. Doc.version = v
      BY <2>1, DocIs DEF ParserShape, DocShape
    <3> QED BY <1>3, <2>1, <3>1 DEF ReadMajorMinor
  <2>5. ParserShape' /\ NamesAfter(l) /\ doc'.version = w
    BY <1>3, <2>2, <2>3, <2>4, HeadRead DEF ReadMajorMinor, ParserShape, IsDomain
  <2> QED BY <2>1, <2>2, <2>5 DEF LineRead, VersionAfter, VersionLines
<1>4. CASE ReadUnknown(l)
  <2>1. l.class = "unknown" /\ outcome' = "error"
    BY <1>4 DEF ReadUnknown
  <2> QED BY <1>4, <2>1, OtherRead DEF ReadUnknown, VersionLines, IsDomain, Outcomes
<1>5. CASE ReadNil(l)
  <2>1. l.class \notin {"version", "domain"} /\ outcome' = "panic"
    BY <1>5 DEF ReadNil, NilPointer, Items, Sections
  <2> QED BY <1>5, <2>1, OtherRead DEF ReadNil, VersionLines, IsDomain, Outcomes
<1> QED BY <1>1, <1>2, <1>3, <1>4, <1>5, CommentRead, DomainRead, DependsRead, ItemRead, MemberRead,
           SectionRead, EnumRead, RedirectRead, LiteralRead DEF ReadLine

-----------------------------------------------------------------------------
(* Combine.                                                                *)

(* Combine, after n documents. *)
CombineTo(f, ps, n) == IF n = 0 THEN EmptyDoc ELSE Merged(f[n - 1], ps[n])

LEMMA CombineExists ==
  ASSUME NEW ps, NEW n \in Nat
  PROVE  \E f : f = [i \in 0 .. n |-> CombineTo(f, ps, i)]
<1> DEFINE S == {m \in Nat : \E f : f = [i \in 0 .. m |-> CombineTo(f, ps, i)]}
<1>1. 0 \in S
  <2> DEFINE f == [i \in 0 .. 0 |-> EmptyDoc]
  <2>1. f = [i \in 0 .. 0 |-> CombineTo(f, ps, i)]
    BY DEF CombineTo
  <2> HIDE DEF f
  <2> QED BY <2>1
<1>2. ASSUME NEW m \in Nat, m \in S PROVE m + 1 \in S
  <2>1. PICK f : f = [i \in 0 .. m |-> CombineTo(f, ps, i)]
    BY <1>2
  <2> DEFINE h == [i \in 0 .. m + 1 |-> IF i <= m THEN f[i] ELSE CombineTo(f, ps, i)]
  <2>2. ASSUME NEW i \in 0 .. m + 1 PROVE h[i] = CombineTo(h, ps, i)
    <3>1. i > 0 => i - 1 \in 0 .. m
      OBVIOUS
    <3>2. i > 0 => h[i - 1] = f[i - 1]
      BY <3>1
    <3>3. CombineTo(h, ps, i) = CombineTo(f, ps, i)
      BY <3>2 DEF CombineTo
    <3>4. CASE i <= m
      BY <2>1, <3>3, <3>4
    <3> QED BY <3>3, <3>4
  <2>3. h = [i \in 0 .. m + 1 |-> CombineTo(h, ps, i)]
    BY <2>2
  <2> HIDE DEF h
  <2> QED BY <2>3
<1> HIDE DEF S
<1>3. n \in S
  BY <1>1, <1>2, Numbers
<1> QED BY <1>3 DEF S

LEMMA StepsOfCombine ==
  ASSUME NEW ps, IsSeq(ps)
  PROVE  \E f : Combine(ps) = f[Len(ps)] /\ \A n \in 0 .. Len(ps) : f[n] = CombineTo(f, ps, n)
<1> DEFINE P(f) == f = [n \in 0 .. Len(ps) |-> IF n = 0 THEN EmptyDoc ELSE Merged(f[n - 1], ps[n])]
<1>1. Len(ps) \in Nat
  BY SeqFacts
<1>2. \E f : P(f)
  <2>1. PICK f : f = [n \in 0 .. Len(ps) |-> CombineTo(f, ps, n)]
    BY <1>1, CombineExists
  <2>2. P(f)
    BY <2>1, Zenon DEF CombineTo
  <2> HIDE DEF P
  <2> QED BY <2>2, Zenon
<1>3. P(CHOOSE f : P(f))
  BY <1>2, Zenon
<1>4. PICK f : P(f) /\ f = CHOOSE x : P(x)
  BY <1>3
<1>5. Combine(ps) = f[Len(ps)]
  BY <1>4 DEF Combine
<1>6. f = [n \in 0 .. Len(ps) |-> CombineTo(f, ps, n)]
  BY <1>4, Zenon DEF CombineTo
<1>7. \A n \in 0 .. Len(ps) : f[n] = CombineTo(f, ps, n)
  BY <1>6, Zenon
<1> QED BY <1>5, <1>7

-----------------------------------------------------------------------------
(* The version v is not older than w. *)
Covers(v, w) == v[1] > w[1] \/ (v[1] = w[1] /\ v[2] >= w[2])

LEMMA NewerCovers ==
  ASSUME NEW v \in Nat \X Nat, NEW w, VersionShape(w)
  PROVE  /\ NewerVersion(v, w) \in Nat \X Nat /\ Covers(NewerVersion(v, w), v)
         /\ w # <<>> => Covers(NewerVersion(v, w), w)
<1>1. CASE w = <<>>
  BY <1>1 DEF NewerVersion, Covers
<1>2. CASE w # <<>>
  <2>1. w \in Nat \X Nat
    BY <1>2 DEF VersionShape
  <2>2. PICK a, b, c, d \in Nat : v = <<a, b>> /\ w = <<c, d>>
    BY <2>1
  <2>3. NewerVersion(v, w) = IF a < c THEN w ELSE IF b < d THEN <<a, d>> ELSE v
    BY <1>2, <2>2 DEF NewerVersion
  <2>4. PICK n : n = NewerVersion(v, w)
    OBVIOUS
  <2>5. CASE a < c
    BY <2>2, <2>3, <2>5 DEF Covers
  <2>6. CASE ~(a < c) /\ b < d
    <3>1. n = <<a, d>>
      BY <2>3, <2>4, <2>6
    <3>2. Covers(<<a, d>>, v) /\ Covers(<<a, d>>, w)
      BY <2>2, <2>6 DEF Covers
    <3> QED BY <2>2, <2>4, <3>1, <3>2
  <2>7. CASE ~(a < c) /\ ~(b < d)
    BY <2>2, <2>3, <2>7 DEF Covers
  <2> QED BY <2>5, <2>6, <2>7
<1> QED BY <1>1, <1>2

LEMMA NoPairEmpty == \A v \in Nat \X Nat : v # <<>>
<1> TAKE v \in Nat \X Nat
<1>1. Len(v) = 2 /\ Len(<<>>) = 0
  OBVIOUS
<1> QED BY <1>1

LEMMA CoversThrough ==
  ASSUME NEW u \in Nat \X Nat, NEW v \in Nat \X Nat, NEW w \in Nat \X Nat, Covers(u, v), Covers(v, w)
  PROVE  Covers(u, w)
<1>1. PICK a, b \in Nat : u = <<a, b>>
  OBVIOUS
<1>2. PICK c, d \in Nat : v = <<c, d>>
  OBVIOUS
<1>3. PICK e, f \in Nat : w = <<e, f>>
  OBVIOUS
<1> QED BY <1>1, <1>2, <1>3 DEF Covers

LEMMA DomainsJoined ==
  ASSUME NEW ds, NEW es, DomainsShape(ds), DomainsShape(es)
  PROVE  DomainsShape(ds \o es)
<1>1. IsSeq(ds) /\ IsSeq(es) /\ Len(ds) \in Nat /\ Len(es) \in Nat
  BY Lengths
<1>2. /\ IsSeq(ds \o es) /\ Len(ds \o es) = Len(ds) + Len(es)
      /\ \A i \in 1 .. Len(ds) : (ds \o es)[i] = ds[i]
      /\ \A i \in 1 .. Len(es) : (ds \o es)[Len(ds) + i] = es[i]
  BY <1>1, Concat
<1>3. PICK fs : fs = ds \o es
  OBVIOUS
<1>4. ASSUME NEW i \in 1 .. Len(fs) PROVE DomainShape(fs[i])
  <2>1. CASE i <= Len(ds)
    BY <1>1, <1>2, <1>3, <2>1 DEF DomainsShape
  <2>2. CASE i > Len(ds)
    <3>1. PICK j : j = i - Len(ds)
      OBVIOUS
    <3>2. j \in 1 .. Len(es) /\ i = Len(ds) + j
      BY <1>1, <1>2, <1>3, <2>2, <3>1
    <3>3. fs[i] = es[j]
      BY <1>2, <1>3, <3>2
    <3> QED BY <3>2, <3>3 DEF DomainsShape
  <2> QED BY <1>1, <1>2, <1>3, <2>1, <2>2
<1> QED BY <1>2, <1>3, <1>4 DEF DomainsShape

LEMMA MergedShape ==
  ASSUME NEW p, NEW q, DocShape(p), DocShape(q)
  PROVE  /\ DocShape(Merged(p, q)) /\ Merged(p, q).version \in Nat \X Nat
         /\ p.version # <<>> => Covers(Merged(p, q).version, p.version)
         /\ q.version # <<>> => Covers(Merged(p, q).version, q.version)
<1>1. PICK v : v = IF p.version = <<>> THEN <<0, 0>> ELSE p.version
  OBVIOUS
<1>2. v \in Nat \X Nat
  BY <1>1 DEF DocShape, VersionShape
<1>3. VersionShape(q.version)
  BY DEF DocShape
<1>4. PICK n : n = NewerVersion(v, q.version)
  OBVIOUS
<1>5. n \in Nat \X Nat /\ Covers(n, v) /\ (q.version # <<>> => Covers(n, q.version))
  BY <1>2, <1>3, <1>4, NewerCovers
<1>6. Merged(p, q).version = n
  BY <1>1, <1>4 DEF Merged
<1>7. DomainsShape(p.domains \o q.domains)
  BY DomainsJoined DEF DocShape
<1>8. DocShape(Merged(p, q))
  <2>1. IsDoc(Merged(p, q)) /\ Merged(p, q).domains = p.domains \o q.domains
    BY DEF Merged, IsDoc
  <2>2. IsSeq(Merged(p, q).copyright)
    BY DEF Merged, DocShape
  <2> QED BY <1>5, <1>6, <1>7, <2>1, <2>2 DEF DocShape, VersionShape
<1> QED BY <1>1, <1>5, <1>6, <1>8

LEMMA EmptyShape == DocShape(EmptyDoc)
  BY NoElements DEF DocShape, EmptyDoc, IsDoc, VersionShape, DomainsShape

LEMMA CombinedShape ==
  ASSUME NEW ps, IsSeq(ps), \A k \in 1 .. Len(ps) : DocShape(ps[k])
  PROVE  /\ DocShape(Combine(ps))
         /\ ps # <<>> => Combine(ps).version \in Nat \X Nat
         /\ \A k \in 1 .. Len(ps) : ps[k].version # <<>> => Covers(Combine(ps).version, ps[k].version)
<1>1. PICK f : Combine(ps) = f[Len(ps)] /\ \A n \in 0 .. Len(ps) : f[n] = CombineTo(f, ps, n)
  BY StepsOfCombine
<1>2. Len(ps) \in Nat
  BY SeqFacts
<1> DEFINE Good(n) == /\ DocShape(f[n]) /\ (n # 0 => f[n].version \in Nat \X Nat)
                      /\ \A k \in 1 .. n : ps[k].version # <<>> => Covers(f[n].version, ps[k].version)
           S == {n \in Nat : n \in 0 .. Len(ps) => Good(n)}
<1>3. 0 \in S
  <2>1. f[0] = EmptyDoc
    BY <1>1, <1>2 DEF CombineTo
  <2> QED BY <2>1, EmptyShape
<1>4. ASSUME NEW n \in Nat, n \in S PROVE n + 1 \in S
  <2> SUFFICES ASSUME n + 1 \in 0 .. Len(ps) PROVE Good(n + 1)
    OBVIOUS
  <2>1. n \in 0 .. Len(ps) /\ n + 1 \in 1 .. Len(ps)
    BY <1>2
  <2>2. Good(n)
    BY <1>4, <2>1
  <2>3. f[n + 1] = Merged(f[n], ps[n + 1])
    <3>1. n + 1 # 0 /\ (n + 1) - 1 = n
      OBVIOUS
    <3> QED BY <1>1, <3>1 DEF CombineTo
  <2>4. PICK p, q, m : p = f[n] /\ q = ps[n + 1] /\ m = f[n + 1]
    OBVIOUS
  <2>5. m = Merged(p, q) /\ DocShape(p) /\ DocShape(q)
    BY <2>1, <2>2, <2>3, <2>4
  <2>6. /\ DocShape(m) /\ m.version \in Nat \X Nat
        /\ p.version # <<>> => Covers(m.version, p.version)
        /\ q.version # <<>> => Covers(m.version, q.version)
    BY <2>5, MergedShape
  <2>7. ASSUME NEW k \in 1 .. n + 1, ps[k].version # <<>> PROVE Covers(m.version, ps[k].version)
    <3>1. CASE k = n + 1
      BY <2>4, <2>6, <2>7, <3>1
    <3>2. CASE k \in 1 .. n
      <4>1. Covers(p.version, ps[k].version) /\ p.version \in Nat \X Nat
        BY <2>2, <2>4, <2>7, <3>2
      <4>2. p.version # <<>>
        BY <4>1, NoPairEmpty
      <4>3. ps[k].version \in Nat \X Nat
        <5>1. k \in 1 .. Len(ps)
          BY <1>2, <2>1
        <5> QED BY <2>7, <5>1 DEF DocShape, VersionShape
      <4> QED BY <2>6, <4>1, <4>2, <4>3, CoversThrough
    <3> QED BY <3>1, <3>2
  <2> QED BY <2>4, <2>6, <2>7
<1> HIDE DEF S
<1>5. Len(ps) \in S
  BY <1>2, <1>3, <1>4, Numbers
<1>6. Good(Len(ps))
  BY <1>2, <1>5 DEF S
<1>7. ps # <<>> => Len(ps) # 0
  BY SeqFacts
<1> QED BY <1>1, <1>6, <1>7

-----------------------------------------------------------------------------
(* The lines that Bytes writes.                                            *)

(* Lines that neither begin a domain nor are about the version.            *)
PlainLine(l) == l.class \notin VersionLines /\ l.class # "domain"
Plain(ls) == IsSeq(ls) /\ \A l \in ToSet(ls) : PlainLine(l)

LEMMA PlainKinds ==
  /\ \A t : PlainLine([class |-> "comment", text |-> t])
  /\ \A v : PlainLine([class |-> "literal", value |-> v])
  /\ \A n : PlainLine([class |-> "redirect", name |-> n])
  /\ \A n : PlainLine([class |-> "depends", name |-> n])
  /\ \A n, f : PlainLine([class |-> "command", name |-> n, flags |-> f])
  /\ \A n, f : PlainLine([class |-> "event", name |-> n, flags |-> f])
  /\ \A s \in Sections : PlainLine([class |-> s])
  /\ PlainLine([class |-> "enum"]) /\ PlainLine([class |-> "unknown"]) /\ PlainLine([class |-> "blank"])
  /\ \A p : PlainLine(MemberLine(p))
  /\ \A t : PlainLine(TypeLine(t))
<1>1. \A p : PlainLine(MemberLine(p))
  BY DEF PlainLine, VersionLines, MemberLine
<1>2. \A t : PlainLine(TypeLine(t))
  BY DEF PlainLine, VersionLines, TypeLine
<1> QED BY <1>1, <1>2 DEF PlainLine, VersionLines, Sections

LEMMA PlainNone == Plain(<<>>)
  BY NoElements DEF Plain

LEMMA PlainOne == ASSUME NEW l, PlainLine(l) PROVE Plain(<<l>>)
  BY Single DEF Plain

LEMMA PlainBoth == ASSUME NEW ls, NEW ms, Plain(ls), Plain(ms) PROVE Plain(ls \o ms)
<1>1. IsSeq(ls \o ms) /\ ToSet(ls \o ms) = ToSet(ls) \cup ToSet(ms)
  BY Concat DEF Plain
<1> QED BY <1>1 DEF Plain

LEMMA PlainAll ==
  ASSUME NEW n \in Nat, NEW ls, ls = [i \in 1 .. n |-> ls[i]], \A i \in 1 .. n : PlainLine(ls[i])
  PROVE  Plain(ls)
<1>1. IsSeq(ls) /\ Len(ls) = n
  BY SeqFunction
<1>2. \A l \in ToSet(ls) : \E i \in 1 .. n : ls[i] = l
  BY <1>1, SeqFacts
<1> QED BY <1>1, <1>2 DEF Plain

LEMMA PlainFlat ==
  ASSUME NEW n \in Nat, NEW ss, ss = [i \in 1 .. n |-> ss[i]], \A i \in 1 .. n : Plain(ss[i])
  PROVE  Plain(FlattenSeq(ss))
<1>1. IsSeq(ss) /\ Len(ss) = n
  BY SeqFunction
<1>2. \A i \in 1 .. Len(ss) : IsSeq(ss[i])
  BY <1>1 DEF Plain
<1>3. /\ IsSeq(FlattenSeq(ss))
      /\ \A x : x \in ToSet(FlattenSeq(ss)) <=> \E i \in 1 .. Len(ss) : x \in ToSet(ss[i])
  BY <1>1, <1>2, FlattenElements
<1> QED BY <1>1, <1>3 DEF Plain

(* The lines of each part.                                                 *)
LEMMA PlainDesc == ASSUME NEW d, IsSeq(d) PROVE Plain(DescLines(d))
<1>1. Len(d) \in Nat
  BY SeqFacts
<1>2. PICK ls : ls = DescLines(d)
  OBVIOUS
<1>3. ls = [i \in 1 .. Len(d) |-> ls[i]] /\ \A i \in 1 .. Len(d) : ls[i] = [class |-> "comment", text |-> d[i]]
  BY <1>2 DEF DescLines
<1>4. \A i \in 1 .. Len(d) : PlainLine(ls[i])
  BY <1>3, PlainKinds
<1> QED BY <1>1, <1>2, <1>3, <1>4, PlainAll

LEMMA PlainLiterals == ASSUME NEW d, IsSeq(d) PROVE Plain(LiteralLines(d))
<1>1. Len(d) \in Nat
  BY SeqFacts
<1>2. PICK ls : ls = LiteralLines(d)
  OBVIOUS
<1>3. ls = [i \in 1 .. Len(d) |-> ls[i]] /\ \A i \in 1 .. Len(d) : ls[i] = [class |-> "literal", value |-> d[i]]
  BY <1>2 DEF LiteralLines
<1>4. \A i \in 1 .. Len(d) : PlainLine(ls[i])
  BY <1>3, PlainKinds
<1> QED BY <1>1, <1>2, <1>3, <1>4, PlainAll

(* The two parts of RedirectLines. *)
InsteadLines(t) ==
  IF t.redirect[2] = "" THEN <<>>
  ELSE DescLines(<<CHOOSE x \in DOMAIN Instead : Instead[x] = t.redirect[2]>>)

RedirectLine(t, isType) ==
  IF isType THEN [class |-> "unknown"] ELSE [class |-> "redirect", name |-> t.redirect[1]]

LEMMA RedirectParts ==
  \A t, isType : RedirectLines(t, isType) = IF t.redirect = <<>> THEN <<>>
                                            ELSE InsteadLines(t) \o <<RedirectLine(t, isType)>>
  BY Zenon DEF RedirectLines, InsteadLines, RedirectLine

LEMMA PlainRedirect == ASSUME NEW t, NEW isType PROVE Plain(RedirectLines(t, isType))
<1>1. PlainLine(RedirectLine(t, isType))
  BY PlainKinds DEF RedirectLine
<1>2. Plain(<<RedirectLine(t, isType)>>)
  BY <1>1, PlainOne
<1>3. Plain(InsteadLines(t))
  <2>1. \A y : Plain(DescLines(<<y>>))
    BY Single, PlainDesc
  <2> QED BY <2>1, PlainNone, Zenon DEF InsteadLines
<1>4. RedirectLines(t, isType) = IF t.redirect = <<>> THEN <<>>
                                 ELSE InsteadLines(t) \o <<RedirectLine(t, isType)>>
  BY RedirectParts
<1>5. Plain(InsteadLines(t) \o <<RedirectLine(t, isType)>>)
  BY <1>2, <1>3, PlainBoth
<1> QED BY <1>4, <1>5, PlainNone

LEMMA PlainMember == ASSUME NEW p, MemberShape(p) PROVE Plain(MemberLines(p))
<1>1. Plain(DescLines(p.desc)) /\ Plain(LiteralLines(p.enum)) /\ Plain(<<MemberLine(p)>>)
  BY PlainDesc, PlainLiterals, PlainKinds, PlainOne DEF MemberShape
<1>2. Plain(DescLines(p.desc) \o <<MemberLine(p)>>)
  BY <1>1, PlainBoth
<1> QED BY <1>1, <1>2, PlainBoth DEF MemberLines

LEMMA PlainProps == ASSUME NEW s \in Sections, NEW ms, MembersShape(ms) PROVE Plain(PropLines(s, ms))
<1>1. PICK ss : ss = [i \in 1 .. Len(ms) |-> MemberLines(ms[i])]
  OBVIOUS
<1>2. Len(ms) \in Nat
  BY SeqFacts DEF MembersShape
<1>3. \A i \in 1 .. Len(ms) : Plain(MemberLines(ms[i]))
  BY PlainMember DEF MembersShape
<1>4. ss = [i \in 1 .. Len(ms) |-> ss[i]] /\ \A i \in 1 .. Len(ms) : ss[i] = MemberLines(ms[i])
  BY <1>1
<1>5. Plain(FlattenSeq(ss))
  BY <1>2, <1>3, <1>4, PlainFlat
<1>6. PICK x : x = [class |-> s]
  OBVIOUS
<1>7. Plain(<<x>>)
  BY <1>6, PlainKinds, PlainOne
<1>8. Plain(<<x>> \o FlattenSeq(ss))
  BY <1>5, <1>7, PlainBoth
<1>9. PropLines(s, ms) = IF ms = <<>> THEN <<>> ELSE <<x>> \o FlattenSeq(ss)
  BY <1>1, <1>6 DEF PropLines
<1> QED BY <1>8, <1>9, PlainNone

LEMMA PlainItem ==
  ASSUME NEW t, ItemShape(t)
  PROVE  Plain(TypeLines(t)) /\ Plain(CommandLines(t)) /\ Plain(EventLines(t))
<1>1. PICK b, d, e, pr, pa, re : /\ b = Blank /\ d = DescLines(t.desc) /\ e = LiteralLines(t.enum)
                                 /\ pr = PropLines("properties", t.properties)
                                 /\ pa = PropLines("parameters", t.parameters)
                                 /\ re = PropLines("returns", t.returns)
  OBVIOUS
<1>2. Plain(b) /\ Plain(d) /\ Plain(e)
  <2>1. Plain(Blank)
    BY PlainKinds, PlainOne DEF Blank
  <2> QED BY <1>1, <2>1, PlainDesc, PlainLiterals DEF ItemShape
<1>3. Plain(pr) /\ Plain(pa) /\ Plain(re)
  <2>1. MembersShape(t.properties) /\ MembersShape(t.parameters) /\ MembersShape(t.returns)
    BY DEF ItemShape, Sections
  <2>2. "properties" \in Sections /\ "parameters" \in Sections /\ "returns" \in Sections
    BY DEF Sections
  <2> QED BY <1>1, <2>1, <2>2, PlainProps
<1>4. PICK x, y, z, w : /\ x = TypeLine(t) /\ y = [class |-> "command", name |-> t.name, flags |-> t.flags]
                        /\ z = [class |-> "event", name |-> t.name, flags |-> t.flags]
                        /\ w = [class |-> "enum"]
  OBVIOUS
<1>5. Plain(<<x>>) /\ Plain(<<y>>) /\ Plain(<<z>>) /\ Plain(<<w>>)
  BY <1>4, PlainKinds, PlainOne
<1>6. PICK r, q : r = RedirectLines(t, TRUE) /\ q = RedirectLines(t, FALSE)
  OBVIOUS
<1>7. Plain(r) /\ Plain(q)
  BY <1>6, PlainRedirect
<1>8. PICK v : v = IF t.enum = <<>> THEN <<>> ELSE <<w>> \o e
  OBVIOUS
<1>9. Plain(v)
  <2>1. Plain(<<w>> \o e)
    BY <1>2, <1>5, PlainBoth
  <2> QED BY <1>8, <2>1, PlainNone
<1>10. TypeLines(t) = d \o <<x>> \o r \o v \o pr \o b
  BY <1>1, <1>4, <1>6, <1>8 DEF TypeLines
<1>11. CommandLines(t) = d \o <<y>> \o q \o pa \o re \o b
  BY <1>1, <1>4, <1>6 DEF CommandLines
<1>12. EventLines(t) = d \o <<z>> \o q \o pa \o b
  BY <1>1, <1>4, <1>6 DEF EventLines
<1>13. Plain(d \o <<x>> \o r \o v \o pr \o b)
  BY <1>2, <1>3, <1>5, <1>7, <1>9, PlainBoth
<1>14. Plain(d \o <<y>> \o q \o pa \o re \o b)
  BY <1>2, <1>3, <1>5, <1>7, PlainBoth
<1>15. Plain(d \o <<z>> \o q \o pa \o b)
  BY <1>2, <1>3, <1>5, <1>7, PlainBoth
<1> QED BY <1>10, <1>11, <1>12, <1>13, <1>14, <1>15

LEMMA PlainItems ==
  ASSUME NEW ts, ItemsShape(ts)
  PROVE  /\ Plain(FlattenSeq([i \in 1 .. Len(ts) |-> TypeLines(ts[i])]))
         /\ Plain(FlattenSeq([i \in 1 .. Len(ts) |-> CommandLines(ts[i])]))
         /\ Plain(FlattenSeq([i \in 1 .. Len(ts) |-> EventLines(ts[i])]))
<1>1. Len(ts) \in Nat /\ \A i \in 1 .. Len(ts) : ItemShape(ts[i])
  BY SeqFacts DEF ItemsShape
<1>2. PICK n : n = Len(ts)
  OBVIOUS
<1>3. PICK ss : ss = [i \in 1 .. n |-> TypeLines(ts[i])]
  OBVIOUS
<1>4. PICK us : us = [i \in 1 .. n |-> CommandLines(ts[i])]
  OBVIOUS
<1>5. PICK vs : vs = [i \in 1 .. n |-> EventLines(ts[i])]
  OBVIOUS
<1>6. ss = [i \in 1 .. n |-> ss[i]] /\ \A i \in 1 .. n : Plain(ss[i])
  BY <1>1, <1>2, <1>3, PlainItem
<1>7. us = [i \in 1 .. n |-> us[i]] /\ \A i \in 1 .. n : Plain(us[i])
  BY <1>1, <1>2, <1>4, PlainItem
<1>8. vs = [i \in 1 .. n |-> vs[i]] /\ \A i \in 1 .. n : Plain(vs[i])
  BY <1>1, <1>2, <1>5, PlainItem
<1>9. Plain(FlattenSeq(ss)) /\ Plain(FlattenSeq(us)) /\ Plain(FlattenSeq(vs))
  BY <1>1, <1>2, <1>6, <1>7, <1>8, PlainFlat
<1> QED BY <1>2, <1>3, <1>4, <1>5, <1>9

(* Lines of which only the one of a domain named n begins a domain.        *)
PartOf(ls, n) ==
  IsSeq(ls) /\ \A l \in ToSet(ls) : l.class \notin VersionLines /\ (l.class = "domain" => l.name = n)

LEMMA PlainPart == ASSUME NEW ls, Plain(ls), NEW n PROVE PartOf(ls, n)
  BY DEF Plain, PlainLine, PartOf

LEMMA PartsJoined ==
  ASSUME NEW n, NEW ls, NEW ms, PartOf(ls, n), PartOf(ms, n) PROVE PartOf(ls \o ms, n)
<1>1. IsSeq(ls \o ms) /\ ToSet(ls \o ms) = ToSet(ls) \cup ToSet(ms)
  BY Concat DEF PartOf
<1> QED BY <1>1 DEF PartOf

LEMMA LinesOfDomain == ASSUME NEW d, DomainShape(d) PROVE PartOf(DomainLines(d), d.name)
<1>1. PICK a, x, b, c : /\ a = DescLines(d.desc) /\ b = Blank
                        /\ x = [class |-> "domain", name |-> d.name, flags |-> d.flags]
                        /\ c = [i \in 1 .. Len(d.dependencies) |-> [class |-> "depends", name |-> d.dependencies[i]]]
  OBVIOUS
<1>2. PICK ts, cs, es : /\ ts = FlattenSeq([i \in 1 .. Len(d.types) |-> TypeLines(d.types[i])])
                        /\ cs = FlattenSeq([i \in 1 .. Len(d.commands) |-> CommandLines(d.commands[i])])
                        /\ es = FlattenSeq([i \in 1 .. Len(d.events) |-> EventLines(d.events[i])])
  OBVIOUS
<1>3. Plain(a)
  BY <1>1, PlainDesc DEF DomainShape
<1>4. Plain(b)
  BY <1>1, PlainKinds, PlainOne DEF Blank
<1>5. Plain(c)
  <2>1. PICK n : n = Len(d.dependencies)
    OBVIOUS
  <2>2. n \in Nat
    BY <2>1, SeqFacts DEF DomainShape
  <2>3. c = [i \in 1 .. n |-> c[i]] /\ \A i \in 1 .. n : c[i] = [class |-> "depends", name |-> d.dependencies[i]]
    BY <1>1, <2>1
  <2>4. \A i \in 1 .. n : PlainLine(c[i])
    BY <2>3, PlainKinds
  <2> QED BY <2>2, <2>3, <2>4, PlainAll
<1>6. Plain(ts) /\ Plain(cs) /\ Plain(es)
  <2>1. ItemsShape(d.types) /\ ItemsShape(d.commands) /\ ItemsShape(d.events)
    BY DEF DomainShape, ItemLists
  <2> QED BY <1>2, <2>1, PlainItems
<1>7. PartOf(<<x>>, d.name)
  <2>1. x.class \notin VersionLines /\ x.name = d.name
    BY <1>1 DEF VersionLines
  <2> QED BY <2>1, Single DEF PartOf
<1>8. DomainLines(d) = a \o <<x>> \o c \o b \o ts \o cs \o es
  BY <1>1, <1>2 DEF DomainLines
<1>9. PICK n : n = d.name
  OBVIOUS
<1>10. PartOf(a \o <<x>> \o c \o b \o ts \o cs \o es, n)
  BY <1>3, <1>4, <1>5, <1>6, <1>7, <1>9, PlainPart, PartsJoined
<1> QED BY <1>8, <1>9, <1>10

(* Where the version is written in lines: k is where its first line was.   *)
VersionAt(ls, k, v) ==
  /\ k + 2 <= Len(ls)
  /\ \A i \in 1 .. Len(ls) : ls[i].class \in VersionLines => i \in k .. k + 2
  /\ 1 <= k => ls[k].class = "version"
  /\ 1 <= k + 1 => ls[k + 1].class = "major" /\ ls[k + 1].number = v[1]
  /\ 1 <= k + 2 => ls[k + 2].class = "minor" /\ ls[k + 2].number = v[2]

(* The domains begin in the order of their names.                          *)
DomainsBegin(ls) ==
  \A i, j \in 1 .. Len(ls) :
    i < j /\ ls[i].class = "domain" /\ ls[j].class = "domain" => ls[i].name <= ls[j].name

LEMMA PermutedSeq ==
  ASSUME NEW s, IsSeq(s), NEW t \in Permuted(s)
  PROVE  IsSeq(t) /\ Len(t) = Len(s) /\ \A i \in 1 .. Len(t) : \E j \in 1 .. Len(s) : t[i] = s[j]
<1>1. PICK f \in Bijection(1 .. Len(s), 1 .. Len(s)) : t = [i \in 1 .. Len(s) |-> s[f[i]]]
  BY DEF Permuted
<1>2. Len(s) \in Nat /\ \A i \in 1 .. Len(s) : f[i] \in 1 .. Len(s)
  BY SeqFacts DEF Bijection, Injection
<1>3. t = [i \in 1 .. Len(s) |-> t[i]]
  BY <1>1
<1>4. IsSeq(t) /\ Len(t) = Len(s)
  BY <1>2, <1>3, SeqFunction
<1> QED BY <1>1, <1>2, <1>4

LEMMA SortedItems == ASSUME NEW ts, ItemsShape(ts), NEW us \in Sorted(ts, ByName) PROVE ItemsShape(us)
<1>1. us \in Permuted(ts)
  BY DEF Sorted
<1> QED BY <1>1, PermutedSeq DEF ItemsShape

LEMMA RearrangedDomain ==
  ASSUME NEW d, DomainShape(d), NEW e \in Rearranged(d)
  PROVE  DomainShape(e) /\ e.name = d.name
<1>1. PICK ts \in Sorted(d.types, ByName), cs \in Sorted(d.commands, ByName), es \in Sorted(d.events, ByName) :
        e = WithLists(d, ts, cs, es)
  BY DEF Rearranged
<1>2. ItemsShape(ts) /\ ItemsShape(cs) /\ ItemsShape(es)
  BY SortedItems DEF DomainShape, ItemLists
<1>3. {"name", "dependencies"} \cup ItemLists \subseteq DOMAIN d
  BY DEF DomainShape
<1>4. /\ DOMAIN e = DOMAIN d /\ e.name = d.name /\ e.desc = d.desc /\ e.dependencies = d.dependencies
      /\ e.types = ts /\ e.commands = cs /\ e.events = es
  BY <1>1, <1>3 DEF ItemLists, WithLists
<1>5. \A list \in ItemLists : ItemsShape(e[list])
  BY <1>2, <1>4 DEF ItemLists
<1> QED BY <1>3, <1>4, <1>5 DEF DomainShape

NoVersion(ls) == IsSeq(ls) /\ \A i \in 1 .. Len(ls) : ls[i].class \notin VersionLines

LEMMA PartNoVersion == ASSUME NEW ls, NEW n, PartOf(ls, n) PROVE NoVersion(ls)
  BY SeqFacts DEF PartOf, NoVersion

LEMMA VersionWritten ==
  ASSUME NEW x, NEW y, NEW z, NEW v,
         x.class = "version", y.class = "major", y.number = v[1], z.class = "minor", z.number = v[2]
  PROVE  IsSeq(<<x, y, z>>) /\ VersionAt(<<x, y, z>>, 1, v)
<1>1. PICK s : s = <<x, y, z>>
  OBVIOUS
<1>2. s \in Seq({x, y, z}) /\ Len(s) = 3 /\ s[1] = x /\ s[2] = y /\ s[3] = z
  BY <1>1
<1>3. 1 + 1 = 2 /\ 1 + 2 = 3 /\ 1 .. 3 = 1 .. 1 + 2
  OBVIOUS
<1>4. VersionAt(s, 1, v)
  BY <1>2, <1>3 DEF VersionAt
<1> QED BY <1>1, <1>2, <1>4, AnySeq

LEMMA VersionBefore ==
  ASSUME NEW ls, IsSeq(ls), NEW b, NoVersion(b), NEW k \in Nat, 1 <= k, NEW v, VersionAt(ls, k, v)
  PROVE  IsSeq(ls \o b) /\ VersionAt(ls \o b, k, v)
<1>1. PICK s : s = ls \o b
  OBVIOUS
<1>2. Len(ls) \in Nat /\ Len(b) \in Nat /\ IsSeq(b)
  BY SeqFacts DEF NoVersion
<1>3. /\ IsSeq(s) /\ Len(s) = Len(ls) + Len(b)
      /\ \A i \in 1 .. Len(ls) : s[i] = ls[i]
      /\ \A i \in 1 .. Len(b) : s[Len(ls) + i] = b[i]
  BY <1>1, <1>2, Concat
<1>4. k \in 1 .. Len(ls) /\ k + 1 \in 1 .. Len(ls) /\ k + 2 \in 1 .. Len(ls) /\ k + 2 <= Len(s)
  BY <1>2, <1>3 DEF VersionAt
<1>5. s[k] = ls[k] /\ s[k + 1] = ls[k + 1] /\ s[k + 2] = ls[k + 2]
  BY <1>3, <1>4
<1>6. ASSUME NEW i \in 1 .. Len(s), s[i].class \in VersionLines PROVE i \in k .. k + 2
  <2>1. CASE i <= Len(ls)
    <3>1. i \in 1 .. Len(ls) /\ s[i] = ls[i]
      BY <1>2, <1>3, <2>1
    <3> QED BY <1>6, <3>1 DEF VersionAt
  <2>2. CASE i > Len(ls)
    <3>1. i - Len(ls) \in 1 .. Len(b) /\ i = Len(ls) + (i - Len(ls))
      BY <1>2, <1>3, <2>2
    <3>2. s[i] = b[i - Len(ls)]
      BY <1>3, <3>1
    <3> QED BY <1>6, <3>1, <3>2 DEF NoVersion
  <2> QED BY <1>2, <1>3, <2>1, <2>2
<1>7. VersionAt(s, k, v)
  BY <1>4, <1>5, <1>6 DEF VersionAt
<1> QED BY <1>1, <1>3, <1>7

LEMMA VersionAfterwards ==
  ASSUME NEW ls, IsSeq(ls), NEW a, NoVersion(a), NEW k \in Nat, 1 <= k, NEW v, VersionAt(ls, k, v)
  PROVE  IsSeq(a \o ls) /\ VersionAt(a \o ls, Len(a) + k, v)
<1>1. PICK s, n, m : s = a \o ls /\ n = Len(a) /\ m = Len(a) + k
  OBVIOUS
<1>2. Len(ls) \in Nat /\ n \in Nat /\ m \in Nat /\ IsSeq(a)
  BY <1>1, SeqFacts DEF NoVersion
<1>3. /\ IsSeq(s) /\ Len(s) = n + Len(ls)
      /\ \A i \in 1 .. n : s[i] = a[i]
      /\ \A i \in 1 .. Len(ls) : s[n + i] = ls[i]
  BY <1>1, <1>2, Concat
<1>4. k \in 1 .. Len(ls) /\ k + 1 \in 1 .. Len(ls) /\ k + 2 \in 1 .. Len(ls)
  BY <1>2 DEF VersionAt
<1>5. m + 2 <= Len(s) /\ m + 1 = n + (k + 1) /\ m + 2 = n + (k + 2) /\ m = n + k
  BY <1>1, <1>2, <1>3, <1>4
<1>6. s[m] = ls[k] /\ s[m + 1] = ls[k + 1] /\ s[m + 2] = ls[k + 2]
  BY <1>3, <1>4, <1>5
<1>7. ASSUME NEW i \in 1 .. Len(s), s[i].class \in VersionLines PROVE i \in m .. m + 2
  <2>1. CASE i <= n
    <3>1. i \in 1 .. n /\ s[i] = a[i]
      BY <1>2, <1>3, <2>1
    <3> QED BY <1>1, <1>7, <3>1 DEF NoVersion
  <2>2. CASE i > n
    <3>1. PICK j : j = i - n
      OBVIOUS
    <3>2. j \in 1 .. Len(ls) /\ i = n + j
      BY <1>2, <1>3, <2>2, <3>1
    <3>3. s[i] = ls[j]
      BY <1>3, <3>2
    <3>4. j \in k .. k + 2
      BY <1>7, <3>2, <3>3 DEF VersionAt
    <3> QED BY <1>2, <1>5, <3>2, <3>4
  <2> QED BY <1>2, <1>3, <2>1, <2>2
<1>8. VersionAt(s, m, v)
  <2>1. 1 <= k + 1 /\ 1 <= k + 2
    OBVIOUS
  <2>2. ls[k].class = "version" /\ ls[k + 1].class = "major" /\ ls[k + 1].number = v[1]
        /\ ls[k + 2].class = "minor" /\ ls[k + 2].number = v[2]
    BY <2>1 DEF VersionAt
  <2> QED BY <1>5, <1>6, <1>7, <2>2 DEF VersionAt
<1> QED BY <1>1, <1>3, <1>8

(* The lines in front of the domains: comments, and the version.           *)
LEMMA Header ==
  ASSUME NEW d, IsSeq(d.copyright), d.version \in Nat \X Nat
  PROVE  /\ IsSeq(HeaderLines(d)) /\ \A l \in ToSet(HeaderLines(d)) : l.class # "domain"
         /\ \E k \in Nat : 1 <= k /\ VersionAt(HeaderLines(d), k, d.version)
         /\ \A l \in ToSet(HeaderLines(d)) : LineShape(l)
<1>1. PICK c, b, v : /\ c = (IF d.copyright = <<>> THEN <<>> ELSE DescLines(d.copyright) \o Blank)
                     /\ b = Blank /\ v = d.version
  OBVIOUS
<1>2. PICK x, y, z : /\ x = [class |-> "version"] /\ y = [class |-> "major", number |-> v[1]]
                     /\ z = [class |-> "minor", number |-> v[2]]
  OBVIOUS
<1>3. Plain(b)
  BY <1>1, PlainKinds, PlainOne DEF Blank
<1>4. Plain(c)
  <2>1. Plain(DescLines(d.copyright) \o b)
    BY <1>3, PlainDesc, PlainBoth
  <2> QED BY <1>1, <2>1, PlainNone
<1>5. v # <<>> /\ v[1] \in Nat /\ v[2] \in Nat
  BY <1>1, NoPairEmpty
<1>6. HeaderLines(d) = c \o (<<x, y, z>> \o b)
  BY <1>1, <1>2, <1>5 DEF HeaderLines
<1>7. IsSeq(<<x, y, z>>) /\ VersionAt(<<x, y, z>>, 1, v)
  BY <1>2, VersionWritten
<1>8. NoVersion(b) /\ NoVersion(c)
  BY <1>3, <1>4, PlainPart, PartNoVersion
<1>9. PICK t : t = <<x, y, z>> \o b
  OBVIOUS
<1>10. IsSeq(t) /\ VersionAt(t, 1, v)
  BY <1>7, <1>8, <1>9, VersionBefore
<1>11. IsSeq(c \o t) /\ VersionAt(c \o t, Len(c) + 1, v)
  BY <1>8, <1>10, VersionAfterwards
<1>12. Len(c) + 1 \in Nat /\ 1 <= Len(c) + 1
  BY <1>4, SeqFacts DEF Plain
<1>13. ToSet(c \o t) = ToSet(c) \cup ToSet(<<x, y, z>>) \cup ToSet(b)
  BY <1>3, <1>4, <1>7, <1>9, <1>10, Concat DEF Plain
<1>14. ToSet(<<x, y, z>>) = {x, y, z}
  <2>1. DOMAIN <<x, y, z>> = 1 .. 3
    OBVIOUS
  <2>2. 1 .. 3 = {1, 2, 3}
    OBVIOUS
  <2> QED BY <2>1, <2>2 DEF ToSet
<1>15. ASSUME NEW l \in ToSet(c \o t) PROVE l.class # "domain" /\ LineShape(l)
  <2>1. CASE l \in ToSet(c) \cup ToSet(b)
    BY <1>3, <1>4, <2>1 DEF Plain, PlainLine, LineShape, VersionLines
  <2>2. CASE l \in {x, y, z}
    BY <1>2, <1>5, <2>2 DEF LineShape
  <2> QED BY <1>13, <1>14, <1>15, <2>1, <2>2
<1> QED BY <1>1, <1>6, <1>9, <1>11, <1>12, <1>15

(* The domains in the order in which Bytes writes them.                    *)
LEMMA DomainsWritten ==
  ASSUME NEW d, DomainsShape(d.domains), NEW ls \in Bytes(d)
  PROVE  \E ds : /\ DomainsShape(ds) /\ \A i, j \in 1 .. Len(ds) : i < j => ds[i].name <= ds[j].name
                 /\ ls = HeaderLines(d) \o FlattenSeq([i \in 1 .. Len(ds) |-> DomainLines(ds[i])])
<1>1. PICK s, ds : /\ s \in Sorted(d.domains, ByDomain)
                   /\ ds \in [1 .. Len(s) -> UNION {Rearranged(s[i]) : i \in 1 .. Len(s)}]
                   /\ \A i \in 1 .. Len(s) : ds[i] \in Rearranged(s[i])
                   /\ ls = HeaderLines(d) \o FlattenSeq([i \in 1 .. Len(ds) |-> DomainLines(ds[i])])
  BY DEF Bytes
<1>2. s \in Permuted(d.domains) /\ \A i, j \in 1 .. Len(s) : i < j => ~ByDomain(s[j], s[i])
  BY <1>1 DEF Sorted
<1>3. IsSeq(s) /\ \A i \in 1 .. Len(s) : DomainShape(s[i])
  BY <1>2, PermutedSeq DEF DomainsShape
<1>4. Len(s) \in Nat /\ ds = [i \in 1 .. Len(s) |-> ds[i]]
  BY <1>1, <1>3, SeqFacts
<1>5. IsSeq(ds) /\ Len(ds) = Len(s)
  BY <1>4, SeqFunction
<1>6. \A i \in 1 .. Len(s) : DomainShape(ds[i]) /\ ds[i].name = s[i].name
  BY <1>1, <1>3, RearrangedDomain
<1>7. DomainsShape(ds)
  BY <1>5, <1>6 DEF DomainsShape
<1>8. ASSUME NEW i \in 1 .. Len(ds), NEW j \in 1 .. Len(ds), i < j PROVE ds[i].name <= ds[j].name
  <2>1. ~(s[j].name < s[i].name)
    BY <1>2, <1>5, <1>8 DEF ByDomain
  <2>2. s[i].name \in Nat /\ s[j].name \in Nat
    BY <1>3, <1>5 DEF DomainShape
  <2> QED BY <1>5, <1>6, <2>1, <2>2
<1> QED BY <1>1, <1>7, <1>8

LEMMA DomainsFlat ==
  ASSUME NEW ds, DomainsShape(ds), \A i, j \in 1 .. Len(ds) : i < j => ds[i].name <= ds[j].name,
         NEW f, f = FlattenSeq([i \in 1 .. Len(ds) |-> DomainLines(ds[i])])
  PROVE  NoVersion(f) /\ DomainsBegin(f) /\ \A k \in 1 .. Len(f) : LineShape(f[k])
<1>1. PICK ss : ss = [i \in 1 .. Len(ds) |-> DomainLines(ds[i])]
  OBVIOUS
<1>2. Len(ds) \in Nat /\ ss = [i \in 1 .. Len(ds) |-> ss[i]] /\ \A i \in 1 .. Len(ds) : ss[i] = DomainLines(ds[i])
  BY <1>1, SeqFacts DEF DomainsShape
<1>3. IsSeq(ss) /\ Len(ss) = Len(ds)
  BY <1>2, SeqFunction
<1>4. \A i \in 1 .. Len(ss) : DomainShape(ds[i]) /\ PartOf(ss[i], ds[i].name)
  BY <1>2, <1>3, LinesOfDomain DEF DomainsShape
<1>5. f = FlattenSeq(ss)
  BY <1>1
<1>6. \A i \in 1 .. Len(ss) : IsSeq(ss[i])
  BY <1>4 DEF PartOf
<1>7. IsSeq(f) /\ \E row, col : Places(f, ss, Len(ss), row, col)
  BY <1>3, <1>5, <1>6, FlattenPlaces
<1>8. PICK row, col : Places(f, ss, Len(ss), row, col)
  BY <1>7
<1>9. ASSUME NEW k \in 1 .. Len(f)
      PROVE  /\ row[k] \in 1 .. Len(ss) /\ f[k].class \notin VersionLines
             /\ f[k].class = "domain" => f[k].name = ds[row[k]].name
             /\ ds[row[k]].name \in Nat
  <2>1. row[k] \in 1 .. Len(ss) /\ col[k] \in 1 .. Len(ss[row[k]]) /\ f[k] = ss[row[k]][col[k]]
    BY <1>8 DEF Places
  <2>2. PICK r, l : r = row[k] /\ l = f[k]
    OBVIOUS
  <2>3. l \in ToSet(ss[r])
    BY <1>6, <2>1, <2>2, SeqFacts
  <2>4. DomainShape(ds[r]) /\ PartOf(ss[r], ds[r].name)
    BY <1>4, <2>1, <2>2
  <2>5. l.class \notin VersionLines /\ (l.class = "domain" => l.name = ds[r].name)
    BY <2>3, <2>4 DEF PartOf
  <2>6. ds[r].name \in Nat
    BY <2>4 DEF DomainShape
  <2> QED BY <2>1, <2>2, <2>5, <2>6
<1>10. NoVersion(f)
  BY <1>7, <1>9 DEF NoVersion
<1>11. ASSUME NEW i \in 1 .. Len(f), NEW j \in 1 .. Len(f), i < j, f[i].class = "domain", f[j].class = "domain"
       PROVE  f[i].name <= f[j].name
  <2>1. row[i] < row[j] \/ row[i] = row[j]
    BY <1>8, <1>11 DEF Places
  <2>2. ds[row[i]].name <= ds[row[j]].name
    BY <1>3, <1>9, <2>1
  <2> QED BY <1>9, <1>11, <2>2
<1>12. \A k \in 1 .. Len(f) : LineShape(f[k])
  BY <1>9 DEF LineShape, VersionLines
<1> QED BY <1>10, <1>11, <1>12 DEF DomainsBegin

(* What Bytes writes for a document with a version. *)
Written(ls, v) ==
  /\ IsSeq(ls) /\ \A i \in 1 .. Len(ls) : LineShape(ls[i])
  /\ \E k \in Nat : 1 <= k /\ VersionAt(ls, k, v)
  /\ DomainsBegin(ls)

LEMMA BytesLines ==
  ASSUME NEW d, DocShape(d), d.version \in Nat \X Nat, NEW ls \in Bytes(d)
  PROVE  Written(ls, d.version)
<1>1. PICK ds : /\ DomainsShape(ds) /\ \A i, j \in 1 .. Len(ds) : i < j => ds[i].name <= ds[j].name
                /\ ls = HeaderLines(d) \o FlattenSeq([i \in 1 .. Len(ds) |-> DomainLines(ds[i])])
  BY DomainsWritten DEF DocShape
<1>2. PICK h, f, v : h = HeaderLines(d) /\ v = d.version
                  /\ f = FlattenSeq([i \in 1 .. Len(ds) |-> DomainLines(ds[i])])
  OBVIOUS
<1>3. NoVersion(f) /\ DomainsBegin(f) /\ \A k \in 1 .. Len(f) : LineShape(f[k])
  BY <1>1, <1>2, DomainsFlat
<1>4. /\ IsSeq(h) /\ \A l \in ToSet(h) : l.class # "domain" /\ LineShape(l)
      /\ \E k \in Nat : 1 <= k /\ VersionAt(h, k, v)
  BY <1>2, Header DEF DocShape
<1>5. ls = h \o f
  BY <1>1, <1>2
<1>6. PICK k \in Nat : 1 <= k /\ VersionAt(h, k, v)
  BY <1>4
<1>7. IsSeq(ls) /\ VersionAt(ls, k, v)
  BY <1>3, <1>4, <1>5, <1>6, VersionBefore
<1>8. /\ Len(ls) = Len(h) + Len(f) /\ Len(h) \in Nat /\ Len(f) \in Nat
      /\ \A i \in 1 .. Len(h) : ls[i] = h[i]
      /\ \A i \in 1 .. Len(f) : ls[Len(h) + i] = f[i]
  BY <1>3, <1>4, <1>5, Concat, SeqFacts DEF NoVersion
<1>9. ASSUME NEW i \in 1 .. Len(ls)
      PROVE  \/ i \in 1 .. Len(h) /\ ls[i].class # "domain" /\ LineShape(ls[i])
             \/ i - Len(h) \in 1 .. Len(f) /\ ls[i] = f[i - Len(h)]
  <2>1. CASE i <= Len(h)
    <3>1. i \in 1 .. Len(h) /\ ls[i] = h[i]
      BY <1>8, <2>1
    <3>2. h[i] \in ToSet(h)
      BY <1>4, <3>1, SeqFacts
    <3> QED BY <1>4, <3>1, <3>2
  <2>2. CASE i > Len(h)
    <3>1. PICK j : j = i - Len(h)
      OBVIOUS
    <3>2. j \in 1 .. Len(f) /\ i = Len(h) + j
      BY <1>8, <2>2, <3>1
    <3> QED BY <1>8, <3>1, <3>2
  <2> QED BY <1>8, <2>1, <2>2
<1>10. \A i \in 1 .. Len(ls) : LineShape(ls[i])
  BY <1>3, <1>9
<1>11. DomainsBegin(ls)
  <2> SUFFICES ASSUME NEW i \in 1 .. Len(ls), NEW j \in 1 .. Len(ls), i < j,
                      ls[i].class = "domain", ls[j].class = "domain"
               PROVE  ls[i].name <= ls[j].name
    BY DEF DomainsBegin
  <2>1. PICK a, b : a = i - Len(h) /\ b = j - Len(h)
    OBVIOUS
  <2>2. a \in 1 .. Len(f) /\ b \in 1 .. Len(f) /\ ls[i] = f[a] /\ ls[j] = f[b]
    BY <1>9, <2>1
  <2>3. a < b
    BY <1>8, <2>1
  <2>4. f[a].name <= f[b].name
    BY <1>3, <2>2, <2>3 DEF DomainsBegin
  <2> QED BY <2>2, <2>4
<1> QED BY <1>2, <1>6, <1>7, <1>10, <1>11 DEF Written

-----------------------------------------------------------------------------
(* The combined file is read back.                                         *)

(* How much of the version v is read, when the lines k + 1 and k + 2 of what *)
(* is left have its parts.                                                  *)
VersionRead(k, v) ==
  /\ k = 0 => doc.version # <<>>
  /\ k = -1 => doc.version # <<>> /\ doc.version[1] = v[1]
  /\ k <= -2 => doc.version = v

LEMMA VersionMoves ==
  ASSUME NEW ls, IsSeq(ls), ls # <<>>, NEW k \in Int, NEW v, VersionAt(ls, k, v)
  PROVE  VersionAt(Tail(ls), k - 1, v)
<1>1. PICK t, n, m : t = Tail(ls) /\ n = Len(ls) /\ m = k - 1
  OBVIOUS
<1>2. n - 1 \in Nat /\ Len(t) = n - 1 /\ \A i \in 1 .. n - 1 : t[i] = ls[i + 1] /\ i + 1 \in 1 .. n
  BY <1>1, HeadTail
<1>3. n \in Nat
  BY <1>1, SeqFacts
<1>4. m + 2 <= Len(t)
  BY <1>1, <1>2, <1>3 DEF VersionAt
<1>5. ASSUME NEW i \in 1 .. Len(t), t[i].class \in VersionLines PROVE i \in m .. m + 2
  <2>1. i + 1 \in k .. k + 2
    BY <1>1, <1>2, <1>5 DEF VersionAt
  <2> QED BY <1>1, <2>1
<1>6. ASSUME 1 <= m PROVE t[m].class = "version"
  <2>1. m \in 1 .. n - 1 /\ m + 1 = k /\ 1 <= k
    BY <1>1, <1>2, <1>3, <1>4, <1>6
  <2> QED BY <1>2, <2>1 DEF VersionAt
<1>7. ASSUME 1 <= m + 1 PROVE t[m + 1].class = "major" /\ t[m + 1].number = v[1]
  <2>1. m + 1 \in 1 .. n - 1 /\ (m + 1) + 1 = k + 1 /\ 1 <= k + 1
    BY <1>1, <1>2, <1>3, <1>4, <1>7
  <2> QED BY <1>2, <2>1 DEF VersionAt
<1>8. ASSUME 1 <= m + 2 PROVE t[m + 2].class = "minor" /\ t[m + 2].number = v[2]
  <2>1. m + 2 \in 1 .. n - 1 /\ (m + 2) + 1 = k + 2 /\ 1 <= k + 2
    BY <1>1, <1>2, <1>3, <1>4, <1>8
  <2> QED BY <1>2, <2>1 DEF VersionAt
<1>9. VersionAt(t, m, v)
  BY <1>4, <1>5, <1>6, <1>7, <1>8 DEF VersionAt
<1> QED BY <1>1, <1>9

LEMMA VersionStep ==
  ASSUME NEW ls, IsSeq(ls), ls # <<>>, NEW k \in Int, NEW v \in Nat \X Nat, VersionAt(ls, k, v),
         VersionRead(k, v), VersionAfter(Head(ls)), outcome' = "reading"
  PROVE  VersionRead(k - 1, v)'
<1>1. PICK l : l = ls[1]
  OBVIOUS
<1>2. 1 \in 1 .. Len(ls) /\ Head(ls) = l
  BY <1>1, HeadTail
<1>3. VersionAfter(l)
  BY <1>2
<1>4. CASE k >= 2 \/ k <= -2
  <2>1. l.class \notin VersionLines
    <3>1. 1 \notin k .. k + 2
      BY <1>4
    <3> QED BY <1>1, <1>2, <3>1 DEF VersionAt
  <2>2. doc'.version = doc.version
    BY <1>3, <2>1 DEF VersionAfter
  <2>3. k >= 2 => k - 1 # 0 /\ k - 1 # -1 /\ ~(k - 1 <= -2)
    OBVIOUS
  <2>4. k <= -2 => k - 1 # 0 /\ k - 1 # -1
    OBVIOUS
  <2> QED BY <1>4, <2>2, <2>3, <2>4 DEF VersionRead
<1>5. CASE k = 1
  <2>1. l.class = "version"
    BY <1>1, <1>5 DEF VersionAt
  <2>2. doc'.version = <<0, 0>>
    BY <1>3, <2>1 DEF VersionAfter
  <2>3. doc'.version # <<>>
    BY <2>2, NoPairEmpty
  <2> QED BY <1>5, <2>3 DEF VersionRead
<1>6. CASE k = 0
  <2>1. l.class = "major" /\ l.number = v[1]
    BY <1>1, <1>6 DEF VersionAt
  <2>2. doc'.version = <<l.number, doc.version[2]>>
    BY <1>3, <2>1 DEF VersionAfter
  <2>3. doc'.version # <<>> /\ doc'.version[1] = v[1]
    BY <2>1, <2>2
  <2> QED BY <1>6, <2>3 DEF VersionRead
<1>7. CASE k = -1
  <2>1. l.class = "minor" /\ l.number = v[2]
    BY <1>1, <1>7 DEF VersionAt
  <2>2. doc'.version = <<doc.version[1], l.number>>
    BY <1>3, <2>1 DEF VersionAfter
  <2>3. doc.version[1] = v[1]
    BY <1>7 DEF VersionRead
  <2>4. doc'.version = v
    BY <2>1, <2>2, <2>3
  <2> QED BY <1>7, <2>4 DEF VersionRead
<1> QED BY <1>4, <1>5, <1>6, <1>7

-----------------------------------------------------------------------------
(* No domain that is still to be read comes before one that has been.      *)
DomainsBefore(ds, ls) ==
  \A i \in 1 .. Len(ds) : \A j \in 1 .. Len(ls) : ls[j].class = "domain" => ds[i].name <= ls[j].name

LEMMA DomainsStep ==
  ASSUME NEW ls, IsSeq(ls), ls # <<>>, DomainsBegin(ls), InOrder(doc.domains),
         DomainsBefore(doc.domains, ls), Len(doc.domains) \in Nat, NamesAfter(Head(ls))
  PROVE  /\ DomainsBegin(Tail(ls))
         /\ InOrder(doc.domains)' /\ DomainsBefore(doc'.domains, Tail(ls))
<1>1. PICK l, t, n, m : l = ls[1] /\ t = Tail(ls) /\ n = Len(ls) /\ m = Len(doc.domains)
  OBVIOUS
<1>2. /\ 1 \in 1 .. n /\ Head(ls) = l /\ n - 1 \in Nat /\ Len(t) = n - 1
      /\ \A i \in 1 .. n - 1 : t[i] = ls[i + 1] /\ i + 1 \in 1 .. n
  BY <1>1, HeadTail
<1>3. PICK ds, es : ds = doc.domains /\ es = doc'.domains
  OBVIOUS
<1>4. /\ m \in Nat /\ \A i \in 1 .. m : es[i].name = ds[i].name
      /\ IF l.class = "domain" THEN Len(es) = m + 1 /\ es[m + 1].name = l.name ELSE Len(es) = m
  BY <1>1, <1>2, <1>3 DEF NamesAfter, IsDomain
<1>5. DomainsBegin(t)
  BY <1>1, <1>2 DEF DomainsBegin
<1>6. ASSUME NEW i \in 1 .. Len(es), NEW j \in 1 .. Len(es), i < j PROVE es[i].name <= es[j].name
  <2>1. CASE j <= m
    <3>1. i \in 1 .. m /\ j \in 1 .. m
      BY <1>4, <1>6, <2>1
    <3>2. ds[i].name <= ds[j].name
      BY <1>1, <1>3, <1>6, <3>1 DEF InOrder
    <3> QED BY <1>4, <3>1, <3>2
  <2>2. CASE j > m
    <3>1. l.class = "domain" /\ j = m + 1 /\ i \in 1 .. m
      BY <1>4, <1>6, <2>2
    <3>2. ds[i].name <= l.name
      BY <1>1, <1>2, <1>3, <3>1 DEF DomainsBefore
    <3> QED BY <1>4, <3>1, <3>2
  <2> QED BY <1>4, <2>1, <2>2
<1>7. ASSUME NEW i \in 1 .. Len(es), NEW j \in 1 .. Len(t), t[j].class = "domain"
      PROVE  es[i].name <= t[j].name
  <2>1. t[j] = ls[j + 1] /\ j + 1 \in 1 .. n /\ 1 < j + 1
    BY <1>2
  <2>2. CASE i \in 1 .. m
    <3>1. ds[i].name <= ls[j + 1].name
      BY <1>1, <1>3, <1>7, <2>1, <2>2 DEF DomainsBefore
    <3> QED BY <1>4, <2>1, <2>2, <3>1
  <2>3. CASE i \notin 1 .. m
    <3>1. l.class = "domain" /\ i = m + 1
      BY <1>4, <2>3
    <3>2. l.name <= ls[j + 1].name
      BY <1>1, <1>2, <1>7, <2>1, <3>1 DEF DomainsBegin
    <3> QED BY <1>4, <2>1, <3>1, <3>2
  <2> QED BY <2>2, <2>3
<1>8. InOrder(doc.domains)'
  BY <1>3, <1>6 DEF InOrder
<1>9. DomainsBefore(doc'.domains, t)
  BY <1>3, <1>7 DEF DomainsBefore
<1> QED BY <1>1, <1>5, <1>8, <1>9

(* The inductive invariant: what the parser holds, what the files gave, and *)
(* what is left of the combined file.                                       *)
Parts ==
  /\ IsSeq(files) /\ IsSeq(read) /\ IsSeq(pdls) /\ Len(pdls) = Len(files)
  /\ \A k \in 1 .. Len(pdls) : DocShape(pdls[k])

Version == Combine(pdls).version

Combined ==
  /\ pdls # <<>>
  /\ IsSeq(input) /\ \A i \in 1 .. Len(input) : LineShape(input[i])
  /\ DomainsBegin(input) /\ InOrder(doc.domains) /\ DomainsBefore(doc.domains, input)
  /\ outcome = "reading" => \E k \in Int : VersionAt(input, k, Version) /\ VersionRead(k, Version)

FilesInv ==
  /\ ParserShape /\ Parts
  /\ phase \in {"files", "combined"}
  /\ phase = "files" => input = <<>> /\ (read = <<>> => doc = EmptyDoc)
  /\ phase = "combined" => Combined

LEMMA StartShape ==
  ASSUME doc = EmptyDoc, domain = <<>>, item = <<>>, subitems = <<>>, enumliterals = <<>>,
         desc = <<>>, clearDesc = FALSE, copyright = FALSE, outcome = "reading"
  PROVE  ParserShape
  BY EmptyShape, NoElements DEF ParserShape, PointersIn, Outcomes, EmptyDoc

LEMMA RestartShape == ASSUME ParseRestart PROVE ParserShape' /\ doc' = EmptyDoc /\ outcome' = "reading"
<1>1. DocShape(doc') /\ IsSeq(desc')
  BY EmptyShape, NoElements DEF ParseRestart
<1> QED BY <1>1 DEF ParseRestart, ParserShape, PointersIn, Outcomes, EmptyDoc

LEMMA FilesStart == Init => FilesInv
<1> SUFFICES ASSUME Init PROVE FilesInv
  OBVIOUS
<1>1. ParserShape
  BY StartShape DEF Init, ParseInit
<1>2. Parts
  BY NoElements DEF Init, Parts
<1> QED BY <1>1, <1>2 DEF Init, ParseInit, FilesInv

LEMMA FileRead == ASSUME FilesInv, ReadFile PROVE FilesInv'
<1>1. PICK s \in SamplesLeft : \E l \in s.lines : ReadLine(l) /\ read' = Append(read, l)
  BY DEF ReadFile
<1>2. PICK l \in s.lines : ReadLine(l) /\ read' = Append(read, l)
  BY <1>1
<1>3. LineShape(l)
  BY <1>2, FilesConstants DEF SamplesLeft, LineShape
<1>4. ParserShape'
  BY <1>2, <1>3, AnyLineRead DEF FilesInv, LineRead
<1>5. IsSeq(read') /\ read' # <<>>
  <2>1. IsSeq(read)
    BY DEF FilesInv, Parts
  <2>2. IsSeq(read') /\ Len(read') = Len(read) + 1
    BY <1>2, <2>1, Appended
  <2> QED BY <2>1, <2>2, SeqFacts
<1>6. Parts'
  BY <1>5 DEF FilesInv, Parts, ReadFile
<1> QED BY <1>4, <1>5, <1>6 DEF FilesInv, ReadFile

LEMMA FileEnds == ASSUME FilesInv, EndOfFile PROVE FilesInv'
<1>1. ParserShape' /\ doc' = EmptyDoc
  BY RestartShape DEF EndOfFile
<1>2. DocShape(doc) /\ Parts
  BY DEF FilesInv, ParserShape
<1>3. IsSeq(read') /\ read' = <<>>
  BY NoElements DEF EndOfFile
<1>4. PICK fs, ps, d : fs = files' /\ ps = pdls' /\ d = doc
  OBVIOUS
<1>5. fs = Append(files, read) /\ ps = Append(pdls, d)
  BY <1>4 DEF EndOfFile
<1>6. /\ IsSeq(fs) /\ IsSeq(ps) /\ Len(fs) = Len(files) + 1 /\ Len(ps) = Len(pdls) + 1
      /\ ps[Len(pdls) + 1] = d /\ \A k \in 1 .. Len(pdls) : ps[k] = pdls[k]
  BY <1>2, <1>5, Appended DEF Parts
<1>7. \A k \in 1 .. Len(ps) : DocShape(ps[k])
  <2>1. Len(pdls) \in Nat
    BY <1>2, SeqFacts DEF Parts
  <2>2. \A k \in 1 .. Len(ps) : k \in 1 .. Len(pdls) \/ k = Len(pdls) + 1
    BY <1>6, <2>1
  <2> QED BY <1>2, <1>4, <1>6, <2>2 DEF Parts
<1>8. Parts'
  BY <1>2, <1>3, <1>4, <1>6, <1>7 DEF Parts
<1> QED BY <1>1, <1>8 DEF FilesInv, EndOfFile

LEMMA FilesCombined == ASSUME FilesInv, CombineBytes PROVE FilesInv'
<1>1. phase = "files" /\ phase' = "combined" /\ UNCHANGED <<files, pdls, read>> /\ files # <<>>
      /\ input = <<>> /\ doc = EmptyDoc /\ Parts /\ Parts'
  BY DEF CombineBytes, FilesInv, Parts
<1>2. pdls # <<>>
  BY <1>1, SeqFacts DEF Parts
<1>3. PICK d, v : d = Combine(pdls) /\ v = Version
  OBVIOUS
<1>4. DocShape(d) /\ d.version \in Nat \X Nat /\ v = d.version
  BY <1>1, <1>2, <1>3, CombinedShape DEF Parts, Version
<1>5. v = Version'
  BY <1>1, <1>3 DEF Version
<1>6. InOrder(EmptyDoc.domains) /\ \A ls : DomainsBefore(EmptyDoc.domains, ls)
  BY DEF EmptyDoc, InOrder, DomainsBefore
<1>7. CASE HasBareArray(Combine(pdls))
  <2>1. /\ outcome' = "panic" /\ input' = <<>> /\ doc' = EmptyDoc
        /\ UNCHANGED <<domain, item, subitems, enumliterals, desc, clearDesc, copyright>>
    BY <1>1, <1>7 DEF CombineBytes
  <2>2. ParserShape'
    BY <1>1, <2>1 DEF FilesInv, ParserShape, PointersIn, Outcomes
  <2>3. IsSeq(<<>>) /\ Len(<<>>) = 0 /\ DomainsBegin(<<>>)
    BY NoElements DEF DomainsBegin
  <2>4. InOrder(doc.domains)' /\ DomainsBefore(doc'.domains, input')
    BY <1>6, <2>1 DEF InOrder, DomainsBefore
  <2>5. Combined'
    BY <1>1, <1>2, <2>1, <2>3, <2>4 DEF Combined
  <2> QED BY <1>1, <2>2, <2>5 DEF FilesInv
<1>8. CASE ~HasBareArray(Combine(pdls))
  <2>1. ParserShape' /\ doc' = EmptyDoc /\ input' \in Bytes(d)
    BY <1>3, <1>8, RestartShape DEF CombineBytes
  <2>2. PICK ls : ls = input'
    OBVIOUS
  <2>3. Written(ls, v)
    BY <1>4, <2>1, <2>2, BytesLines
  <2>4. PICK k \in Nat : 1 <= k /\ VersionAt(ls, k, v)
    BY <2>3 DEF Written
  <2>5. VersionRead(k, v)'
    BY <2>4 DEF VersionRead
  <2>6. \E n \in Int : VersionAt(input', n, Version') /\ VersionRead(n, Version)'
    <3>1. VersionAt(input', k, Version') /\ VersionRead(k, Version)'
      BY <1>5, <2>2, <2>4, <2>5 DEF VersionRead
    <3> QED BY <3>1
  <2>7. InOrder(doc.domains)' /\ DomainsBefore(doc'.domains, input')
    BY <1>6, <2>1 DEF InOrder, DomainsBefore
  <2>8. IsSeq(input') /\ (\A i \in 1 .. Len(input') : LineShape(input'[i])) /\ DomainsBegin(input')
    BY <2>2, <2>3 DEF Written
  <2>9. Combined'
    BY <1>1, <1>2, <2>6, <2>7, <2>8 DEF Combined
  <2> QED BY <1>1, <2>1, <2>9 DEF FilesInv
<1> QED BY <1>7, <1>8

LEMMA CombinedRead == ASSUME FilesInv, ReadCombined PROVE FilesInv'
<1>1. /\ phase = "combined" /\ phase' = "combined" /\ input # <<>> /\ input' = Tail(input)
      /\ UNCHANGED <<files, pdls, read>> /\ ReadLine(Head(input)) /\ Combined /\ ParserShape /\ Parts'
  BY DEF ReadCombined, FilesInv, Parts
<1>2. PICK ls, l, t : ls = input /\ l = Head(input) /\ t = Tail(input)
  OBVIOUS
<1>3. IsSeq(ls) /\ ls # <<>> /\ \A i \in 1 .. Len(ls) : LineShape(ls[i])
  BY <1>1, <1>2 DEF Combined
<1>4. /\ 1 \in 1 .. Len(ls) /\ l = ls[1] /\ IsSeq(t) /\ Len(t) = Len(ls) - 1
      /\ \A i \in 1 .. Len(ls) - 1 : t[i] = ls[i + 1] /\ i + 1 \in 1 .. Len(ls)
  BY <1>2, <1>3, HeadTail
<1>5. LineRead(l)
  BY <1>1, <1>2, <1>3, <1>4, AnyLineRead
<1>6. ParserShape' /\ NamesAfter(l) /\ VersionAfter(l)
  BY <1>5 DEF LineRead
<1>7. \A i \in 1 .. Len(t) : LineShape(t[i])
  BY <1>3, <1>4
<1>8. Len(doc.domains) \in Nat
  BY <1>1, Lengths DEF ParserShape, DocShape
<1>9. DomainsBegin(t) /\ InOrder(doc.domains)' /\ DomainsBefore(doc'.domains, t)
  BY <1>1, <1>2, <1>3, <1>6, <1>8, DomainsStep DEF Combined
<1>10. ASSUME outcome' = "reading"
       PROVE  \E k \in Int : VersionAt(input', k, Version') /\ VersionRead(k, Version)'
  <2>1. PICK v : v = Version
    OBVIOUS
  <2>2. v = Version' /\ v \in Nat \X Nat
    <3>1. DocShape(Combine(pdls)) /\ Combine(pdls).version \in Nat \X Nat
      BY <1>1, CombinedShape DEF FilesInv, Parts, Combined
    <3> QED BY <1>1, <2>1, <3>1 DEF Version
  <2>3. outcome = "reading"
    BY <1>1 DEF ReadLine
  <2>4. PICK k \in Int : VersionAt(ls, k, v) /\ VersionRead(k, v)
    BY <1>1, <1>2, <2>1, <2>3 DEF Combined
  <2>5. VersionAt(t, k - 1, v)
    BY <1>2, <1>3, <2>4, VersionMoves
  <2>6. VersionRead(k - 1, v)'
    BY <1>2, <1>3, <1>6, <1>10, <2>2, <2>4, VersionStep
  <2>7. VersionAt(input', k - 1, Version') /\ VersionRead(k - 1, Version)'
    BY <1>1, <1>2, <2>2, <2>5, <2>6 DEF VersionRead
  <2> QED BY <2>7
<1>11. Combined'
  BY <1>1, <1>2, <1>4, <1>7, <1>9, <1>10 DEF Combined
<1> QED BY <1>1, <1>6, <1>11 DEF FilesInv

LEMMA FilesStep == FilesInv /\ [Next]_vars => FilesInv'
<1> SUFFICES ASSUME FilesInv, [Next]_vars PROVE FilesInv'
  OBVIOUS
<1>1. CASE UNCHANGED vars
  <2>1. UNCHANGED <<doc, domain, item, subitems, enumliterals, desc, clearDesc, copyright, outcome,
                    phase, files, pdls, read, input>>
    BY <1>1 DEF vars, parser
  <2>2. ParserShape'
    BY <2>1 DEF FilesInv, ParserShape, PointersIn
  <2>3. Parts'
    BY <2>1 DEF FilesInv, Parts
  <2>4. Combined => Combined'
    BY <2>1 DEF Combined, InOrder, VersionRead, Version
  <2> QED BY <2>1, <2>2, <2>3, <2>4 DEF FilesInv
<1> QED BY <1>1, FileRead, FileEnds, FilesCombined, CombinedRead DEF Next

-----------------------------------------------------------------------------
(* Literals, and the members that they belong to.                          *)

(* The items of the lists of es are those of ds, and there is x in place c. *)
OtherItem(ds, es, a, b, c, x) ==
  \A i \in 1 .. Len(ds) : \A list \in ItemLists : \A j \in 1 .. Len(ds[i][list]) :
    es[i][list][j] = IF i = a /\ list = b /\ j = c THEN x ELSE ds[i][list][j]

LEMMA ItemPut ==
  ASSUME NEW ds, DomainsShape(ds), NEW a, NEW b \in ItemLists, NEW c, NEW x
  PROVE  OtherItem(ds, PutItem(ds, a, b, c, x), a, b, c, x)
<1>1. IsSeq(ds) /\ Len(ds) \in Nat /\ \A i \in 1 .. Len(ds) : DomainShape(ds[i])
  BY Lengths
<1>2. PICK d, us, e, es : d = ds[a] /\ us = Put(d[b], c, x) /\ e = [d EXCEPT ![b] = us] /\ es = Put(ds, a, e)
  OBVIOUS
<1>3. es = PutItem(ds, a, b, c, x)
  BY <1>2 DEF Put, PutItem
<1>4. \A i \in 1 .. Len(ds) : es[i] = IF i = a THEN e ELSE ds[i]
  BY <1>1, <1>2, OnePlace
<1>5. ASSUME a \in 1 .. Len(ds), NEW list \in ItemLists, NEW j \in 1 .. Len(d[list])
      PROVE  e[list][j] = IF list = b /\ j = c THEN x ELSE d[list][j]
  <2>1. DomainShape(d) /\ IsSeq(d[list])
    BY <1>1, <1>2, <1>5 DEF DomainShape, ItemsShape
  <2>2. e[list] = IF list = b THEN us ELSE d[list]
    BY <1>2, <2>1 DEF DomainShape, ItemLists
  <2>3. CASE list = b
    <3>1. us[j] = IF j = c THEN x ELSE d[b][j]
      BY <1>2, <1>5, <2>1, <2>3, OnePlace
    <3> QED BY <2>2, <2>3, <3>1
  <2>4. CASE list # b
    BY <2>2, <2>4
  <2> QED BY <2>3, <2>4
<1>6. ASSUME NEW i \in 1 .. Len(ds), NEW list \in ItemLists, NEW j \in 1 .. Len(ds[i][list])
      PROVE  es[i][list][j] = IF i = a /\ list = b /\ j = c THEN x ELSE ds[i][list][j]
  <2>1. CASE i = a
    <3>1. es[i] = e /\ ds[i] = d
      BY <1>2, <1>4, <2>1
    <3>2. e[list][j] = IF list = b /\ j = c THEN x ELSE d[list][j]
      BY <1>5, <2>1, <3>1
    <3> QED BY <2>1, <3>1, <3>2
  <2>2. CASE i # a
    BY <1>4, <2>2
  <2> QED BY <2>1, <2>2
<1> QED BY <1>3, <1>6 DEF OtherItem

(* An item that is added leaves the others where they are.                 *)
ItemsStay(ds, es) ==
  \A i \in 1 .. Len(ds) : \A list \in ItemLists : \A j \in 1 .. Len(ds[i][list]) :
    es[i][list][j] = ds[i][list][j]

LEMMA ItemAppended ==
  ASSUME NEW ds, DomainsShape(ds), NEW a \in 1 .. Len(ds), NEW b \in ItemLists, NEW x,
         NEW es, es = AddItem(ds, a, b, x)
  PROVE  ItemsStay(ds, es) /\ es[a][b][Len(ds[a][b]) + 1] = x
<1>1. IsSeq(ds) /\ Len(ds) \in Nat /\ \A i \in 1 .. Len(ds) : DomainShape(ds[i])
  BY Lengths
<1>2. PICK d, us, e : d = ds[a] /\ us = Append(d[b], x) /\ e = [d EXCEPT ![b] = us]
  OBVIOUS
<1>3. es = Put(ds, a, e)
  BY <1>2 DEF Put, AddItem
<1>4. \A i \in 1 .. Len(ds) : es[i] = IF i = a THEN e ELSE ds[i]
  BY <1>1, <1>3, OnePlace
<1>5. DomainShape(d) /\ \A list \in ItemLists : e[list] = IF list = b THEN us ELSE d[list]
  <2>1. DomainShape(d)
    BY <1>1, <1>2
  <2> QED BY <1>2, <2>1 DEF DomainShape, ItemLists
<1>6. us[Len(d[b]) + 1] = x /\ \A j \in 1 .. Len(d[b]) : us[j] = d[b][j]
  BY <1>2, <1>5, Appended DEF DomainShape, ItemsShape
<1>7. ASSUME NEW i \in 1 .. Len(ds), NEW list \in ItemLists, NEW j \in 1 .. Len(ds[i][list])
      PROVE  es[i][list][j] = ds[i][list][j]
  <2>1. CASE i = a /\ list = b
    <3>1. es[i][list] = us /\ ds[i][list] = d[b]
      BY <1>2, <1>4, <1>5, <2>1
    <3> QED BY <1>6, <3>1
  <2>2. CASE i = a /\ list # b
    BY <1>2, <1>4, <1>5, <2>2
  <2>3. CASE i # a
    BY <1>4, <2>3
  <2> QED BY <2>1, <2>2, <2>3
<1>8. es[a][b][Len(ds[a][b]) + 1] = x
  BY <1>2, <1>4, <1>5, <1>6
<1> QED BY <1>7, <1>8 DEF ItemsStay

(* A member has literals only when it is declared as an enum.              *)
LiteralsOfEnums(ms) == \A k \in 1 .. Len(ms) : ms[k].enum # <<>> => IsEnum(ms[k])

EnumsOnly(t) == Sections \subseteq DOMAIN t /\ \A f \in Sections : LiteralsOfEnums(t[f])

EnumsIn(ds) ==
  \A i \in 1 .. Len(ds) : \A list \in ItemLists : \A j \in 1 .. Len(ds[i][list]) : EnumsOnly(ds[i][list][j])

(* The pointer e leads to an enum of the item t.                           *)
AtEnum(t, e) == e[4] \in Sections /\ e[5] \in 1 .. Len(t[e[4]]) /\ IsEnum(t[e[4]][e[5]])

ToEnum(e, ds) ==
  e \notin {<<>>, Detached} => Len(e) = 3 \/ (Len(e) = 5 /\ AtEnum(ds[e[1]][e[2]][e[3]], e))

EnumsKept == EnumsIn(doc.domains) /\ ToEnum(enumliterals, doc.domains)

LEMMA EnumDeclared == ASSUME NEW m, NEW a, m.typ = Assigned("enum", a) PROVE IsEnum(m)
<1>1. Assigned("enum", a) = Assigned("enum", TRUE) \/ Assigned("enum", a) = Assigned("enum", FALSE)
  BY DEF Assigned
<1> QED BY <1>1 DEF IsEnum

(* The items of es are those of ds, but for the item at p, which becomes x. *)
LEMMA EnumsPut ==
  ASSUME NEW ds, DomainsShape(ds), EnumsIn(ds), NEW p, InDoc(p, ds), NEW x, ItemShape(x), EnumsOnly(x),
         NEW es, es = PutItem(ds, p[1], p[2], p[3], x)
  PROVE  /\ EnumsIn(es) /\ es[p[1]][p[2]][p[3]] = x
         /\ \A q : InDoc(q, ds) /\ ~(q[1] = p[1] /\ q[2] = p[2] /\ q[3] = p[3]) =>
              es[q[1]][q[2]][q[3]] = ds[q[1]][q[2]][q[3]]
<1>1. p[1] \in 1 .. Len(ds) /\ p[2] \in ItemLists /\ p[3] \in 1 .. Len(ds[p[1]][p[2]])
  BY DEF InDoc
<1>2. SameLengths(ds, es)
  BY <1>1, ItemChanged
<1>3. PICK a, b, c : a = p[1] /\ b = p[2] /\ c = p[3]
  OBVIOUS
<1>4. OtherItem(ds, es, a, b, c, x)
  BY <1>1, <1>3, ItemPut
<1>5. ASSUME NEW i \in 1 .. Len(es), NEW list \in ItemLists, NEW j \in 1 .. Len(es[i][list])
      PROVE  EnumsOnly(es[i][list][j])
  <2>1. i \in 1 .. Len(ds) /\ j \in 1 .. Len(ds[i][list])
    BY <1>2 DEF SameLengths
  <2>2. es[i][list][j] = IF i = a /\ list = b /\ j = c THEN x ELSE ds[i][list][j]
    BY <1>4, <2>1 DEF OtherItem
  <2>3. EnumsOnly(ds[i][list][j])
    BY <2>1 DEF EnumsIn
  <2> QED BY <2>2, <2>3
<1>6. es[a][b][c] = x
  BY <1>1, <1>3, <1>4 DEF OtherItem
<1>7. ASSUME NEW q, InDoc(q, ds), ~(q[1] = a /\ q[2] = b /\ q[3] = c)
      PROVE  es[q[1]][q[2]][q[3]] = ds[q[1]][q[2]][q[3]]
  BY <1>4, <1>7 DEF OtherItem, InDoc
<1> QED BY <1>3, <1>5, <1>6, <1>7 DEF EnumsIn

(* The step of a line that changes the item at p: what is left to show is   *)
(* where enumliterals leads afterwards.                                     *)
AtPlace(e, p) == e[1] = p[1] /\ e[2] = p[2] /\ e[3] = p[3]

LEMMA EnumsPlace ==
  ASSUME ParserShape, EnumsKept, NEW p, InDoc(p, doc.domains), NEW x, ItemShape(x), EnumsOnly(x),
         doc' = DocWith(PutItem(doc.domains, p[1], p[2], p[3], x)),
         \/ enumliterals' \in {<<>>, Detached} \/ Len(enumliterals') = 3
         \/ AtPlace(enumliterals', p) /\ Len(enumliterals') = 5 /\ AtEnum(x, enumliterals')
         \/ enumliterals' = enumliterals /\ ~AtPlace(enumliterals, p)
  PROVE  EnumsKept'
<1>1. PICK ds, es : ds = doc.domains /\ es = PutItem(ds, p[1], p[2], p[3], x)
  OBVIOUS
<1>2. DomainsShape(ds) /\ EnumsIn(ds) /\ PointersIn(ds) /\ ToEnum(enumliterals, ds)
  BY <1>1 DEF ParserShape, DocShape, EnumsKept
<1>3. doc'.domains = es
  BY <1>1, DocParts DEF DocWith
<1>4. /\ EnumsIn(es) /\ es[p[1]][p[2]][p[3]] = x
      /\ \A q : InDoc(q, ds) /\ ~AtPlace(q, p) => es[q[1]][q[2]][q[3]] = ds[q[1]][q[2]][q[3]]
  BY <1>1, <1>2, EnumsPut DEF AtPlace
<1>5. ToEnum(enumliterals', es)
  <2>1. CASE enumliterals' \in {<<>>, Detached} \/ Len(enumliterals') = 3
    BY <2>1 DEF ToEnum
  <2>2. CASE AtPlace(enumliterals', p) /\ Len(enumliterals') = 5 /\ AtEnum(x, enumliterals')
    BY <1>4, <2>2 DEF ToEnum, AtPlace
  <2>3. CASE enumliterals' = enumliterals /\ ~AtPlace(enumliterals, p) /\ enumliterals \notin {<<>>, Detached}
    <3>1. InDoc(enumliterals, ds)
      BY <1>2, <2>3 DEF PointersIn
    <3>2. PICK e : e = enumliterals
      OBVIOUS
    <3>3. es[e[1]][e[2]][e[3]] = ds[e[1]][e[2]][e[3]]
      BY <1>4, <2>3, <3>1, <3>2
    <3> QED BY <1>2, <2>3, <3>2, <3>3 DEF ToEnum
  <2> QED BY <2>1, <2>2, <2>3
<1> QED BY <1>3, <1>4, <1>5 DEF EnumsKept

(* The item that a pointer leads to holds literals of enums only.          *)
LEMMA EnumsThere ==
  ASSUME ParserShape, EnumsKept, NEW p, InDoc(p, doc.domains)
  PROVE  ItemShape(doc.domains[p[1]][p[2]][p[3]]) /\ EnumsOnly(doc.domains[p[1]][p[2]][p[3]])
  BY ItemThere DEF ParserShape, DocShape, EnumsKept, EnumsIn, InDoc

(* Where enumliterals stays, and the members of the item are not changed.  *)
LEMMA EnumsStay ==
  ASSUME ParserShape, EnumsKept, NEW p, InDoc(p, doc.domains), NEW x, ItemShape(x),
         DOMAIN x = DOMAIN doc.domains[p[1]][p[2]][p[3]],
         \A f \in Sections : x[f] = doc.domains[p[1]][p[2]][p[3]][f],
         doc' = DocWith(PutItem(doc.domains, p[1], p[2], p[3], x)),
         enumliterals' = enumliterals \/ Len(enumliterals') = 3
  PROVE  EnumsKept'
<1>1. PICK t : t = doc.domains[p[1]][p[2]][p[3]]
  OBVIOUS
<1>2. EnumsOnly(t)
  BY <1>1, EnumsThere
<1>3. EnumsOnly(x)
  BY <1>1, <1>2 DEF EnumsOnly
<1>4. ASSUME AtPlace(enumliterals, p), enumliterals \notin {<<>>, Detached}, Len(enumliterals) # 3
      PROVE  Len(enumliterals) = 5 /\ AtEnum(x, enumliterals)
  <2>1. Len(enumliterals) = 5 /\ AtEnum(t, enumliterals)
    BY <1>1, <1>4 DEF EnumsKept, ToEnum, AtPlace
  <2>2. enumliterals[4] \in Sections /\ x[enumliterals[4]] = t[enumliterals[4]]
    BY <1>1, <2>1 DEF AtEnum
  <2> QED BY <2>1, <2>2 DEF AtEnum
<1> QED BY <1>3, <1>4, EnumsPlace

(* A list that starts again: the member that enumliterals points to is      *)
(* another one, or has left the document.                                   *)
LEMMA SectionEnums ==
  ASSUME ParserShape, EnumsKept, NEW l, ReadSection(l)
  PROVE  EnumsKept'
<1>1. PICK p, t, x : p = item /\ t = doc.domains[p[1]][p[2]][p[3]] /\ x = [t EXCEPT ![l.class] = <<>>]
  OBVIOUS
<1>2. l.class \in Sections /\ item # <<>> /\ subitems' = <<p[1], p[2], p[3], l.class>>
      /\ enumliterals' = IF MemberIn(enumliterals, subitems') THEN Detached ELSE enumliterals
  BY <1>1 DEF ReadSection
<1>3. InDoc(p, doc.domains)
  BY <1>1, <1>2 DEF ParserShape, PointersIn
<1>4. ItemShape(t) /\ EnumsOnly(t)
  BY <1>1, <1>3, EnumsThere
<1>5. MembersShape(<<>>) /\ Len(<<>>) = 0
  BY NoElements DEF MembersShape
<1>6. ItemShape(x)
  BY <1>1, <1>2, <1>4, <1>5, MembersChanged
<1>7. DOMAIN x = DOMAIN t /\ \A f \in Sections : x[f] = IF f = l.class THEN <<>> ELSE t[f]
  BY <1>1, <1>2, <1>4 DEF EnumsOnly
<1>8. EnumsOnly(x)
  <2>1. LiteralsOfEnums(<<>>)
    BY <1>5 DEF LiteralsOfEnums
  <2> QED BY <1>4, <1>7, <2>1 DEF EnumsOnly
<1>9. doc' = DocWith(PutItem(doc.domains, p[1], p[2], p[3], x))
  <2>1. Doc.domains = doc.domains
    BY DocIs DEF ParserShape, DocShape
  <2>2. doc' = [Doc EXCEPT !.domains = PutItem(Doc.domains, p[1], p[2], p[3], x)]
    BY <1>1, <2>1 DEF ReadSection, PutItem
  <2> QED BY <2>1, <2>2 DEF DocWith
<1>10. ASSUME enumliterals' # Detached, enumliterals \notin {<<>>, Detached}, Len(enumliterals) # 3,
              AtPlace(enumliterals, p)
       PROVE  Len(enumliterals) = 5 /\ AtEnum(x, enumliterals)
  <2>1. PICK e : e = enumliterals
    OBVIOUS
  <2>2. Len(e) = 5 /\ AtEnum(t, e)
    BY <1>1, <1>10, <2>1 DEF EnumsKept, ToEnum, AtPlace
  <2>3. e[4] # l.class
    <3>1. <<e[1], e[2], e[3], e[4]>> # <<p[1], p[2], p[3], l.class>>
      BY <1>2, <1>10, <2>1, <2>2 DEF MemberIn
    <3> QED BY <1>10, <2>1, <3>1 DEF AtPlace
  <2>4. e[4] \in Sections
    BY <2>2 DEF AtEnum
  <2>5. x[e[4]] = t[e[4]]
    BY <1>7, <2>3, <2>4
  <2> QED BY <2>1, <2>2, <2>5 DEF AtEnum
<1> QED BY <1>2, <1>3, <1>6, <1>8, <1>9, <1>10, EnumsPlace

(* A member: enumliterals leads to it when it is declared as an enum.      *)
LEMMA MemberEnums ==
  ASSUME ParserShape, EnumsKept, NEW l, ReadMember(l)
  PROVE  EnumsKept'
<1>1. PICK p, t, ms, m, x, ns : /\ p = subitems /\ t = doc.domains[p[1]][p[2]][p[3]] /\ ms = t[p[4]]
                                /\ m = NewType(doc.domains[domain[1]].name, l, Assigned(l.typ, l.array), Desc)
                                /\ ns = Append(ms, m) /\ x = [t EXCEPT ![p[4]] = ns]
  OBVIOUS
<1>2. /\ l.class = "member" /\ subitems # <<>>
      /\ enumliterals' = IF l.typ = "enum" THEN <<p[1], p[2], p[3], p[4], Len(ms) + 1>> ELSE enumliterals
  BY <1>1 DEF ReadMember
<1>3. InDoc(p, doc.domains) /\ p[4] \in Sections
  BY <1>1, <1>2 DEF ParserShape, PointersIn
<1>4. ItemShape(t) /\ EnumsOnly(t)
  BY <1>1, <1>3, EnumsThere
<1>5. MembersShape(ms)
  BY <1>1, <1>3, <1>4 DEF ItemShape
<1>6. MemberShape(m) /\ m.enum = <<>> /\ m.typ = Assigned(l.typ, l.array)
  BY <1>1, NewItem, DescSeq DEF ParserShape, NewType
<1>7. MembersShape(ns)
  BY <1>1, <1>5, <1>6, MemberAdded
<1>8. ItemShape(x)
  BY <1>1, <1>3, <1>4, <1>7, MembersChanged
<1>9. Len(ms) \in Nat /\ Len(ns) = Len(ms) + 1 /\ ns[Len(ms) + 1] = m /\ \A k \in 1 .. Len(ms) : ns[k] = ms[k]
  <2>1. IsSeq(ms)
    BY <1>5 DEF MembersShape
  <2>2. Len(ms) \in Nat
    BY <2>1, SeqFacts
  <2>3. /\ Len(Append(ms, m)) = Len(ms) + 1 /\ Append(ms, m)[Len(ms) + 1] = m
        /\ \A k \in 1 .. Len(ms) : Append(ms, m)[k] = ms[k]
    BY <2>1, Appended
  <2> QED BY <1>1, <2>2, <2>3
<1>10. DOMAIN x = DOMAIN t /\ \A f \in Sections : x[f] = IF f = p[4] THEN ns ELSE t[f]
  BY <1>1, <1>3, <1>4 DEF EnumsOnly
<1>11. EnumsOnly(x)
  <2>1. LiteralsOfEnums(ms)
    BY <1>1, <1>3, <1>4 DEF EnumsOnly
  <2>2. ASSUME NEW k \in 1 .. Len(ns), ns[k].enum # <<>> PROVE IsEnum(ns[k])
    <3>1. k \in 1 .. Len(ms) \/ k = Len(ms) + 1
      BY <1>9
    <3>2. k # Len(ms) + 1
      BY <1>6, <1>9, <2>2
    <3>3. k \in 1 .. Len(ms) /\ ns[k] = ms[k]
      BY <1>9, <3>1, <3>2
    <3> QED BY <2>1, <2>2, <3>3 DEF LiteralsOfEnums
  <2>3. LiteralsOfEnums(ns)
    BY <2>2 DEF LiteralsOfEnums
  <2> QED BY <1>4, <1>10, <2>3 DEF EnumsOnly
<1>12. doc' = DocWith(PutItem(doc.domains, p[1], p[2], p[3], x))
  <2>1. Doc.domains = doc.domains
    BY DocIs DEF ParserShape, DocShape
  <2>2. doc' = [Doc EXCEPT !.domains = PutItem(Doc.domains, p[1], p[2], p[3], x)]
    BY <1>1, <2>1 DEF ReadMember, PutItem
  <2> QED BY <2>1, <2>2 DEF DocWith
<1>13. CASE l.typ = "enum"
  <2>1. PICK e : e = <<p[1], p[2], p[3], p[4], Len(ms) + 1>>
    OBVIOUS
  <2>2. enumliterals' = e /\ Len(e) = 5 /\ AtPlace(e, p) /\ e[4] = p[4] /\ e[5] = Len(ms) + 1
    BY <1>2, <1>13, <2>1 DEF AtPlace
  <2>3. IsEnum(m)
    BY <1>6, <1>13, EnumDeclared
  <2>4. x[p[4]] = ns /\ Len(ms) + 1 \in 1 .. Len(ns)
    BY <1>3, <1>9, <1>10
  <2>5. AtEnum(x, e)
    BY <1>3, <1>9, <2>2, <2>3, <2>4 DEF AtEnum
  <2> QED BY <1>3, <1>8, <1>11, <1>12, <2>2, <2>5, EnumsPlace
<1>14. CASE l.typ # "enum"
  <2>1. enumliterals' = enumliterals
    BY <1>2, <1>14
  <2>2. ASSUME enumliterals \notin {<<>>, Detached}, Len(enumliterals) # 3, AtPlace(enumliterals, p)
        PROVE  Len(enumliterals) = 5 /\ AtEnum(x, enumliterals)
    <3>1. PICK e : e = enumliterals
      OBVIOUS
    <3>2. Len(e) = 5 /\ AtEnum(t, e)
      BY <1>1, <2>2, <3>1 DEF EnumsKept, ToEnum, AtPlace
    <3>3. e[4] \in Sections /\ e[5] \in 1 .. Len(t[e[4]]) /\ IsEnum(t[e[4]][e[5]])
      BY <3>2 DEF AtEnum
    <3>4. e[5] \in 1 .. Len(x[e[4]]) /\ x[e[4]][e[5]] = t[e[4]][e[5]]
      <4>1. CASE e[4] = p[4]
        <5>1. t[e[4]] = ms /\ x[e[4]] = ns
          BY <1>1, <1>10, <3>3, <4>1
        <5>2. e[5] \in 1 .. Len(ms)
          BY <3>3, <5>1
        <5>3. e[5] \in 1 .. Len(ns) /\ ns[e[5]] = ms[e[5]]
          BY <1>9, <5>2
        <5> QED BY <5>1, <5>3
      <4>2. CASE e[4] # p[4]
        BY <1>10, <3>3, <4>2
      <4> QED BY <4>1, <4>2
    <3> QED BY <3>1, <3>2, <3>3, <3>4 DEF AtEnum
  <2> QED BY <1>3, <1>8, <1>11, <1>12, <2>1, <2>2, EnumsPlace
<1> QED BY <1>13, <1>14

(* A literal of a member goes to one that is declared as an enum.          *)
LEMMA LiteralPut ==
  ASSUME ParserShape, NEW l, ReadLiteral(l), enumliterals # Detached, NEW p, p = enumliterals,
         NEW x, x = WithLiteral(doc.domains[p[1]][p[2]][p[3]], p, l.value)
  PROVE  doc' = DocWith(PutItem(doc.domains, p[1], p[2], p[3], x))
<1>1. Doc.domains = doc.domains
  BY DocIs DEF ParserShape, DocShape
<1>2. doc' = [Doc EXCEPT !.domains = PutItem(Doc.domains, p[1], p[2], p[3], x)]
  <2>1. CASE Len(p) = 3
    BY <1>1, <2>1 DEF ReadLiteral, PutItem, WithLiteral
  <2>2. CASE Len(p) # 3
    BY <1>1, <2>2 DEF ReadLiteral, PutItem, WithLiteral
  <2> QED BY <2>1, <2>2
<1> QED BY <1>1, <1>2 DEF DocWith

LEMMA LiteralEnums ==
  ASSUME ParserShape, EnumsKept, NEW l, ReadLiteral(l), enumliterals # Detached
  PROVE  EnumsKept'
<1>1. PICK p, t, x : p = enumliterals /\ t = doc.domains[p[1]][p[2]][p[3]] /\ x = WithLiteral(t, p, l.value)
  OBVIOUS
<1>2. enumliterals # <<>> /\ enumliterals' = enumliterals
  BY DEF ReadLiteral
<1>3. InDoc(p, doc.domains) /\ ToEnum(p, doc.domains)
  BY <1>1, <1>2 DEF ParserShape, PointersIn, EnumsKept
<1>4. ItemShape(t) /\ EnumsOnly(t)
  BY <1>1, <1>3, EnumsThere
<1>5. doc' = DocWith(PutItem(doc.domains, p[1], p[2], p[3], x))
  BY <1>1, <1>2, LiteralPut
<1>6. CASE Len(p) = 3
  <2>1. IsSeq(Append(t.enum, l.value))
    BY <1>4, Appended DEF ItemShape
  <2>2. x = [t EXCEPT !.enum = Append(t.enum, l.value)]
    BY <1>1, <1>6 DEF WithLiteral
  <2>3. ItemShape(x)
    BY <1>4, <2>1, <2>2, EnumChanged
  <2>4. DOMAIN x = DOMAIN t /\ \A f \in Sections : x[f] = t[f]
    BY <2>2 DEF Sections
  <2> QED BY <1>1, <1>2, <1>3, <1>5, <2>3, <2>4, EnumsStay
<1>7. CASE Len(p) # 3
  <2>1. Len(p) = 5 /\ AtEnum(t, p)
    BY <1>1, <1>2, <1>3, <1>7 DEF ToEnum
  <2>2. PICK ms, m, n, ns : /\ ms = t[p[4]] /\ m = ms[p[5]] /\ n = [m EXCEPT !.enum = Append(@, l.value)]
                            /\ ns = Put(ms, p[5], n)
    OBVIOUS
  <2>3. p[4] \in Sections /\ p[5] \in 1 .. Len(ms) /\ IsEnum(m)
    BY <2>1, <2>2 DEF AtEnum
  <2>4. MembersShape(ms) /\ IsSeq(ms)
    BY <1>4, <2>2, <2>3 DEF ItemShape, MembersShape
  <2>5. ns = [ms EXCEPT ![p[5]].enum = Append(@, l.value)]
    BY <2>2 DEF Put
  <2>6. MembersShape(ns)
    BY <2>4, <2>5, LiteralAdded
  <2>7. x = [t EXCEPT ![p[4]] = ns]
    BY <1>1, <1>7, <2>2, <2>5 DEF WithLiteral
  <2>8. /\ ItemShape(x) /\ DOMAIN x = DOMAIN t
        /\ \A f \in Sections : x[f] = IF f = p[4] THEN ns ELSE t[f]
    <3>1. ItemShape(x)
      BY <1>4, <2>3, <2>6, <2>7, MembersChanged
    <3> QED BY <1>4, <2>3, <2>7, <3>1 DEF EnumsOnly
  <2>9. Len(ns) = Len(ms) /\ \A k \in 1 .. Len(ms) : ns[k] = IF k = p[5] THEN n ELSE ms[k]
    BY <2>2, <2>4, OnePlace
  <2>10. IsEnum(n)
    BY <2>2, <2>3 DEF IsEnum
  <2>11. EnumsOnly(x)
    <3>1. LiteralsOfEnums(ms)
      BY <1>4, <2>2, <2>3 DEF EnumsOnly
    <3>2. LiteralsOfEnums(ns)
      BY <2>9, <2>10, <3>1 DEF LiteralsOfEnums
    <3> QED BY <1>4, <2>8, <3>2 DEF EnumsOnly
  <2>12. AtEnum(x, p)
    BY <2>3, <2>8, <2>9, <2>10 DEF AtEnum
  <2> QED BY <1>1, <1>2, <1>3, <1>5, <2>1, <2>8, <2>11, <2>12, EnumsPlace DEF AtPlace
<1> QED BY <1>6, <1>7

(* An enum of the item, or what to use instead of it. *)
LEMMA EnumEnums ==
  ASSUME ParserShape, EnumsKept, NEW l, ReadEnum(l)
  PROVE  EnumsKept'
<1>1. PICK p, t, x : p = item /\ t = doc.domains[p[1]][p[2]][p[3]] /\ x = [t EXCEPT !.enum = <<>>]
  OBVIOUS
<1>2. item # <<>> /\ enumliterals' = item
  BY DEF ReadEnum
<1>3. InDoc(p, doc.domains) /\ Len(enumliterals') = 3
  BY <1>1, <1>2 DEF ParserShape, PointersIn
<1>4. ItemShape(t) /\ Sections \subseteq DOMAIN t
  BY <1>1, <1>3, EnumsThere DEF EnumsOnly
<1>5. ItemShape(x)
  BY <1>1, <1>4, NoElements, EnumChanged
<1>6. DOMAIN x = DOMAIN t /\ \A f \in Sections : x[f] = t[f]
  <2>1. "enum" \notin Sections
    BY DEF Sections
  <2>2. PICK w : x = [t EXCEPT !.enum = w]
    BY <1>1
  <2> QED BY <1>4, <2>1, <2>2
<1>7. doc' = DocWith(PutItem(doc.domains, p[1], p[2], p[3], x))
  <2>1. Doc.domains = doc.domains
    BY DocIs DEF ParserShape, DocShape
  <2>2. doc' = [Doc EXCEPT !.domains = PutItem(Doc.domains, p[1], p[2], p[3], x)]
    BY <1>1, <2>1 DEF ReadEnum, PutItem
  <2> QED BY <2>1, <2>2 DEF DocWith
<1>8. /\ DOMAIN x = DOMAIN doc.domains[p[1]][p[2]][p[3]]
      /\ \A f \in Sections : x[f] = doc.domains[p[1]][p[2]][p[3]][f]
  BY <1>1, <1>6
<1> QED BY <1>3, <1>5, <1>7, <1>8, EnumsStay

LEMMA RedirectEnums ==
  ASSUME ParserShape, EnumsKept, NEW l, ReadRedirect(l)
  PROVE  EnumsKept'
<1>1. PICK p, t, x : /\ p = item /\ t = doc.domains[p[1]][p[2]][p[3]]
                     /\ x = [t EXCEPT !.redirect = <<l.name, NamedInstead(Desc)>>]
  OBVIOUS
<1>2. item # <<>> /\ enumliterals' = enumliterals
  BY DEF ReadRedirect
<1>3. InDoc(p, doc.domains)
  BY <1>1, <1>2 DEF ParserShape, PointersIn
<1>4. ItemShape(t) /\ Sections \subseteq DOMAIN t
  BY <1>1, <1>3, EnumsThere DEF EnumsOnly
<1>5. ItemShape(x)
  BY <1>1, <1>4, RedirectChanged
<1>6. DOMAIN x = DOMAIN t /\ \A f \in Sections : x[f] = t[f]
  <2>1. "redirect" \notin Sections
    BY DEF Sections
  <2>2. PICK w : x = [t EXCEPT !.redirect = w]
    BY <1>1
  <2> QED BY <1>4, <2>1, <2>2
<1>7. doc' = DocWith(PutItem(doc.domains, p[1], p[2], p[3], x))
  <2>1. Doc.domains = doc.domains
    BY DocIs DEF ParserShape, DocShape
  <2>2. doc' = [Doc EXCEPT !.domains = PutItem(Doc.domains, p[1], p[2], p[3], x)]
    BY <1>1, <2>1 DEF ReadRedirect, PutItem
  <2> QED BY <2>1, <2>2 DEF DocWith
<1>8. /\ DOMAIN x = DOMAIN doc.domains[p[1]][p[2]][p[3]]
      /\ \A f \in Sections : x[f] = doc.domains[p[1]][p[2]][p[3]][f]
  BY <1>1, <1>6
<1> QED BY <1>2, <1>3, <1>5, <1>7, <1>8, EnumsStay

(* A line that leaves every item where it is, and may add some that hold no *)
(* literals.                                                                *)
ItemsNew(ds, es) ==
  \A i \in 1 .. Len(es) : \A list \in ItemLists : \A j \in 1 .. Len(es[i][list]) :
    (i \in 1 .. Len(ds) /\ j \in 1 .. Len(ds[i][list])) \/ EnumsOnly(es[i][list][j])

LEMMA EnumsGrow ==
  ASSUME ParserShape, EnumsKept, enumliterals' = enumliterals,
         NEW ds, NEW es, ds = doc.domains, es = doc'.domains, ItemsStay(ds, es), ItemsNew(ds, es)
  PROVE  EnumsKept'
<1>1. EnumsIn(ds) /\ ToEnum(enumliterals, ds) /\ PointersIn(ds)
  BY DEF ParserShape, EnumsKept
<1>2. EnumsIn(es)
  BY <1>1 DEF EnumsIn, ItemsStay, ItemsNew
<1>3. ToEnum(enumliterals, es)
  <2>1. CASE enumliterals \in {<<>>, Detached}
    BY <2>1 DEF ToEnum
  <2>2. CASE enumliterals \notin {<<>>, Detached}
    <3>1. PICK e : e = enumliterals
      OBVIOUS
    <3>2. InDoc(e, ds)
      BY <1>1, <2>2, <3>1 DEF PointersIn
    <3>3. es[e[1]][e[2]][e[3]] = ds[e[1]][e[2]][e[3]]
      BY <3>2 DEF InDoc, ItemsStay
    <3> QED BY <1>1, <3>1, <3>3 DEF ToEnum
  <2> QED BY <2>1, <2>2
<1> QED BY <1>2, <1>3 DEF EnumsKept

(* A new item has no members yet. *)
LEMMA NewItemEnums == ASSUME NEW dtyp, NEW l, NEW typ, NEW d PROVE EnumsOnly(NewType(dtyp, l, typ, d))
<1>1. LiteralsOfEnums(<<>>)
  BY NoElements DEF LiteralsOfEnums
<1> QED BY <1>1 DEF EnumsOnly, NewType, Sections

LEMMA ItemEnums ==
  ASSUME ParserShape, EnumsKept, NEW l, ReadItem(l)
  PROVE  EnumsKept'
<1>1. PICK ds, a, b, x, es : /\ ds = doc.domains /\ a = domain[1] /\ b = ListOf[l.class]
                             /\ x = NewType(ds[a].name, l, IF l.class = "type" THEN Assigned(l.typ, l.array) ELSE Untyped, Desc)
                             /\ es = AddItem(ds, a, b, x)
  OBVIOUS
<1>2. DomainsShape(ds) /\ Len(ds) \in Nat
  BY <1>1, Lengths DEF ParserShape, DocShape
<1>3. l.class \in Items /\ domain # <<>> /\ enumliterals' = enumliterals
  BY DEF ReadItem
<1>4. a \in 1 .. Len(ds)
  BY <1>1, <1>2, <1>3 DEF ParserShape, PointersIn
<1>5. b \in ItemLists
  BY <1>1, <1>3 DEF ListOf, Items, ItemLists
<1>6. ItemShape(x) /\ EnumsOnly(x)
  BY <1>1, NewItem, NewItemEnums, DescSeq DEF ParserShape
<1>7. OneItemMore(ds, es, a, b)
  BY <1>1, <1>2, <1>4, <1>5, <1>6, ItemAdded
<1>8. doc'.domains = es
  <2>1. Doc.domains = ds
    BY <1>1, <1>2, DocIs DEF ParserShape
  <2>2. doc' = [Doc EXCEPT !.domains = AddItem(Doc.domains, a, b, x)]
    BY <1>1, <2>1 DEF ReadItem, AddItem
  <2>3. doc' = DocWith(es)
    BY <1>1, <2>1, <2>2 DEF DocWith
  <2> QED BY <2>3, DocParts
<1>9. ItemsStay(ds, es) /\ es[a][b][Len(ds[a][b]) + 1] = x
  <2>1. es = AddItem(ds, a, b, x)
    BY <1>1
  <2> QED BY <1>2, <1>4, <1>5, <2>1, ItemAppended
<1>10. ASSUME NEW i \in 1 .. Len(es), NEW list \in ItemLists, NEW j \in 1 .. Len(es[i][list]),
              ~(j \in 1 .. Len(ds[i][list]))
       PROVE  i \in 1 .. Len(ds) /\ EnumsOnly(es[i][list][j])
  <2>1. i \in 1 .. Len(ds)
    BY <1>7 DEF OneItemMore
  <2>2. Len(ds[i][list]) \in Nat
    BY <1>2, <2>1, Lengths
  <2>3. Len(es[i][list]) = IF i = a /\ list = b THEN Len(ds[i][list]) + 1 ELSE Len(ds[i][list])
    BY <1>7, <2>1 DEF OneItemMore
  <2>4. i = a /\ list = b
    BY <1>10, <2>3
  <2>5. j \in 1 .. Len(ds[a][b]) + 1
    BY <2>3, <2>4
  <2>6. j = Len(ds[a][b]) + 1
    BY <1>10, <2>2, <2>4, <2>5
  <2> QED BY <1>6, <1>9, <2>1, <2>4, <2>6
<1>11. \A i \in 1 .. Len(es) : i \in 1 .. Len(ds)
  BY <1>7 DEF OneItemMore
<1>12. ItemsNew(ds, es)
  BY <1>10, <1>11 DEF ItemsNew
<1> QED BY <1>1, <1>3, <1>8, <1>9, <1>12, EnumsGrow

LEMMA DomainEnums ==
  ASSUME ParserShape, EnumsKept, NEW l, LineShape(l), ReadDomain(l)
  PROVE  EnumsKept'
<1>1. PICK ds, d, es : ds = doc.domains /\ d = NewDomain(l, Desc) /\ es = Append(ds, d)
  OBVIOUS
<1>2. DomainsShape(ds) /\ Len(ds) \in Nat
  BY <1>1, Lengths DEF ParserShape, DocShape
<1>3. DomainShape(d) /\ \A list \in ItemLists : Len(d[list]) = 0
  BY <1>1, DescSeq, NewDomainShape DEF ParserShape, ReadDomain, LineShape
<1>4. /\ Len(es) = Len(ds) + 1 /\ es[Len(ds) + 1] = d
      /\ \A i \in 1 .. Len(ds) : es[i] = ds[i]
  BY <1>1, <1>2, <1>3, DomainAdded
<1>5. doc'.domains = es /\ enumliterals' = enumliterals
  <2>1. Doc.domains = ds
    BY <1>1, <1>2, DocIs DEF ParserShape
  <2>2. doc' = DocWith(es)
    BY <1>1, <2>1 DEF ReadDomain, DocWith
  <2> QED BY <2>2, DocParts DEF ReadDomain
<1>6. ASSUME NEW i \in 1 .. Len(es), NEW list \in ItemLists, NEW j \in 1 .. Len(es[i][list])
      PROVE  i \in 1 .. Len(ds) /\ j \in 1 .. Len(ds[i][list])
  <2>1. i \in 1 .. Len(ds) \/ i = Len(ds) + 1
    BY <1>2, <1>4
  <2>2. i # Len(ds) + 1
    BY <1>3, <1>4, <1>6
  <2> QED BY <1>4, <2>1, <2>2
<1>7. ItemsStay(ds, es) /\ ItemsNew(ds, es)
  BY <1>4, <1>6 DEF ItemsStay, ItemsNew
<1> QED BY <1>1, <1>5, <1>7, EnumsGrow

LEMMA DependsEnums ==
  ASSUME ParserShape, EnumsKept, NEW l, ReadDepends(l)
  PROVE  EnumsKept'
<1>1. PICK ds, a, d, us, e, es : /\ ds = doc.domains /\ a = domain[1] /\ d = ds[a]
                                 /\ us = Append(d.dependencies, l.name)
                                 /\ e = [d EXCEPT !.dependencies = us] /\ es = Put(ds, a, e)
  OBVIOUS
<1>2. DomainsShape(ds) /\ IsSeq(ds)
  BY <1>1, Lengths DEF ParserShape, DocShape
<1>3. Len(es) = Len(ds) /\ \A i \in 1 .. Len(ds) : es[i] = IF i = a THEN e ELSE ds[i]
  BY <1>1, <1>2, OnePlace
<1>4. doc'.domains = es /\ enumliterals' = enumliterals
  <2>1. Doc.domains = ds
    BY <1>1, <1>2, DocIs DEF ParserShape
  <2>2. es = AddDependency(ds, a, l.name)
    BY <1>1 DEF Put, AddDependency
  <2>3. doc' = DocWith(es)
    BY <1>1, <2>1, <2>2 DEF ReadDepends, DocWith, AddDependency
  <2> QED BY <2>3, DocParts DEF ReadDepends
<1>5. ASSUME NEW i \in 1 .. Len(ds), NEW list \in ItemLists PROVE es[i][list] = ds[i][list]
  <2>1. list # "dependencies"
    BY DEF ItemLists
  <2>2. DomainShape(ds[i])
    BY <1>2, Lengths
  <2>3. e[list] = d[list] \/ i # a
    BY <1>1, <2>1, <2>2 DEF DomainShape
  <2> QED BY <1>1, <1>3, <2>3
<1>6. ItemsStay(ds, es) /\ ItemsNew(ds, es)
  BY <1>3, <1>5 DEF ItemsStay, ItemsNew
<1> QED BY <1>1, <1>4, <1>6, EnumsGrow

(* Lines that leave the domains and enumliterals alone. *)
LEMMA EnumsSame ==
  ASSUME EnumsKept, doc'.domains = doc.domains, enumliterals' = enumliterals
  PROVE  EnumsKept'
  BY DEF EnumsKept

LEMMA LineEnums ==
  ASSUME ParserShape, EnumsKept, NEW l, LineShape(l), ReadLine(l)
  PROVE  EnumsKept'
<1>1. Doc.domains = doc.domains /\ \A v : [Doc EXCEPT !.version = v].domains = doc.domains
  BY DocParts
<1>2. CASE ReadComment(l)
  BY <1>2, EnumsSame DEF ReadComment
<1>3. CASE ReadBlank(l) \/ ReadUnknown(l) \/ ReadNil(l)
  BY <1>1, <1>3, EnumsSame DEF ReadBlank, ReadUnknown, ReadNil
<1>4. CASE ReadVersion(l)
  <2>1. doc'.domains = doc.domains /\ enumliterals' = enumliterals
    BY <1>1, <1>4 DEF ReadVersion
  <2> QED BY <2>1, EnumsSame
<1>5. CASE ReadMajorMinor(l)
  <2>1. PICK v : doc' = [Doc EXCEPT !.version = v]
    BY <1>5 DEF ReadMajorMinor
  <2>2. enumliterals' = enumliterals
    BY <1>5 DEF ReadMajorMinor
  <2> QED BY <1>1, <2>1, <2>2, EnumsSame
<1>6. CASE ReadLiteral(l) /\ enumliterals = Detached
  <2>1. doc' = Doc /\ enumliterals' = enumliterals
    BY <1>6 DEF ReadLiteral
  <2> QED BY <1>1, <2>1, EnumsSame
<1>7. CASE ReadLiteral(l) /\ enumliterals # Detached
  BY <1>7, LiteralEnums
<1>8. CASE ReadItem(l) \/ ReadMember(l) \/ ReadSection(l) \/ ReadEnum(l) \/ ReadRedirect(l)
  BY <1>8, ItemEnums, MemberEnums, SectionEnums, EnumEnums, RedirectEnums
<1>9. CASE ReadDomain(l) \/ ReadDepends(l)
  BY <1>9, DomainEnums, DependsEnums
<1> QED BY <1>2, <1>3, <1>4, <1>5, <1>6, <1>7, <1>8, <1>9 DEF ReadLine

EnumsInv == FilesInv /\ EnumsKept

LEMMA NoEnums == ASSUME doc = EmptyDoc, enumliterals = <<>> PROVE EnumsKept
  BY NoElements DEF EnumsKept, EnumsIn, ToEnum, EmptyDoc

LEMMA EnumsRestart == ASSUME ParseRestart PROVE EnumsKept'
<1>1. doc'.domains = <<>> /\ enumliterals' = <<>>
  BY DEF ParseRestart, EmptyDoc
<1>2. EnumsIn(doc'.domains) /\ ToEnum(enumliterals', doc'.domains)
  BY <1>1, NoElements DEF EnumsIn, ToEnum
<1> QED BY <1>2 DEF EnumsKept

LEMMA EnumsStep == EnumsInv /\ [Next]_vars => EnumsInv'
<1> SUFFICES ASSUME FilesInv, EnumsKept, [Next]_vars PROVE EnumsKept'
  BY FilesStep DEF EnumsInv
<1>1. ParserShape
  BY DEF FilesInv
<1>2. CASE UNCHANGED vars
  BY <1>2, EnumsSame DEF vars, parser
<1>3. CASE ReadFile
  <2>1. PICK s \in SamplesLeft : \E l \in s.lines : ReadLine(l)
    BY <1>3 DEF ReadFile
  <2>2. PICK l \in s.lines : ReadLine(l)
    BY <2>1
  <2>3. LineShape(l)
    BY <2>2, FilesConstants DEF SamplesLeft, LineShape
  <2> QED BY <1>1, <2>2, <2>3, LineEnums
<1>4. CASE EndOfFile
  BY <1>4, EnumsRestart DEF EndOfFile
<1>5. CASE CombineBytes
  <2>1. CASE HasBareArray(Combine(pdls))
    BY <1>5, <2>1, EnumsSame DEF CombineBytes
  <2>2. CASE ~HasBareArray(Combine(pdls))
    BY <1>5, <2>2, EnumsRestart DEF CombineBytes
  <2> QED BY <2>1, <2>2
<1>6. CASE ReadCombined
  <2>1. PICK ls, l : ls = input /\ l = Head(input)
    OBVIOUS
  <2>2. ReadLine(l) /\ IsSeq(ls) /\ ls # <<>> /\ \A i \in 1 .. Len(ls) : LineShape(ls[i])
    BY <1>6, <2>1 DEF ReadCombined, FilesInv, Combined
  <2>3. LineShape(l)
    <3>1. 1 \in 1 .. Len(ls) /\ l = ls[1]
      BY <2>1, <2>2, HeadTail
    <3> QED BY <2>2, <3>1
  <2> QED BY <1>1, <2>2, <2>3, LineEnums
<1> QED BY <1>2, <1>3, <1>4, <1>5, <1>6 DEF Next

(* Whatever the lines and their order, each pointer that Parse keeps is nil *)
(* or leads to what it is used as, and a member has literals only when it   *)
(* is declared as an enum (pdl/pdl.go:55-61, 159-189).                      *)
THEOREM PointersValid == Spec => []TypeOK
<1>1. EnumsInv => TypeOK
  <2> SUFFICES ASSUME FilesInv, EnumsKept PROVE TypeOK
    BY DEF EnumsInv
  <2>1. PICK ds : ds = doc.domains
    OBVIOUS
  <2>2. ParserShape /\ PointersIn(ds) /\ Len(ds) \in Nat /\ EnumsIn(ds) /\ ToEnum(enumliterals, ds)
    BY <2>1, Lengths DEF FilesInv, ParserShape, DocShape, EnumsKept
  <2>3. DOMAIN Listed = ItemLists
    BY DEF Listed, ItemLists
  <2>4. domain \in {<<>>, <<Len(doc.domains)>>}
    BY <2>1, <2>2 DEF PointersIn
  <2>5. ASSUME NEW p, InDoc(p, ds) PROVE LeadsToItem(p)
    BY <2>1, <2>3, <2>5 DEF InDoc, LeadsToItem
  <2>6. (item # <<>> => LeadsToItem(item)) /\ (subitems # <<>> => LeadsToItem(subitems) /\ subitems[4] \in Sections)
    BY <2>2, <2>5 DEF PointersIn
  <2>7. ASSUME enumliterals \notin {<<>>, Detached}
        PROVE  LeadsToItem(enumliterals) /\ (Len(enumliterals) = 3 \/ LeadsToEnum(enumliterals))
    <3>1. LeadsToItem(enumliterals)
      BY <2>2, <2>5, <2>7 DEF PointersIn
    <3> QED BY <2>1, <2>2, <2>7, <3>1 DEF ToEnum, AtEnum, LeadsToEnum, MembersAt
  <2>8. ASSUME NEW i \in 1 .. Len(ds), NEW list \in ItemLists, NEW j \in 1 .. Len(ds[i][list]), NEW f \in Sections,
               NEW k \in 1 .. Len(ds[i][list][j][f]), ds[i][list][j][f][k].enum # <<>>
        PROVE  IsEnum(ds[i][list][j][f][k])
    BY <2>2, <2>8 DEF EnumsIn, EnumsOnly, LiteralsOfEnums
  <2>9. outcome \in {"reading", "error", "panic"} /\ clearDesc \in BOOLEAN /\ copyright \in BOOLEAN
    BY <2>2 DEF ParserShape, Outcomes
  <2> QED BY <2>1, <2>3, <2>4, <2>6, <2>7, <2>8, <2>9 DEF TypeOK
<1>2. Init => EnumsInv
  BY FilesStart, NoEnums DEF EnumsInv, Init, ParseInit
<1> QED BY <1>1, <1>2, EnumsStep, PTL DEF Spec

(* The domains of the combined file are read back in the order of their     *)
(* names, whatever the files and the order in which they are given.         *)
THEOREM DomainsInOrder == Spec => []DomainsSorted
<1>1. FilesInv => DomainsSorted
  BY DEF FilesInv, Combined, DomainsSorted
<1> QED BY <1>1, FilesStart, FilesStep, PTL DEF Spec

(* The combined file, read back, has a version that is not older than that  *)
(* of any of its parts.                                                     *)
THEOREM VersionsCovered == Spec => []CombinedVersionCovers
<1>1. FilesInv => CombinedVersionCovers
  <2> SUFFICES ASSUME FilesInv, phase = "combined", input = <<>>, outcome = "reading",
                      NEW i \in 1 .. Len(pdls), pdls[i].version # <<>>
               PROVE  Covers(doc.version, pdls[i].version)
    BY DEF CombinedVersionCovers, Covers
  <2>1. PICK k \in Int : VersionAt(input, k, Version) /\ VersionRead(k, Version)
    BY DEF FilesInv, Combined
  <2>2. k <= -2
    <3>1. k + 2 <= 0
      BY <2>1, NoElements DEF VersionAt
    <3> QED BY <3>1
  <2>3. doc.version = Version
    BY <2>1, <2>2 DEF VersionRead
  <2>4. Covers(Combine(pdls).version, pdls[i].version)
    BY CombinedShape DEF FilesInv, Parts
  <2> QED BY <2>3, <2>4 DEF Version
<1> QED BY <1>1, FilesStart, FilesStep, PTL DEF Spec

-----------------------------------------------------------------------------
(* The combined file is accepted.                                          *)

(* The pointers, and which of them lines set and go through.               *)
Names == {"domain", "item", "subitems", "enumliterals", "version"}

Gives(l) ==
  {p \in Names : \/ p = "domain" /\ IsDomain(l)
                 \/ p = "item" /\ IsItem(l)
                 \/ p = "subitems" /\ IsSection(l)
                 \/ p = "enumliterals" /\ OwnsLiterals(l)
                 \/ p = "version" /\ IsVersion(l)}

Needs(l) ==
  {p \in Names : \/ p = "domain" /\ l.class \in {"depends", "member"} \cup Items
                 \/ p = "item" /\ l.class \in {"enum", "redirect"} \cup Sections
                 \/ p = "subitems" /\ l.class = "member"
                 \/ p = "enumliterals" /\ l.class = "literal"
                 \/ p = "version" /\ l.class \in {"major", "minor"}}

(* Lines that Parse reads to the end when the pointers of G are set.       *)
Served(ls, G) ==
  /\ IsSeq(ls)
  /\ \A j \in 1 .. Len(ls) : /\ ls[j].class # "unknown"
                             /\ \A p \in Needs(ls[j]) : p \in G \/ \E i \in 1 .. j - 1 : p \in Gives(ls[i])

LEMMA ServedTail ==
  ASSUME NEW ls, ls # <<>>, NEW G, Served(ls, G)
  PROVE  /\ Head(ls).class # "unknown" /\ Needs(Head(ls)) \subseteq G
         /\ Served(Tail(ls), G \cup Gives(Head(ls)))
<1>1. PICK l, t, n : l = Head(ls) /\ t = Tail(ls) /\ n = Len(ls)
  OBVIOUS
<1>2. /\ 1 \in 1 .. n /\ l = ls[1] /\ IsSeq(t) /\ n - 1 \in Nat /\ Len(t) = n - 1
      /\ \A i \in 1 .. n - 1 : t[i] = ls[i + 1] /\ i + 1 \in 1 .. n
  BY <1>1, HeadTail DEF Served
<1>3. l.class # "unknown" /\ \A p \in Needs(l) : p \in G
  <2>1. 1 .. 1 - 1 = {}
    OBVIOUS
  <2> QED BY <1>1, <1>2, <2>1 DEF Served
<1>4. ASSUME NEW j \in 1 .. Len(t)
      PROVE  /\ t[j].class # "unknown"
             /\ \A p \in Needs(t[j]) : p \in G \cup Gives(l) \/ \E i \in 1 .. j - 1 : p \in Gives(t[i])
  <2>1. j + 1 \in 1 .. n /\ t[j] = ls[j + 1] /\ (j + 1) - 1 = j
    BY <1>2
  <2>2. t[j].class # "unknown"
    BY <1>1, <2>1 DEF Served
  <2>3. ASSUME NEW p \in Needs(t[j]), p \notin G \cup Gives(l) PROVE \E i \in 1 .. j - 1 : p \in Gives(t[i])
    <3>1. PICK i \in 1 .. (j + 1) - 1 : p \in Gives(ls[i])
      BY <1>1, <2>1, <2>3 DEF Served
    <3>2. i # 1
      BY <1>2, <2>3, <3>1
    <3>3. i - 1 \in 1 .. j - 1 /\ i - 1 \in 1 .. n - 1 /\ (i - 1) + 1 = i
      BY <1>2, <2>1, <3>2
    <3>4. t[i - 1] = ls[i]
      BY <1>2, <3>3
    <3> QED BY <3>1, <3>3, <3>4
  <2> QED BY <2>2, <2>3
<1>5. Served(t, G \cup Gives(l))
  BY <1>2, <1>4 DEF Served
<1> QED BY <1>1, <1>3, <1>5

LEMMA ServedMore == ASSUME NEW ls, NEW G, NEW H, Served(ls, G), G \subseteq H PROVE Served(ls, H)
  BY DEF Served

Given(ls) == UNION {Gives(l) : l \in ToSet(ls)}

LEMMA ServedJoined ==
  ASSUME NEW a, NEW b, NEW G, Served(a, G), Served(b, G \cup Given(a))
  PROVE  Served(a \o b, G) /\ Given(a \o b) = Given(a) \cup Given(b)
<1>1. PICK s, n : s = a \o b /\ n = Len(a)
  OBVIOUS
<1>2. IsSeq(a) /\ IsSeq(b) /\ n \in Nat /\ Len(b) \in Nat
  BY <1>1, SeqFacts DEF Served
<1>3. /\ IsSeq(s) /\ Len(s) = n + Len(b) /\ ToSet(s) = ToSet(a) \cup ToSet(b)
      /\ \A i \in 1 .. n : s[i] = a[i]
      /\ \A i \in 1 .. Len(b) : s[n + i] = b[i]
  BY <1>1, <1>2, Concat
<1>4. ASSUME NEW j \in 1 .. Len(s)
      PROVE  /\ s[j].class # "unknown"
             /\ \A p \in Needs(s[j]) : p \in G \/ \E i \in 1 .. j - 1 : p \in Gives(s[i])
  <2>1. CASE j <= n
    <3>1. j \in 1 .. n /\ s[j] = a[j] /\ \A i \in 1 .. j - 1 : s[i] = a[i]
      BY <1>2, <1>3, <2>1
    <3> QED BY <1>1, <3>1 DEF Served
  <2>2. CASE j > n
    <3>1. PICK k : k = j - n
      OBVIOUS
    <3>2. k \in 1 .. Len(b) /\ j = n + k
      BY <1>2, <1>3, <2>2, <3>1
    <3>3. s[j] = b[k]
      BY <1>3, <3>2
    <3>4. s[j].class # "unknown"
      BY <3>2, <3>3 DEF Served
    <3>5. ASSUME NEW p \in Needs(s[j]), p \notin G PROVE \E i \in 1 .. j - 1 : p \in Gives(s[i])
      <4>1. p \in Given(a) \/ \E i \in 1 .. k - 1 : p \in Gives(b[i])
        BY <3>2, <3>3, <3>5 DEF Served
      <4>2. CASE p \in Given(a)
        <5>1. PICK l \in ToSet(a) : p \in Gives(l)
          BY <4>2 DEF Given
        <5>2. PICK i \in 1 .. n : a[i] = l
          BY <1>1, <1>2, <5>1, SeqFacts
        <5>3. i \in 1 .. j - 1 /\ s[i] = l
          BY <1>2, <1>3, <2>2, <5>2
        <5> QED BY <5>1, <5>3
      <4>3. CASE \E i \in 1 .. k - 1 : p \in Gives(b[i])
        <5>1. PICK i \in 1 .. k - 1 : p \in Gives(b[i])
          BY <4>3
        <5>2. i \in 1 .. Len(b) /\ n + i \in 1 .. j - 1
          BY <1>2, <3>2
        <5>3. s[n + i] = b[i]
          BY <1>3, <5>2
        <5> QED BY <5>1, <5>2, <5>3
      <4> QED BY <4>1, <4>2, <4>3
    <3> QED BY <3>4, <3>5
  <2> QED BY <1>2, <1>3, <2>1, <2>2
<1>5. Served(s, G)
  BY <1>3, <1>4 DEF Served
<1>6. Given(s) = Given(a) \cup Given(b)
  BY <1>3 DEF Given
<1> QED BY <1>1, <1>5, <1>6

LEMMA ServedBoth ==
  ASSUME NEW a, NEW b, NEW G, Served(a, G), Served(b, G) PROVE Served(a \o b, G)
<1>1. Served(b, G \cup Given(a))
  BY ServedMore
<1> QED BY <1>1, ServedJoined

LEMMA ServedNone == ASSUME NEW G PROVE Served(<<>>, G)
  BY NoElements DEF Served

LEMMA ServedOne ==
  ASSUME NEW l, l.class # "unknown", NEW G, Needs(l) \subseteq G
  PROVE  Served(<<l>>, G) /\ Given(<<l>>) = Gives(l)
<1>1. PICK s : s = <<l>>
  OBVIOUS
<1>2. IsSeq(s) /\ Len(s) = 1 /\ s[1] = l /\ ToSet(s) = {l}
  BY <1>1, Single
<1>3. Served(s, G)
  BY <1>2 DEF Served
<1>4. Given(s) = Gives(l)
  BY <1>2 DEF Given
<1> QED BY <1>1, <1>3, <1>4

LEMMA ServedAll ==
  ASSUME NEW n \in Nat, NEW ls, ls = [i \in 1 .. n |-> ls[i]], NEW G,
         \A i \in 1 .. n : ls[i].class # "unknown" /\ Needs(ls[i]) \subseteq G
  PROVE  Served(ls, G)
<1>1. IsSeq(ls) /\ Len(ls) = n
  BY SeqFunction
<1> QED BY <1>1 DEF Served

LEMMA ServedFlat ==
  ASSUME NEW n \in Nat, NEW ss, ss = [i \in 1 .. n |-> ss[i]], NEW G, \A i \in 1 .. n : Served(ss[i], G)
  PROVE  Served(FlattenSeq(ss), G)
<1>1. IsSeq(ss) /\ Len(ss) = n
  BY SeqFunction
<1>2. \A i \in 1 .. Len(ss) : IsSeq(ss[i])
  BY <1>1 DEF Served
<1>3. PICK f : f = FlattenSeq(ss)
  OBVIOUS
<1>4. IsSeq(f) /\ \E row, col : Places(f, ss, n, row, col)
  BY <1>1, <1>2, <1>3, FlattenPlaces
<1>5. PICK row, col : Places(f, ss, n, row, col)
  BY <1>4
<1>6. ASSUME NEW k \in 1 .. Len(f)
      PROVE  /\ f[k].class # "unknown"
             /\ \A p \in Needs(f[k]) : p \in G \/ \E i \in 1 .. k - 1 : p \in Gives(f[i])
  <2>1. PICK r, c : r = row[k] /\ c = col[k]
    OBVIOUS
  <2>2. r \in 1 .. n /\ c \in 1 .. Len(ss[r]) /\ f[k] = ss[r][c]
    BY <1>5, <2>1 DEF Places
  <2>3. f[k].class # "unknown"
    BY <2>2 DEF Served
  <2>4. ASSUME NEW p \in Needs(f[k]), p \notin G PROVE \E i \in 1 .. k - 1 : p \in Gives(f[i])
    <3>1. PICK d \in 1 .. c - 1 : p \in Gives(ss[r][d])
      BY <2>2, <2>4 DEF Served
    <3>2. Len(ss[r]) \in Nat /\ Len(f) \in Nat
      BY <1>1, <1>2, <1>4, <2>2, SeqFacts
    <3>3. d \in 1 .. Len(ss[r])
      BY <2>2, <3>2
    <3>4. PICK i \in 1 .. Len(f) : row[i] = r /\ col[i] = d
      BY <1>5, <2>2, <3>3 DEF Places
    <3>5. f[i] = ss[r][d]
      BY <1>5, <3>4 DEF Places
    <3>6. i < k
      <4>1. ~(k < i)
        <5>1. k < i => row[k] < row[i] \/ (row[k] = row[i] /\ col[k] < col[i])
          BY <1>5, <3>4 DEF Places
        <5> QED BY <2>1, <2>2, <3>4, <5>1
      <4>2. k # i
        BY <2>1, <2>2, <3>4
      <4> QED BY <3>2, <3>4, <4>1, <4>2
    <3> QED BY <3>1, <3>4, <3>5, <3>6
  <2> QED BY <2>3, <2>4
<1>7. Served(f, G)
  BY <1>4, <1>6 DEF Served
<1> QED BY <1>3, <1>7

OfDomain == {"domain"}
OfItem == {"domain", "item"}
OfMember == {"domain", "subitems"}
OfLiteral == {"enumliterals"}

(* What the lines need that are not versions, domains or unknown.          *)
LEMMA NeedsOfLines ==
  ASSUME NEW l, NEW c, c = l.class
  PROVE  /\ c \in {"comment", "blank"} => c # "unknown" /\ Needs(l) = {}
         /\ c = "literal" => c # "unknown" /\ Needs(l) \subseteq OfLiteral
         /\ c = "domain" => c # "unknown" /\ Needs(l) = {} /\ OfDomain \subseteq Gives(l)
         /\ c \in {"depends"} \cup Items => c # "unknown" /\ Needs(l) \subseteq OfDomain
         /\ c \in {"redirect", "enum"} \cup Sections => c # "unknown" /\ Needs(l) \subseteq OfItem
         /\ c \in Items => OfItem \subseteq OfDomain \cup Gives(l)
         /\ c \in Sections => OfMember \subseteq OfItem \cup Gives(l)
         /\ c = "member" => c # "unknown" /\ Needs(l) \subseteq OfMember
         /\ OwnsLiterals(l) => OfLiteral \subseteq Gives(l)
<1> USE DEF Items, Sections
<1>1. c \in {"comment", "blank"} => c # "unknown" /\ Needs(l) = {}
  BY DEF Needs
<1>2. c = "literal" => c # "unknown" /\ Needs(l) \subseteq OfLiteral
  BY DEF Needs, OfLiteral
<1>3. c = "domain" => c # "unknown" /\ Needs(l) = {} /\ OfDomain \subseteq Gives(l)
  BY DEF Needs, Gives, OfDomain, Names, IsDomain
<1>4. c \in {"depends"} \cup Items => c # "unknown" /\ Needs(l) \subseteq OfDomain
  BY DEF Needs, OfDomain
<1>5. c \in {"redirect", "enum"} \cup Sections => c # "unknown" /\ Needs(l) \subseteq OfItem
  BY DEF Needs, OfItem
<1>6. c \in Items => OfItem \subseteq OfDomain \cup Gives(l)
  BY DEF Gives, OfItem, OfDomain, Names, IsItem
<1>7. c \in Sections => OfMember \subseteq OfItem \cup Gives(l)
  BY DEF Gives, OfMember, OfItem, Names, IsSection
<1>8. c = "member" => c # "unknown" /\ Needs(l) \subseteq OfMember
  BY DEF Needs, OfMember
<1>9. OwnsLiterals(l) => OfLiteral \subseteq Gives(l)
  BY DEF Gives, OfLiteral, Names
<1> QED BY <1>1, <1>2, <1>3, <1>4, <1>5, <1>6, <1>7, <1>8, <1>9

LEMMA ServedDesc == ASSUME NEW d, IsSeq(d) PROVE Served(DescLines(d), {})
<1>1. Len(d) \in Nat
  BY SeqFacts
<1>2. PICK ls : ls = DescLines(d)
  OBVIOUS
<1>3. ls = [i \in 1 .. Len(d) |-> ls[i]] /\ \A i \in 1 .. Len(d) : ls[i].class = "comment"
  BY <1>2 DEF DescLines
<1>4. \A i \in 1 .. Len(d) : ls[i].class # "unknown" /\ Needs(ls[i]) \subseteq {}
  BY <1>3, NeedsOfLines
<1> QED BY <1>1, <1>2, <1>3, <1>4, ServedAll

LEMMA ServedLiterals == ASSUME NEW d, IsSeq(d) PROVE Served(LiteralLines(d), OfLiteral)
<1>1. Len(d) \in Nat
  BY SeqFacts
<1>2. PICK ls : ls = LiteralLines(d)
  OBVIOUS
<1>3. ls = [i \in 1 .. Len(d) |-> ls[i]] /\ \A i \in 1 .. Len(d) : ls[i].class = "literal"
  BY <1>2 DEF LiteralLines
<1>4. \A i \in 1 .. Len(d) : ls[i].class # "unknown" /\ Needs(ls[i]) \subseteq OfLiteral
  BY <1>3, NeedsOfLines
<1> QED BY <1>1, <1>2, <1>3, <1>4, ServedAll

LEMMA ServedBlank == Served(Blank, {})
<1>1. PICK x : x = [class |-> "blank"]
  OBVIOUS
<1>2. x.class = "blank" /\ Blank = <<x>>
  BY <1>1 DEF Blank
<1> QED BY <1>2, NeedsOfLines, ServedOne

LEMMA ServedMember == ASSUME NEW p, MemberShape(p) PROVE Served(MemberLines(p), OfMember)
<1>1. PICK d, e, x : d = DescLines(p.desc) /\ e = LiteralLines(p.enum) /\ x = MemberLine(p)
  OBVIOUS
<1>2. Served(d, {}) /\ Served(e, OfLiteral)
  BY <1>1, ServedDesc, ServedLiterals DEF MemberShape
<1>3. x.class = "member" /\ (p.enum # <<>> => x.typ = "enum")
  BY <1>1 DEF MemberLine
<1>4. Served(<<x>>, OfMember) /\ Given(<<x>>) = Gives(x)
  BY <1>3, NeedsOfLines, ServedOne
<1>5. Served(e, OfMember \cup Gives(x))
  <2>1. CASE p.enum = <<>>
    <3>1. Len(e) = 0
      <4>1. e = [i \in 1 .. 0 |-> e[i]]
        BY <1>1, <2>1, NoElements DEF LiteralLines
      <4> QED BY <4>1, SeqFunction
    <3> QED BY <1>2, <3>1 DEF Served
  <2>2. CASE p.enum # <<>>
    <3>1. OfLiteral \subseteq Gives(x)
      BY <1>3, <2>2, NeedsOfLines DEF OwnsLiterals
    <3> QED BY <1>2, <3>1, ServedMore
  <2> QED BY <2>1, <2>2
<1>6. Served(d, OfMember)
  BY <1>2, ServedMore
<1>7. Served(d \o <<x>>, OfMember) /\ Given(d \o <<x>>) = Given(d) \cup Gives(x)
  <2>1. Served(<<x>>, OfMember \cup Given(d))
    BY <1>4, ServedMore
  <2> QED BY <1>4, <1>6, <2>1, ServedJoined
<1>8. Served(e, OfMember \cup Given(d \o <<x>>))
  <2>1. OfMember \cup Gives(x) \subseteq OfMember \cup Given(d \o <<x>>)
    BY <1>7
  <2> QED BY <1>5, <2>1, ServedMore
<1>9. Served((d \o <<x>>) \o e, OfMember)
  BY <1>7, <1>8, ServedJoined
<1> QED BY <1>1, <1>9 DEF MemberLines

(* A line and lines that need what it gives.                               *)
LEMMA ServedAfterLine ==
  ASSUME NEW x, x.class # "unknown", NEW G, Needs(x) \subseteq G, NEW b, Served(b, G \cup Gives(x))
  PROVE  Served(<<x>> \o b, G) /\ Gives(x) \subseteq Given(<<x>> \o b)
<1>1. Served(<<x>>, G) /\ Given(<<x>>) = Gives(x)
  BY ServedOne
<1>2. Served(<<x>> \o b, G) /\ Given(<<x>> \o b) = Gives(x) \cup Given(b)
  BY <1>1, ServedJoined
<1> QED BY <1>2

LEMMA ServedProps ==
  ASSUME NEW s \in Sections, NEW ms, MembersShape(ms) PROVE Served(PropLines(s, ms), OfItem)
<1>1. PICK ss : ss = [i \in 1 .. Len(ms) |-> MemberLines(ms[i])]
  OBVIOUS
<1>2. Len(ms) \in Nat
  BY SeqFacts DEF MembersShape
<1>3. \A i \in 1 .. Len(ms) : Served(MemberLines(ms[i]), OfMember)
  BY ServedMember DEF MembersShape
<1>4. ss = [i \in 1 .. Len(ms) |-> ss[i]] /\ \A i \in 1 .. Len(ms) : ss[i] = MemberLines(ms[i])
  BY <1>1
<1>5. Served(FlattenSeq(ss), OfMember)
  BY <1>2, <1>3, <1>4, ServedFlat
<1>6. PICK x : x = [class |-> s]
  OBVIOUS
<1>7. x.class \in Sections
  BY <1>6
<1>8. x.class # "unknown" /\ Needs(x) \subseteq OfItem /\ OfMember \subseteq OfItem \cup Gives(x)
  BY <1>7, NeedsOfLines
<1>9. Served(FlattenSeq(ss), OfItem \cup Gives(x))
  BY <1>5, <1>8, ServedMore
<1>10. Served(<<x>> \o FlattenSeq(ss), OfItem)
  BY <1>8, <1>9, ServedAfterLine
<1>11. PropLines(s, ms) = IF ms = <<>> THEN <<>> ELSE <<x>> \o FlattenSeq(ss)
  BY <1>1, <1>6 DEF PropLines
<1> QED BY <1>10, <1>11, ServedNone

LEMMA ServedRedirect == ASSUME NEW t PROVE Served(RedirectLines(t, FALSE), OfItem)
<1>1. PICK x : x = RedirectLine(t, FALSE)
  OBVIOUS
<1>2. x.class = "redirect"
  BY <1>1 DEF RedirectLine
<1>3. Served(<<x>>, OfItem)
  BY <1>2, NeedsOfLines, ServedOne
<1>4. Served(InsteadLines(t), OfItem)
  <2>1. \A y : Served(DescLines(<<y>>), OfItem)
    BY Single, ServedDesc, ServedMore
  <2>2. Served(<<>>, OfItem)
    BY ServedNone
  <2> QED BY <2>1, <2>2, Zenon DEF InsteadLines
<1>5. RedirectLines(t, FALSE) = IF t.redirect = <<>> THEN <<>> ELSE InsteadLines(t) \o <<x>>
  BY <1>1, RedirectParts
<1>6. Served(InsteadLines(t) \o <<x>>, OfItem)
  BY <1>3, <1>4, ServedBoth
<1> QED BY <1>5, <1>6, ServedNone

(* A type that Bytes writes in lines that Parse knows: writeRedirect indents *)
(* the line of a redirected type as redirectRE does not want it, and the    *)
(* name of a reference is not written (pdl/pdl.go:306-313, 410-420).        *)
WritableType(t) == t.redirect = <<>> /\ TypeLine(t).class # "unknown"

LEMMA LineOfItem ==
  ASSUME NEW x, x.class \in Items, NEW d, IsSeq(d), NEW b, Served(b, OfItem)
  PROVE  Served(DescLines(d) \o <<x>> \o b, OfDomain)
<1>1. PICK a : a = DescLines(d)
  OBVIOUS
<1>2. Served(a, OfDomain)
  BY <1>1, ServedDesc, ServedMore
<1>3. x.class # "unknown" /\ Needs(x) \subseteq OfDomain /\ OfItem \subseteq OfDomain \cup Gives(x)
  BY NeedsOfLines
<1>4. Served(<<x>>, OfDomain) /\ Given(<<x>>) = Gives(x)
  BY <1>3, ServedOne
<1>5. Served(<<x>>, OfDomain \cup Given(a))
  BY <1>4, ServedMore
<1>6. Served(a \o <<x>>, OfDomain) /\ Given(a \o <<x>>) = Given(a) \cup Gives(x)
  BY <1>2, <1>4, <1>5, ServedJoined
<1>7. Served(b, OfDomain \cup Given(a \o <<x>>))
  <2>1. OfItem \subseteq OfDomain \cup Given(a \o <<x>>)
    BY <1>3, <1>6
  <2> QED BY <2>1, ServedMore
<1>8. Served((a \o <<x>>) \o b, OfDomain)
  BY <1>6, <1>7, ServedJoined
<1> QED BY <1>1, <1>8

LEMMA ServedItem ==
  ASSUME NEW t, ItemShape(t)
  PROVE  /\ WritableType(t) => Served(TypeLines(t), OfDomain)
         /\ Served(CommandLines(t), OfDomain)
         /\ Served(EventLines(t), OfDomain)
<1>1. PICK b, d, e, pr, pa, re, q : /\ b = Blank /\ d = DescLines(t.desc) /\ e = LiteralLines(t.enum)
                                    /\ pr = PropLines("properties", t.properties)
                                    /\ pa = PropLines("parameters", t.parameters)
                                    /\ re = PropLines("returns", t.returns)
                                    /\ q = RedirectLines(t, FALSE)
  OBVIOUS
<1>2. Served(b, OfItem)
  BY <1>1, ServedBlank, ServedMore
<1>3. Served(pr, OfItem) /\ Served(pa, OfItem) /\ Served(re, OfItem) /\ Served(q, OfItem)
  <2>1. MembersShape(t.properties) /\ MembersShape(t.parameters) /\ MembersShape(t.returns)
    BY DEF ItemShape, Sections
  <2>2. "properties" \in Sections /\ "parameters" \in Sections /\ "returns" \in Sections
    BY DEF Sections
  <2>3. Served(PropLines("properties", t.properties), OfItem) /\ Served(PropLines("parameters", t.parameters), OfItem)
        /\ Served(PropLines("returns", t.returns), OfItem)
    BY <2>1, <2>2, ServedProps
  <2> QED BY <1>1, <2>3, ServedRedirect
<1>4. PICK x, y, z, w : /\ x = TypeLine(t) /\ y = [class |-> "command", name |-> t.name, flags |-> t.flags]
                        /\ z = [class |-> "event", name |-> t.name, flags |-> t.flags]
                        /\ w = [class |-> "enum"]
  OBVIOUS
<1>5. y.class \in Items /\ z.class \in Items /\ (x.class # "unknown" => x.class \in Items)
  <2>1. x.class = "unknown" \/ x.class = "type"
    BY <1>4 DEF TypeLine
  <2> QED BY <1>4, <2>1 DEF Items
<1>6. IsSeq(d) /\ IsSeq(<<x>>) /\ IsSeq(<<y>>) /\ IsSeq(<<z>>) /\ IsSeq(t.desc) /\ IsSeq(t.enum)
  <2>1. IsSeq(t.desc) /\ IsSeq(t.enum)
    BY DEF ItemShape
  <2>2. IsSeq(d)
    BY <1>1, <2>1, ServedDesc DEF Served
  <2> QED BY <2>1, <2>2, Single
<1>7. PICK v : v = IF t.enum = <<>> THEN <<>> ELSE <<w>> \o e
  OBVIOUS
<1>8. Served(v, OfItem)
  <2>1. w.class = "enum" /\ OwnsLiterals(w)
    BY <1>4 DEF OwnsLiterals
  <2>2. w.class # "unknown" /\ Needs(w) \subseteq OfItem /\ OfLiteral \subseteq Gives(w)
    BY <2>1, NeedsOfLines
  <2>3. Served(e, OfItem \cup Gives(w))
    <3>1. Served(e, OfLiteral)
      BY <1>1, <1>6, ServedLiterals
    <3> QED BY <2>2, <3>1, ServedMore
  <2>4. Served(<<w>> \o e, OfItem)
    BY <2>2, <2>3, ServedAfterLine
  <2> QED BY <1>7, <2>4, ServedNone
<1>9. /\ IsSeq(b) /\ IsSeq(v) /\ IsSeq(pr) /\ IsSeq(pa) /\ IsSeq(re) /\ IsSeq(q)
      /\ Served(JoinThree(v, pr, b), OfItem) /\ Served(JoinFour(q, pa, re, b), OfItem)
      /\ Served(JoinThree(q, pa, b), OfItem)
  <2>1. Served(v \o pr, OfItem) /\ Served(q \o pa, OfItem)
    BY <1>3, <1>8, ServedBoth
  <2>2. Served(v \o pr \o b, OfItem) /\ Served(q \o pa \o re, OfItem) /\ Served(q \o pa \o b, OfItem)
    BY <1>2, <1>3, <2>1, ServedBoth
  <2>3. Served(q \o pa \o re \o b, OfItem)
    BY <1>2, <2>2, ServedBoth
  <2>4. \A s : Served(s, OfItem) => IsSeq(s)
    BY DEF Served
  <2> QED BY <1>2, <1>3, <1>8, <2>2, <2>3, <2>4 DEF JoinThree, JoinFour
<1>10. IsSeq(d \o <<x>>) /\ IsSeq(d \o <<y>>) /\ IsSeq(d \o <<z>>)
  BY <1>6, Concat
<1>11. PICK tp, cp, ep, cl, el : /\ tp = JoinThree(v, pr, b) /\ cp = JoinFour(q, pa, re, b) /\ ep = JoinThree(q, pa, b)
                                 /\ cl = CommandLines(t) /\ el = EventLines(t)
  OBVIOUS
<1>12. cl = d \o <<y>> \o cp /\ el = d \o <<z>> \o ep
  <2>1. cl = JoinFive(d \o <<y>>, q, pa, re, b)
    BY <1>1, <1>4, <1>11 DEF CommandLines, JoinFive
  <2>2. el = JoinFour(d \o <<z>>, q, pa, b)
    BY <1>1, <1>4, <1>11 DEF EventLines, JoinFour
  <2>3. cl = d \o <<y>> \o cp
    BY <1>9, <1>10, <1>11, <2>1, JoinedFive
  <2>4. el = d \o <<z>> \o ep
    BY <1>9, <1>10, <1>11, <2>2, JoinedFour
  <2> QED BY <2>3, <2>4
<1>13. ASSUME WritableType(t) PROVE Served(TypeLines(t), OfDomain)
  <2>1. PICK r, tl : r = RedirectLines(t, TRUE) /\ tl = TypeLines(t)
    OBVIOUS
  <2>2. r = <<>>
    BY <1>13, <2>1, RedirectParts DEF WritableType
  <2>3. tl = d \o <<x>> \o r \o v \o pr \o b
    BY <1>1, <1>4, <1>7, <2>1 DEF TypeLines
  <2>4. d \o <<x>> \o r = d \o <<x>>
    <3>1. PICK s : s = d \o <<x>>
      OBVIOUS
    <3>2. s \in Seq(ToSet(s))
      BY <1>6, <3>1, Concat DEF IsSeq
    <3>3. s \o <<>> = s
      BY <3>2
    <3> QED BY <2>2, <3>1, <3>3
  <2>5. tl = JoinFour(d \o <<x>>, v, pr, b)
    BY <2>3, <2>4, Zenon DEF JoinFour
  <2>6. tl = d \o <<x>> \o tp
    BY <1>9, <1>10, <1>11, <2>5, JoinedFour
  <2>7. x.class \in Items
    BY <1>4, <1>5, <1>13 DEF WritableType
  <2> QED BY <1>1, <1>6, <1>9, <1>11, <2>1, <2>6, <2>7, LineOfItem
<1>14. Served(CommandLines(t), OfDomain)
  BY <1>1, <1>5, <1>6, <1>9, <1>11, <1>12, LineOfItem
<1>15. Served(EventLines(t), OfDomain)
  BY <1>1, <1>5, <1>6, <1>9, <1>11, <1>12, LineOfItem
<1> QED BY <1>13, <1>14, <1>15

LEMMA ServedItems ==
  ASSUME NEW ts, ItemsShape(ts)
  PROVE  /\ (\A i \in 1 .. Len(ts) : WritableType(ts[i])) =>
              Served(FlattenSeq([i \in 1 .. Len(ts) |-> TypeLines(ts[i])]), OfDomain)
         /\ Served(FlattenSeq([i \in 1 .. Len(ts) |-> CommandLines(ts[i])]), OfDomain)
         /\ Served(FlattenSeq([i \in 1 .. Len(ts) |-> EventLines(ts[i])]), OfDomain)
<1>1. Len(ts) \in Nat /\ \A i \in 1 .. Len(ts) : ItemShape(ts[i])
  BY SeqFacts DEF ItemsShape
<1>2. PICK n : n = Len(ts)
  OBVIOUS
<1>3. PICK ss : ss = [i \in 1 .. n |-> TypeLines(ts[i])]
  OBVIOUS
<1>4. PICK us : us = [i \in 1 .. n |-> CommandLines(ts[i])]
  OBVIOUS
<1>5. PICK vs : vs = [i \in 1 .. n |-> EventLines(ts[i])]
  OBVIOUS
<1>6. ASSUME \A i \in 1 .. n : WritableType(ts[i]) PROVE Served(FlattenSeq(ss), OfDomain)
  <2>1. ss = [i \in 1 .. n |-> ss[i]] /\ \A i \in 1 .. n : Served(ss[i], OfDomain)
    BY <1>1, <1>2, <1>3, <1>6, ServedItem
  <2> QED BY <1>1, <1>2, <2>1, ServedFlat
<1>7. us = [i \in 1 .. n |-> us[i]] /\ \A i \in 1 .. n : Served(us[i], OfDomain)
  BY <1>1, <1>2, <1>4, ServedItem
<1>8. vs = [i \in 1 .. n |-> vs[i]] /\ \A i \in 1 .. n : Served(vs[i], OfDomain)
  BY <1>1, <1>2, <1>5, ServedItem
<1>9. Served(FlattenSeq(us), OfDomain) /\ Served(FlattenSeq(vs), OfDomain)
  BY <1>1, <1>2, <1>7, <1>8, ServedFlat
<1> QED BY <1>2, <1>3, <1>4, <1>5, <1>6, <1>9

WritableDomain(d) == \A i \in 1 .. Len(d.types) : WritableType(d.types[i])

LEMMA ServedDomain == ASSUME NEW d, DomainShape(d), WritableDomain(d) PROVE Served(DomainLines(d), {})
<1>1. PICK a, x, b, c : /\ a = DescLines(d.desc) /\ b = Blank
                        /\ x = [class |-> "domain", name |-> d.name, flags |-> d.flags]
                        /\ c = [i \in 1 .. Len(d.dependencies) |-> [class |-> "depends", name |-> d.dependencies[i]]]
  OBVIOUS
<1>2. PICK ts, cs, es : /\ ts = FlattenSeq([i \in 1 .. Len(d.types) |-> TypeLines(d.types[i])])
                        /\ cs = FlattenSeq([i \in 1 .. Len(d.commands) |-> CommandLines(d.commands[i])])
                        /\ es = FlattenSeq([i \in 1 .. Len(d.events) |-> EventLines(d.events[i])])
  OBVIOUS
<1>3. Served(a, {})
  BY <1>1, ServedDesc DEF DomainShape
<1>4. Served(b, OfDomain)
  BY <1>1, ServedBlank, ServedMore
<1>5. Served(c, OfDomain)
  <2>1. PICK n : n = Len(d.dependencies)
    OBVIOUS
  <2>2. n \in Nat
    BY <2>1, SeqFacts DEF DomainShape
  <2>3. c = [i \in 1 .. n |-> c[i]] /\ \A i \in 1 .. n : c[i].class = "depends"
    BY <1>1, <2>1
  <2>4. \A i \in 1 .. n : c[i].class # "unknown" /\ Needs(c[i]) \subseteq OfDomain
    BY <2>3, NeedsOfLines
  <2> QED BY <2>2, <2>3, <2>4, ServedAll
<1>6. Served(ts, OfDomain) /\ Served(cs, OfDomain) /\ Served(es, OfDomain)
  <2>1. ItemsShape(d.types) /\ ItemsShape(d.commands) /\ ItemsShape(d.events)
    BY DEF DomainShape, ItemLists
  <2> QED BY <1>2, <2>1, ServedItems DEF WritableDomain
<1>7. x.class # "unknown" /\ Needs(x) = {} /\ OfDomain \subseteq Gives(x)
  <2>1. x.class = "domain"
    BY <1>1
  <2> QED BY <2>1, NeedsOfLines
<1>8. PICK h : h = a \o <<x>>
  OBVIOUS
<1>9. Served(h, {}) /\ OfDomain \subseteq Given(h)
  <2>1. Served(<<x>>, {}) /\ Given(<<x>>) = Gives(x)
    BY <1>7, ServedOne
  <2>2. Served(<<x>>, {} \cup Given(a))
    BY <2>1, ServedMore
  <2>3. Served(h, {}) /\ Given(h) = Given(a) \cup Gives(x)
    BY <1>3, <1>8, <2>1, <2>2, ServedJoined
  <2> QED BY <1>7, <2>3
<1>10. PICK hc, hb, ht, hs : hc = h \o c /\ hb = hc \o b /\ ht = hb \o ts /\ hs = ht \o cs
  OBVIOUS
<1>11. ASSUME NEW p, NEW q, Served(p, {}), OfDomain \subseteq Given(p), Served(q, OfDomain)
       PROVE  Served(p \o q, {}) /\ OfDomain \subseteq Given(p \o q)
  <2>1. Served(q, {} \cup Given(p))
    BY <1>11, ServedMore
  <2>2. Served(p \o q, {}) /\ Given(p \o q) = Given(p) \cup Given(q)
    BY <1>11, <2>1, ServedJoined
  <2> QED BY <1>11, <2>2
<1>12. Served(hc, {}) /\ OfDomain \subseteq Given(hc)
  BY <1>5, <1>9, <1>10, <1>11
<1>13. Served(hb, {}) /\ OfDomain \subseteq Given(hb)
  BY <1>4, <1>10, <1>11, <1>12
<1>14. Served(ht, {}) /\ OfDomain \subseteq Given(ht)
  BY <1>6, <1>10, <1>11, <1>13
<1>15. Served(hs, {}) /\ OfDomain \subseteq Given(hs)
  BY <1>6, <1>10, <1>11, <1>14
<1>16. Served(hs \o es, {})
  BY <1>6, <1>11, <1>15
<1>17. DomainLines(d) = h \o c \o b \o ts \o cs \o es
  BY <1>1, <1>2, <1>8 DEF DomainLines
<1> QED BY <1>10, <1>16, <1>17

LEMMA ServedHeader == ASSUME NEW d, IsSeq(d.copyright) PROVE Served(HeaderLines(d), {})
<1>1. PICK c, b : b = Blank /\ c = IF d.copyright = <<>> THEN <<>> ELSE DescLines(d.copyright) \o Blank
  OBVIOUS
<1>2. PICK x, y, z : /\ x = [class |-> "version"] /\ y = [class |-> "major", number |-> d.version[1]]
                     /\ z = [class |-> "minor", number |-> d.version[2]]
  OBVIOUS
<1>3. PICK v, t : t = <<x, y, z>> \o b /\ v = IF d.version = <<>> THEN <<>> ELSE t
  OBVIOUS
<1>4. HeaderLines(d) = c \o v
  BY <1>1, <1>2, <1>3 DEF HeaderLines
<1>5. Served(b, {}) /\ Served(c, {})
  <2>1. Served(b, {})
    BY <1>1, ServedBlank
  <2>2. Served(DescLines(d.copyright) \o b, {})
    BY <2>1, ServedDesc, ServedBoth
  <2> QED BY <1>1, <2>1, <2>2, ServedNone
<1>6. Served(<<x, y, z>>, {})
  <2>1. PICK s : s = <<x, y, z>>
    OBVIOUS
  <2>2. s \in Seq({x, y, z}) /\ Len(s) = 3 /\ s[1] = x /\ s[2] = y /\ s[3] = z
    BY <2>1
  <2>3. /\ x.class # "unknown" /\ y.class # "unknown" /\ z.class # "unknown"
        /\ Needs(x) = {} /\ "version" \in Gives(x)
        /\ Needs(y) = {"version"} /\ Needs(z) = {"version"}
    BY <1>2 DEF Needs, Gives, Names, IsVersion, Items, Sections
  <2>4. IsSeq(s)
    BY <2>2, AnySeq
  <2>5. ASSUME NEW j \in 1 .. Len(s)
        PROVE  /\ s[j].class # "unknown"
               /\ \A p \in Needs(s[j]) : \E i \in 1 .. j - 1 : p \in Gives(s[i])
    <3>1. j = 1 \/ j = 2 \/ j = 3
      BY <2>2
    <3>2. j # 1 => 1 \in 1 .. j - 1
      BY <3>1
    <3>3. \A p \in Needs(s[j]) : j # 1 /\ p \in Gives(s[1])
      BY <2>2, <2>3, <3>1
    <3> QED BY <2>2, <2>3, <3>1, <3>2, <3>3
  <2> QED BY <2>1, <2>4, <2>5 DEF Served
<1>7. Served(v, {})
  BY <1>3, <1>5, <1>6, ServedBoth, ServedNone
<1> QED BY <1>4, <1>5, <1>7, ServedBoth

(* A document that Bytes writes in lines that Parse knows. *)
WritableDoc(d) == ~HasBareArray(d) /\ \A i \in 1 .. Len(d.domains) : WritableDomain(d.domains[i])

LEMMA ServedBytes ==
  ASSUME NEW d, DocShape(d), WritableDoc(d), NEW ls \in Bytes(d)
  PROVE  Served(ls, {})
<1>1. PICK s, ds : /\ s \in Sorted(d.domains, ByDomain)
                   /\ ds \in [1 .. Len(s) -> UNION {Rearranged(s[i]) : i \in 1 .. Len(s)}]
                   /\ \A i \in 1 .. Len(s) : ds[i] \in Rearranged(s[i])
                   /\ ls = HeaderLines(d) \o FlattenSeq([i \in 1 .. Len(ds) |-> DomainLines(ds[i])])
  BY DEF Bytes
<1>2. s \in Permuted(d.domains) /\ DomainsShape(d.domains)
  BY <1>1 DEF Sorted, DocShape
<1>3. IsSeq(s) /\ \A i \in 1 .. Len(s) : DomainShape(s[i]) /\ WritableDomain(s[i])
  <2>1. PICK o : o = d.domains
    OBVIOUS
  <2>2. IsSeq(o) /\ s \in Permuted(o) /\ \A i \in 1 .. Len(o) : DomainShape(o[i]) /\ WritableDomain(o[i])
    BY <1>2, <2>1 DEF DomainsShape, WritableDoc
  <2>3. IsSeq(s) /\ \A i \in 1 .. Len(s) : \E j \in 1 .. Len(o) : s[i] = o[j]
    BY <2>2, PermutedSeq
  <2> QED BY <2>2, <2>3
<1>4. Len(s) \in Nat /\ ds = [i \in 1 .. Len(s) |-> ds[i]]
  BY <1>1, <1>3, SeqFacts
<1>5. IsSeq(ds) /\ Len(ds) = Len(s)
  BY <1>4, SeqFunction
<1>6. ASSUME NEW k \in 1 .. Len(s) PROVE Served(DomainLines(ds[k]), {})
  <2>1. PICK e, f : e = s[k] /\ f = ds[k]
    OBVIOUS
  <2>2. DomainShape(e) /\ WritableDomain(e) /\ f \in Rearranged(e)
    BY <1>1, <1>3, <2>1
  <2>3. DomainShape(f)
    BY <2>2, RearrangedDomain
  <2>4. WritableDomain(f)
    <3>1. PICK ts \in Sorted(e.types, ByName), cs \in Sorted(e.commands, ByName), es \in Sorted(e.events, ByName) :
            f = WithLists(e, ts, cs, es)
      BY <2>2 DEF Rearranged
    <3>2. f.types = ts
      <4>1. ItemLists \subseteq DOMAIN e
        BY <2>2 DEF DomainShape
      <4> QED BY <3>1, <4>1 DEF WithLists, ItemLists
    <3>3. ts \in Permuted(e.types)
      BY DEF Sorted
    <3>4. PICK o : o = e.types
      OBVIOUS
    <3>5. IsSeq(o) /\ ts \in Permuted(o) /\ \A i \in 1 .. Len(o) : WritableType(o[i])
      BY <2>2, <3>3, <3>4 DEF DomainShape, ItemsShape, ItemLists, WritableDomain
    <3>6. \A i \in 1 .. Len(ts) : \E j \in 1 .. Len(o) : ts[i] = o[j]
      BY <3>5, PermutedSeq
    <3>7. \A i \in 1 .. Len(ts) : WritableType(ts[i])
      BY <3>5, <3>6
    <3> QED BY <3>2, <3>7 DEF WritableDomain
  <2> QED BY <2>1, <2>3, <2>4, ServedDomain
<1>7. PICK ss : ss = [i \in 1 .. Len(ds) |-> DomainLines(ds[i])]
  OBVIOUS
<1>8. ss = [i \in 1 .. Len(ds) |-> ss[i]] /\ \A i \in 1 .. Len(ds) : Served(ss[i], {})
  BY <1>5, <1>6, <1>7
<1>9. Served(FlattenSeq(ss), {})
  BY <1>4, <1>5, <1>8, ServedFlat
<1>10. Served(HeaderLines(d), {})
  BY ServedHeader DEF DocShape
<1> QED BY <1>1, <1>7, <1>9, <1>10, ServedBoth

(* The pointers that are set. *)
SetPointers ==
  {p \in Names : \/ p = "domain" /\ domain # <<>>
                 \/ p = "item" /\ item # <<>>
                 \/ p = "subitems" /\ subitems # <<>>
                 \/ p = "enumliterals" /\ enumliterals # <<>>
                 \/ p = "version" /\ doc.version # <<>>}

LEMMA ServedLine ==
  ASSUME ParserShape, NEW l, ReadLine(l), l.class # "unknown", Needs(l) \subseteq SetPointers
  PROVE  outcome' = "reading" /\ SetPointers \cup Gives(l) \subseteq SetPointers'
<1>1. outcome = "reading" /\ IsDoc(doc)
  BY DEF ParserShape, DocShape, ReadLine
<1>2. ~NilPointer(l)
  <2>1. /\ l.class \in {"depends", "member"} \cup Items => "domain" \in Needs(l)
        /\ l.class = "member" => "subitems" \in Needs(l)
        /\ l.class \in {"enum", "redirect"} \cup Sections => "item" \in Needs(l)
        /\ l.class \in {"major", "minor"} => "version" \in Needs(l)
        /\ l.class = "literal" => "enumliterals" \in Needs(l)
    BY DEF Needs, Names
  <2>2. /\ "domain" \in SetPointers => domain # <<>>
        /\ "item" \in SetPointers => item # <<>>
        /\ "subitems" \in SetPointers => subitems # <<>>
        /\ "enumliterals" \in SetPointers => enumliterals # <<>>
        /\ "version" \in SetPointers => doc.version # <<>>
    BY DEF SetPointers
  <2> QED BY <2>1, <2>2 DEF NilPointer
<1>3. outcome' # "panic" /\ (outcome' = "reading" => Sets(l))
  BY <1>1, <1>2, AnyLine
<1>4. outcome' \in {"reading", "panic"}
  BY <1>1 DEF ReadLine, ReadComment, ReadBlank, ReadDomain, ReadDepends, ReadItem, ReadMember, ReadSection,
              ReadEnum, ReadVersion, ReadMajorMinor, ReadRedirect, ReadLiteral, ReadUnknown, ReadNil
<1>5. Sets(l)
  BY <1>3, <1>4
<1>6. SetPointers \cup Gives(l) \subseteq SetPointers'
  BY <1>5 DEF Sets, SetPointers, Gives
<1> QED BY <1>3, <1>4, <1>6

(* The inductive invariant: no line of the combined file that is left will  *)
(* find its pointer nil.                                                    *)
Writable == WritableDoc(Combine(pdls))

AcceptedInv ==
  /\ FilesInv
  /\ phase = "combined" /\ Writable => outcome = "reading" /\ Served(input, SetPointers)

LEMMA AcceptedStep == AcceptedInv /\ [Next]_vars => AcceptedInv'
<1> SUFFICES ASSUME AcceptedInv, [Next]_vars PROVE AcceptedInv'
  OBVIOUS
<1>1. FilesInv /\ FilesInv'
  BY FilesStep DEF AcceptedInv
<1> SUFFICES ASSUME phase' = "combined", Writable' PROVE outcome' = "reading" /\ Served(input', SetPointers')
  BY <1>1 DEF AcceptedInv
<1>2. CASE UNCHANGED vars
  <2>1. phase = "combined" /\ Writable /\ UNCHANGED <<outcome, input>> /\ SetPointers' = SetPointers
    BY <1>2 DEF vars, parser, Writable, SetPointers
  <2> QED BY <2>1 DEF AcceptedInv
<1>3. CASE CombineBytes
  <2>1. PICK d : d = Combine(pdls)
    OBVIOUS
  <2>2. WritableDoc(d) /\ DocShape(d)
    <3>1. UNCHANGED pdls
      BY <1>3 DEF CombineBytes
    <3>2. Writable
      BY <3>1 DEF Writable
    <3>3. DocShape(Combine(pdls))
      BY <1>1, CombinedShape DEF FilesInv, Parts
    <3> QED BY <2>1, <3>2, <3>3 DEF Writable
  <2>3. input' \in Bytes(d) /\ outcome' = "reading"
    BY <1>3, <2>1, <2>2 DEF CombineBytes, ParseRestart, WritableDoc
  <2>4. PICK ls : ls = input'
    OBVIOUS
  <2>5. Served(ls, {})
    BY <2>2, <2>3, <2>4, ServedBytes
  <2>6. PICK G : G = SetPointers'
    OBVIOUS
  <2> QED BY <2>3, <2>4, <2>5, <2>6, ServedMore
<1>4. CASE ReadCombined
  <2>1. /\ phase = "combined" /\ input # <<>> /\ input' = Tail(input) /\ ReadLine(Head(input)) /\ Writable
    BY <1>4 DEF ReadCombined, Writable
  <2>2. PICK ls, l, G : ls = input /\ l = Head(input) /\ G = SetPointers
    OBVIOUS
  <2>3. Served(ls, G)
    BY <2>1, <2>2 DEF AcceptedInv
  <2>4. l.class # "unknown" /\ Needs(l) \subseteq G /\ Served(Tail(ls), G \cup Gives(l))
    BY <2>1, <2>2, <2>3, ServedTail
  <2>5. outcome' = "reading" /\ SetPointers \cup Gives(l) \subseteq SetPointers'
    BY <1>1, <2>1, <2>2, <2>4, ServedLine DEF FilesInv
  <2>6. PICK H : H = SetPointers'
    OBVIOUS
  <2>7. Served(Tail(ls), H)
    BY <2>2, <2>4, <2>5, <2>6, ServedMore
  <2> QED BY <2>1, <2>2, <2>5, <2>6, <2>7
<1>5. CASE ReadFile \/ EndOfFile
  BY <1>1, <1>5 DEF ReadFile, EndOfFile, FilesInv
<1> QED BY <1>2, <1>3, <1>4, <1>5 DEF Next

(* Parse accepts every file that Bytes writes for documents without bare   *)
(* arrays, redirected types and types that are references: CombinedAccepted *)
(* holds wherever Writable does.                                            *)
THEOREM CombinedIsAccepted == Spec => [](Writable => CombinedAccepted)
<1>1. Init => AcceptedInv
  BY FilesStart DEF AcceptedInv, Init
<1>2. AcceptedInv => (Writable => CombinedAccepted)
  BY DEF AcceptedInv, CombinedAccepted
<1> QED BY <1>1, <1>2, AcceptedStep, PTL DEF Spec


(* Reading as a function.                                                  *)

(* What Parse knows between two lines, while it reads: the document and    *)
(* where the next line belongs.                                            *)
State ==
  [head |-> copyright, copyright |-> doc.copyright, version |-> doc.version,
   domains |-> doc.domains, domain |-> domain, item |-> item, subitems |-> subitems,
   literals |-> enumliterals, desc |-> Desc]

(* The item that a pointer leads to, and the domains with another one there. *)
ItemAtPointer(p, e) == p.domains[e[1]][e[2]][e[3]]
WithItem(p, e, x) == PutItem(p.domains, e[1], e[2], e[3], x)

NewIn(p, l, typ) == NewType(p.domains[p.domain[1]].name, l, typ, p.desc)

WithMember(t, f, m) == [t EXCEPT ![f] = Append(@, m)]
WithSection(t, f) == [t EXCEPT ![f] = <<>>]
WithRedirect(t, r) == [t EXCEPT !.redirect = r]
WithoutEnum(t) == [t EXCEPT !.enum = <<>>]

(* The domains after a line, from what is known before it. *)
DomainsThen(p, l) ==
  CASE l.class = "domain" -> Append(p.domains, NewDomain(l, p.desc))
    [] l.class = "depends" -> AddDependency(p.domains, p.domain[1], l.name)
    [] l.class \in Items -> AddItem(p.domains, p.domain[1], ListOf[l.class], NewIn(p, l, TypeOf(l)))
    [] l.class = "member" ->
         WithItem(p, p.subitems, WithMember(ItemAtPointer(p, p.subitems), p.subitems[4],
                                            NewIn(p, l, Assigned(l.typ, l.array))))
    [] l.class \in Sections -> WithItem(p, p.item, WithSection(ItemAtPointer(p, p.item), l.class))
    [] l.class = "enum" -> WithItem(p, p.item, WithoutEnum(ItemAtPointer(p, p.item)))
    [] l.class = "redirect" ->
         WithItem(p, p.item, WithRedirect(ItemAtPointer(p, p.item), <<l.name, NamedInstead(p.desc)>>))
    [] l.class = "literal" /\ p.literals # Detached ->
         WithItem(p, p.literals, WithLiteral(ItemAtPointer(p, p.literals), p.literals, l.value))
    [] OTHER -> p.domains

VersionThen(p, l) ==
  CASE l.class = "version" -> <<0, 0>>
    [] l.class = "major" -> <<l.number, p.version[2]>>
    [] l.class = "minor" -> <<p.version[1], l.number>>
    [] OTHER -> p.version

DescThen(p, l) ==
  IF l.class # "comment" \/ (p.desc = <<>> /\ l.text = "") THEN <<>> ELSE Append(p.desc, l.text)

LiteralsThen(p, l) ==
  IF l.class = "enum" THEN p.item
  ELSE IF l.class = "member" /\ l.typ = "enum"
    THEN <<p.subitems[1], p.subitems[2], p.subitems[3], p.subitems[4],
           Len(ItemAtPointer(p, p.subitems)[p.subitems[4]]) + 1>>
  ELSE IF l.class \in Sections /\ MemberIn(p.literals, <<p.item[1], p.item[2], p.item[3], l.class>>)
    THEN Detached
  ELSE p.literals

(* What is known after a line, and after lines.                            *)
Then(p, l) ==
  [head |-> IF l.class = "comment" THEN p.head ELSE TRUE,
   copyright |-> IF p.head \/ l.class = "comment" THEN p.copyright ELSE p.desc,
   version |-> VersionThen(p, l),
   domains |-> DomainsThen(p, l),
   domain |-> IF l.class = "domain" THEN <<Len(p.domains) + 1>> ELSE p.domain,
   item |-> IF l.class \in Items
              THEN <<p.domain[1], ListOf[l.class], Len(p.domains[p.domain[1]][ListOf[l.class]]) + 1>>
              ELSE p.item,
   subitems |-> IF l.class \in Sections THEN <<p.item[1], p.item[2], p.item[3], l.class>> ELSE p.subitems,
   literals |-> LiteralsThen(p, l),
   desc |-> DescThen(p, l)]

ThenAll(p, ls) ==
  LET g[i \in 0 .. Len(ls)] == IF i = 0 THEN p ELSE Then(g[i - 1], ls[i])
  IN  g[Len(ls)]

-----------------------------------------------------------------------------
(* ThenAll, line by line.                                                  *)
ThenTo(g, p, ls, i) == IF i = 0 THEN p ELSE Then(g[i - 1], ls[i])

(* ThenAll is a recursive function: there is one that has its values.      *)
LEMMA ThenExists ==
  ASSUME NEW p, NEW ls, NEW n \in Nat
  PROVE  \E g : g = [i \in 0 .. n |-> ThenTo(g, p, ls, i)]
<1> DEFINE S == {m \in Nat : \E g : g = [i \in 0 .. m |-> ThenTo(g, p, ls, i)]}
<1>1. 0 \in S
  <2> DEFINE g == [i \in 0 .. 0 |-> p]
  <2>1. g = [i \in 0 .. 0 |-> ThenTo(g, p, ls, i)]
    BY DEF ThenTo
  <2> HIDE DEF g
  <2> QED BY <2>1
<1>2. ASSUME NEW m \in Nat, m \in S PROVE m + 1 \in S
  <2>1. PICK g : g = [i \in 0 .. m |-> ThenTo(g, p, ls, i)]
    BY <1>2
  <2> DEFINE h == [i \in 0 .. m + 1 |-> IF i <= m THEN g[i] ELSE ThenTo(g, p, ls, i)]
  <2>2. ASSUME NEW i \in 0 .. m + 1 PROVE h[i] = ThenTo(h, p, ls, i)
    <3>1. i > 0 => i - 1 \in 0 .. m
      OBVIOUS
    <3>2. i > 0 => h[i - 1] = g[i - 1]
      BY <3>1
    <3>3. ThenTo(h, p, ls, i) = ThenTo(g, p, ls, i)
      BY <3>2 DEF ThenTo
    <3>4. CASE i <= m
      BY <2>1, <3>3, <3>4
    <3> QED BY <3>3, <3>4
  <2>3. h = [i \in 0 .. m + 1 |-> ThenTo(h, p, ls, i)]
    BY <2>2
  <2> HIDE DEF h
  <2> QED BY <2>3
<1> HIDE DEF S
<1>3. n \in S
  BY <1>1, <1>2, Numbers
<1> QED BY <1>3 DEF S

(* What is known after each of the lines. *)
Steps(g, p, ls) == g[0] = p /\ \A i \in 1 .. Len(ls) : g[i] = Then(g[i - 1], ls[i])

LEMMA StepsOfThen ==
  ASSUME NEW p, NEW ls, IsSeq(ls)
  PROVE  \E g : ThenAll(p, ls) = g[Len(ls)] /\ Steps(g, p, ls)
<1> DEFINE P(g) == g = [i \in 0 .. Len(ls) |-> IF i = 0 THEN p ELSE Then(g[i - 1], ls[i])]
<1>1. Len(ls) \in Nat
  BY SeqFacts
<1>2. \E g : P(g)
  <2>1. PICK g : g = [i \in 0 .. Len(ls) |-> ThenTo(g, p, ls, i)]
    BY <1>1, ThenExists
  <2>2. P(g)
    BY <2>1, Zenon DEF ThenTo
  <2> HIDE DEF P
  <2> QED BY <2>2, Zenon
<1>3. P(CHOOSE g : P(g))
  BY <1>2, Zenon
<1>4. PICK g : P(g) /\ g = CHOOSE x : P(x)
  BY <1>3
<1>5. ThenAll(p, ls) = g[Len(ls)]
  BY <1>4 DEF ThenAll
<1>6. g = [i \in 0 .. Len(ls) |-> ThenTo(g, p, ls, i)]
  BY <1>4, Zenon DEF ThenTo
<1>7. \A i \in 0 .. Len(ls) : g[i] = ThenTo(g, p, ls, i)
  BY <1>6, Zenon
<1> HIDE DEF P
<1>8. g[0] = p
  BY <1>1, <1>7 DEF ThenTo
<1>9. ASSUME NEW i \in 1 .. Len(ls) PROVE g[i] = Then(g[i - 1], ls[i])
  <2>1. i \in 0 .. Len(ls) /\ i # 0
    BY <1>1
  <2> QED BY <1>7, <2>1 DEF ThenTo
<1> QED BY <1>5, <1>8, <1>9 DEF Steps

(* There is no other way to read the lines. *)
LEMMA StepsOnly ==
  ASSUME NEW p, NEW ls, IsSeq(ls), NEW g, Steps(g, p, ls)
  PROVE  ThenAll(p, ls) = g[Len(ls)]
<1>1. PICK h : ThenAll(p, ls) = h[Len(ls)] /\ Steps(h, p, ls)
  BY StepsOfThen
<1>2. Len(ls) \in Nat
  BY SeqFacts
<1> DEFINE S == {n \in Nat : n <= Len(ls) => g[n] = h[n]}
<1>3. 0 \in S
  BY <1>1 DEF Steps
<1>4. ASSUME NEW n \in Nat, n \in S PROVE n + 1 \in S
  <2> SUFFICES ASSUME n + 1 <= Len(ls) PROVE g[n + 1] = h[n + 1]
    OBVIOUS
  <2>1. PICK m : m = n + 1
    OBVIOUS
  <2>2. m \in 1 .. Len(ls) /\ m - 1 = n /\ g[n] = h[n]
    BY <1>2, <1>4, <2>1
  <2>3. g[m] = Then(g[m - 1], ls[m]) /\ h[m] = Then(h[m - 1], ls[m])
    BY <1>1, <2>2 DEF Steps
  <2>4. g[m] = h[m]
    BY <2>2, <2>3
  <2> QED BY <2>1, <2>4
<1> HIDE DEF S
<1>5. Len(ls) \in S
  BY <1>2, <1>3, <1>4, Numbers
<1>6. g[Len(ls)] = h[Len(ls)]
  BY <1>2, <1>5 DEF S
<1> QED BY <1>1, <1>6

LEMMA ThenNone == ASSUME NEW p PROVE ThenAll(p, <<>>) = p
<1>1. PICK g : ThenAll(p, <<>>) = g[Len(<<>>)] /\ Steps(g, p, <<>>)
  BY StepsOfThen, NoElements
<1> QED BY <1>1, NoElements DEF Steps

LEMMA ThenOne == ASSUME NEW p, NEW l PROVE ThenAll(p, <<l>>) = Then(p, l)
<1>1. PICK ls : ls = <<l>>
  OBVIOUS
<1>2. IsSeq(ls) /\ Len(ls) = 1 /\ ls[1] = l
  BY <1>1, Single
<1>3. PICK g : ThenAll(p, ls) = g[Len(ls)] /\ Steps(g, p, ls)
  BY <1>2, StepsOfThen
<1>4. g[1] = Then(g[0], ls[1]) /\ g[0] = p
  <2>1. 1 \in 1 .. Len(ls) /\ 1 - 1 = 0
    BY <1>2
  <2> QED BY <1>3, <2>1 DEF Steps
<1> QED BY <1>1, <1>2, <1>3, <1>4

LEMMA ThenJoined ==
  ASSUME NEW p, NEW ls, NEW ms, IsSeq(ls), IsSeq(ms)
  PROVE  ThenAll(p, ls \o ms) = ThenAll(ThenAll(p, ls), ms)
<1>1. PICK q : q = ThenAll(p, ls)
  OBVIOUS
<1>2. PICK g : q = g[Len(ls)] /\ Steps(g, p, ls)
  BY <1>1, StepsOfThen
<1>3. PICK h : ThenAll(q, ms) = h[Len(ms)] /\ Steps(h, q, ms)
  BY StepsOfThen
<1>4. PICK a, b, both : a = Len(ls) /\ b = Len(ms) /\ both = ls \o ms
  OBVIOUS
<1>5. /\ a \in Nat /\ b \in Nat /\ IsSeq(both) /\ Len(both) = a + b
      /\ \A i \in 1 .. a : both[i] = ls[i]
      /\ \A i \in 1 .. b : both[a + i] = ms[i]
  BY <1>4, SeqFacts, Concat
<1>6. PICK k : k = [i \in 0 .. a + b |-> IF i <= a THEN g[i] ELSE h[i - a]]
  OBVIOUS
<1>7. /\ \A i \in 0 .. a : k[i] = g[i]
      /\ \A i \in 0 .. b : k[a + i] = h[i]
  <2>1. ASSUME NEW i \in 0 .. a PROVE k[i] = g[i]
    BY <1>5, <1>6
  <2>2. ASSUME NEW i \in 0 .. b PROVE k[a + i] = h[i]
    <3>1. a + i \in 0 .. a + b /\ (a + i) - a = i
      BY <1>5
    <3>2. CASE i = 0
      <4>1. k[a] = g[a]
        BY <1>5, <2>1
      <4> QED BY <1>2, <1>3, <1>4, <1>5, <3>2, <4>1 DEF Steps
    <3>3. CASE i # 0
      <4>1. ~(a + i <= a)
        BY <1>5, <3>3
      <4> QED BY <1>6, <3>1, <4>1
    <3> QED BY <3>2, <3>3
  <2> QED BY <2>1, <2>2
<1>8. Steps(k, p, both)
  <2>1. k[0] = p
    BY <1>2, <1>5, <1>7 DEF Steps
  <2>2. ASSUME NEW i \in 1 .. Len(both) PROVE k[i] = Then(k[i - 1], both[i])
    <3>1. CASE i <= a
      <4>1. i \in 1 .. a /\ i \in 0 .. a /\ i - 1 \in 0 .. a
        BY <1>5, <3>1
      <4>2. g[i] = Then(g[i - 1], ls[i])
        BY <1>2, <1>4, <4>1 DEF Steps
      <4> QED BY <1>5, <1>7, <4>1, <4>2
    <3>2. CASE i > a
      <4>1. PICK j : j = i - a
        OBVIOUS
      <4>2. j \in 1 .. b /\ j \in 0 .. b /\ j - 1 \in 0 .. b /\ i = a + j /\ i - 1 = a + (j - 1)
        BY <1>5, <3>2, <4>1
      <4>3. h[j] = Then(h[j - 1], ms[j])
        BY <1>3, <1>4, <4>2 DEF Steps
      <4>4. k[a + j] = h[j] /\ k[a + (j - 1)] = h[j - 1] /\ both[a + j] = ms[j]
        BY <1>5, <1>7, <4>2
      <4> QED BY <4>2, <4>3, <4>4
    <3> QED BY <1>5, <3>1, <3>2
  <2> QED BY <2>1, <2>2 DEF Steps
<1>9. ThenAll(p, both) = k[a + b]
  BY <1>5, <1>8, StepsOnly
<1>10. k[a + b] = h[b]
  BY <1>5, <1>7
<1> QED BY <1>1, <1>3, <1>4, <1>9, <1>10

(* The first line is read, and then the others. *)
LEMMA ThenHead ==
  ASSUME NEW p, NEW ls, IsSeq(ls), ls # <<>>
  PROVE  ThenAll(p, ls) = ThenAll(Then(p, Head(ls)), Tail(ls))
<1>1. PICK l, ms : l = Head(ls) /\ ms = Tail(ls)
  OBVIOUS
<1>2. ls = <<l>> \o ms /\ IsSeq(ms)
  <2>1. PICK one, both : one = <<l>> /\ both = one \o ms
    OBVIOUS
  <2>2. IsSeq(one) /\ Len(one) = 1 /\ one[1] = l
    BY <2>1, Single
  <2>3. PICK n \in Nat : n = Len(ms)
    BY <1>1, HeadTail
  <2>4. /\ IsSeq(ms) /\ Len(ls) = n + 1 /\ ls[1] = l
        /\ \A i \in 1 .. n : ms[i] = ls[i + 1]
    BY <1>1, <2>3, HeadTail
  <2>5. /\ IsSeq(both) /\ Len(both) = 1 + n /\ both[1] = l
        /\ \A i \in 1 .. n : both[1 + i] = ms[i]
    BY <2>1, <2>2, <2>3, <2>4, Concat
  <2>6. ASSUME NEW i \in 1 .. n + 1 PROVE ls[i] = both[i]
    <3>1. CASE i = 1
      BY <2>4, <2>5, <3>1
    <3>2. CASE i # 1
      <4>1. PICK j : j = i - 1
        OBVIOUS
      <4>2. j \in 1 .. n /\ i = j + 1 /\ i = 1 + j
        BY <2>3, <3>2, <4>1
      <4>3. ms[j] = ls[j + 1] /\ both[1 + j] = ms[j]
        BY <2>4, <2>5, <4>2
      <4> QED BY <4>2, <4>3
    <3> QED BY <3>1, <3>2
  <2>7. ls = both
    <3>1. ls = [i \in 1 .. n + 1 |-> ls[i]]
      BY <2>4, SeqFacts
    <3>2. both = [i \in 1 .. n + 1 |-> both[i]]
      <4>1. both = [i \in 1 .. Len(both) |-> both[i]] /\ Len(both) = n + 1
        BY <2>3, <2>5, SeqFacts
      <4> QED BY <4>1
    <3> QED BY <2>6, <3>1, <3>2
  <2> QED BY <2>1, <2>4, <2>7
<1>3. IsSeq(<<l>>) /\ ThenAll(p, <<l>>) = Then(p, l)
  BY Single, ThenOne
<1>4. ThenAll(p, <<l>> \o ms) = ThenAll(ThenAll(p, <<l>>), ms)
  BY <1>2, <1>3, ThenJoined
<1>5. ThenAll(p, ls) = ThenAll(Then(p, l), ms)
  BY <1>2, <1>3, <1>4, Zenon
<1> QED BY <1>1, <1>5, Zenon

(* Sequences of lines, one after another.                                  *)
Stages(g, p, ss) ==
  /\ g[0] = p /\ g[Len(ss)] = ThenAll(p, FlattenSeq(ss))
  /\ \A i \in 1 .. Len(ss) : g[i] = ThenAll(g[i - 1], ss[i])

LEMMA ThenFlat ==
  ASSUME NEW p, NEW ss, IsSeq(ss), \A i \in 1 .. Len(ss) : IsSeq(ss[i])
  PROVE  \E g : Stages(g, p, ss)
<1>1. Len(ss) \in Nat
  BY SeqFacts
<1>2. CASE Len(ss) = 0
  <2>1. FlattenSeq(ss) = <<>>
    BY <1>2, SeqFacts DEF FlattenSeq
  <2>2. PICK g : g = [i \in 0 .. 0 |-> p]
    OBVIOUS
  <2>3. g[0] = p /\ g[0] = ThenAll(p, FlattenSeq(ss))
    BY <2>1, <2>2, ThenNone
  <2>4. Stages(g, p, ss)
    BY <1>2, <2>3 DEF Stages
  <2> QED BY <2>4
<1>3. CASE Len(ss) # 0
  <2>1. PICK f : /\ FlattenSeq(ss) = f[Len(ss)]
                 /\ \A i \in 1 .. Len(ss) : f[i] = Flat(f, ss, i)
    BY <1>1, <1>3, Flattened
  <2>2. PICK g : g = [i \in 0 .. Len(ss) |-> IF i = 0 THEN p ELSE ThenAll(p, f[i])]
    OBVIOUS
  <2>3. g[0] = p /\ \A i \in 1 .. Len(ss) : g[i] = ThenAll(p, f[i])
    BY <1>1, <2>2
  <2>4. \A i \in 1 .. Len(ss) : IsSeq(f[i])
    <3> DEFINE S == {n \in Nat : n \in 1 .. Len(ss) => IsSeq(f[n])}
    <3>1. 0 \in S
      OBVIOUS
    <3>2. ASSUME NEW n \in Nat, n \in S PROVE n + 1 \in S
      <4> SUFFICES ASSUME n + 1 \in 1 .. Len(ss) PROVE IsSeq(f[n + 1])
        OBVIOUS
      <4>1. PICK m : m = n + 1
        OBVIOUS
      <4>2. m \in 1 .. Len(ss) /\ m - 1 = n /\ (m # 1 => n \in 1 .. Len(ss))
        BY <1>1, <4>1
      <4>3. f[m] = IF m = 1 THEN ss[m] ELSE f[n] \o ss[m]
        BY <2>1, <4>2 DEF Flat
      <4>4. IsSeq(ss[m])
        BY <4>2
      <4>5. IsSeq(f[m])
        <5>1. CASE m = 1
          BY <4>3, <4>4, <5>1
        <5>2. CASE m # 1
          <6>1. IsSeq(f[n])
            BY <3>2, <4>2, <5>2
          <6>2. IsSeq(f[n] \o ss[m])
            BY <4>4, <6>1, Concat
          <6> QED BY <4>3, <5>2, <6>2
        <5> QED BY <5>1, <5>2
      <4> QED BY <4>1, <4>5
    <3> HIDE DEF S
    <3>3. Nat \subseteq S
      BY <3>1, <3>2, Numbers
    <3> QED BY <1>1, <3>3 DEF S
  <2>5. ASSUME NEW i \in 1 .. Len(ss) PROVE g[i] = ThenAll(g[i - 1], ss[i])
    <3>1. f[i] = IF i = 1 THEN ss[i] ELSE f[i - 1] \o ss[i]
      BY <2>1 DEF Flat
    <3>2. CASE i = 1
      BY <2>3, <3>1, <3>2
    <3>3. CASE i # 1
      <4>1. PICK j : j = i - 1
        OBVIOUS
      <4>2. j \in 1 .. Len(ss)
        BY <1>1, <3>3, <4>1
      <4>3. ThenAll(p, f[j] \o ss[i]) = ThenAll(ThenAll(p, f[j]), ss[i])
        BY <2>4, <4>2, ThenJoined
      <4>4. g[i] = ThenAll(p, f[i]) /\ g[j] = ThenAll(p, f[j]) /\ f[i] = f[j] \o ss[i]
        BY <2>3, <3>1, <3>3, <4>1, <4>2
      <4> QED BY <4>1, <4>3, <4>4, Zenon
    <3> QED BY <3>2, <3>3
  <2>6. g[Len(ss)] = ThenAll(p, FlattenSeq(ss))
    BY <1>1, <1>3, <2>1, <2>3
  <2>7. Stages(g, p, ss)
    BY <2>3, <2>5, <2>6 DEF Stages
  <2> QED BY <2>7
<1> QED BY <1>2, <1>3

-----------------------------------------------------------------------------
(* What Then does, by the class of the line. *)
LEMMA ThenDomains ==
  ASSUME NEW p, NEW l
  PROVE  /\ l.class = "domain" => DomainsThen(p, l) = Append(p.domains, NewDomain(l, p.desc))
         /\ l.class = "depends" => DomainsThen(p, l) = AddDependency(p.domains, p.domain[1], l.name)
         /\ l.class \in Items =>
              DomainsThen(p, l) = AddItem(p.domains, p.domain[1], ListOf[l.class], NewIn(p, l, TypeOf(l)))
         /\ l.class = "member" =>
              DomainsThen(p, l) =
                WithItem(p, p.subitems, WithMember(ItemAtPointer(p, p.subitems), p.subitems[4],
                                                   NewIn(p, l, Assigned(l.typ, l.array))))
         /\ l.class \in Sections =>
              DomainsThen(p, l) = WithItem(p, p.item, WithSection(ItemAtPointer(p, p.item), l.class))
         /\ l.class = "enum" => DomainsThen(p, l) = WithItem(p, p.item, WithoutEnum(ItemAtPointer(p, p.item)))
         /\ l.class = "redirect" =>
              DomainsThen(p, l) =
                WithItem(p, p.item, WithRedirect(ItemAtPointer(p, p.item), <<l.name, NamedInstead(p.desc)>>))
         /\ l.class = "literal" /\ p.literals # Detached =>
              DomainsThen(p, l) =
                WithItem(p, p.literals, WithLiteral(ItemAtPointer(p, p.literals), p.literals, l.value))
         /\ l.class = "literal" /\ p.literals = Detached => DomainsThen(p, l) = p.domains
         /\ l.class \in {"comment", "blank"} \cup VersionLines => DomainsThen(p, l) = p.domains
<1> USE DEF DomainsThen, Items, Sections, VersionLines
<1>1. l.class = "domain" => DomainsThen(p, l) = Append(p.domains, NewDomain(l, p.desc))
  OBVIOUS
<1>2. l.class = "depends" => DomainsThen(p, l) = AddDependency(p.domains, p.domain[1], l.name)
  OBVIOUS
<1>3. l.class \in Items =>
        DomainsThen(p, l) = AddItem(p.domains, p.domain[1], ListOf[l.class], NewIn(p, l, TypeOf(l)))
  OBVIOUS
<1>4. l.class = "member" =>
        DomainsThen(p, l) =
          WithItem(p, p.subitems, WithMember(ItemAtPointer(p, p.subitems), p.subitems[4],
                                             NewIn(p, l, Assigned(l.typ, l.array))))
  OBVIOUS
<1>5. l.class \in Sections =>
        DomainsThen(p, l) = WithItem(p, p.item, WithSection(ItemAtPointer(p, p.item), l.class))
  OBVIOUS
<1>6. l.class = "enum" => DomainsThen(p, l) = WithItem(p, p.item, WithoutEnum(ItemAtPointer(p, p.item)))
  OBVIOUS
<1>7. l.class = "redirect" =>
        DomainsThen(p, l) =
          WithItem(p, p.item, WithRedirect(ItemAtPointer(p, p.item), <<l.name, NamedInstead(p.desc)>>))
  OBVIOUS
<1>8. l.class = "literal" /\ p.literals # Detached =>
        DomainsThen(p, l) =
          WithItem(p, p.literals, WithLiteral(ItemAtPointer(p, p.literals), p.literals, l.value))
  OBVIOUS
<1>10. l.class = "literal" /\ p.literals = Detached => DomainsThen(p, l) = p.domains
  OBVIOUS
<1>9. l.class \in {"comment", "blank"} \cup VersionLines => DomainsThen(p, l) = p.domains
  OBVIOUS
<1> QED BY <1>1, <1>2, <1>3, <1>4, <1>5, <1>6, <1>7, <1>8, <1>9, <1>10

LEMMA StateIs ==
  /\ State.head = copyright /\ State.copyright = doc.copyright /\ State.version = doc.version
  /\ State.domains = doc.domains /\ State.domain = domain /\ State.item = item
  /\ State.subitems = subitems /\ State.literals = enumliterals /\ State.desc = Desc
  BY DEF State

(* A line that is no comment makes the state what Then says, if it does so *)
(* for the version, the domains and the pointers.                          *)
LEMMA ThenAfter ==
  ASSUME ParserShape, NEW l, NotAComment, l.class # "comment", NEW p, p = State,
         doc'.copyright = Doc.copyright, doc'.version = VersionThen(p, l), doc'.domains = DomainsThen(p, l),
         domain' = (IF l.class = "domain" THEN <<Len(p.domains) + 1>> ELSE p.domain),
         item' = (IF l.class \in Items
                  THEN <<p.domain[1], ListOf[l.class], Len(p.domains[p.domain[1]][ListOf[l.class]]) + 1>>
                  ELSE p.item),
         subitems' = (IF l.class \in Sections THEN <<p.item[1], p.item[2], p.item[3], l.class>> ELSE p.subitems),
         enumliterals' = LiteralsThen(p, l)
  PROVE  State' = Then(p, l)
<1>1. Desc' = <<>> /\ copyright' = TRUE
  BY DEF Desc, NotAComment
<1>2. DescThen(p, l) = <<>>
  BY DEF DescThen
<1>3. Doc.copyright = IF p.head THEN p.copyright ELSE p.desc
  BY StateIs DEF ParserShape, DocShape, IsDoc, Doc
<1>4. (IF p.head \/ l.class = "comment" THEN p.copyright ELSE p.desc) = (IF p.head THEN p.copyright ELSE p.desc)
  OBVIOUS
<1>5. (IF l.class = "comment" THEN p.head ELSE TRUE) = TRUE
  OBVIOUS
<1>6. State' = [head |-> copyright', copyright |-> doc'.copyright, version |-> doc'.version,
                domains |-> doc'.domains, domain |-> domain', item |-> item', subitems |-> subitems',
                literals |-> enumliterals', desc |-> Desc']
  BY DEF State
<1> QED BY <1>1, <1>2, <1>3, <1>4, <1>5, <1>6, Zenon DEF Then

LEMMA ThenComment ==
  ASSUME ParserShape, NEW l, ReadComment(l)
  PROVE  State' = Then(State, l)
<1>1. PICK p : p = State
  OBVIOUS
<1>2. /\ p.head = copyright /\ p.copyright = doc.copyright /\ p.version = doc.version
      /\ p.domains = doc.domains /\ p.domain = domain /\ p.item = item
      /\ p.subitems = subitems /\ p.literals = enumliterals /\ p.desc = Desc
  BY <1>1, StateIs
<1>3. l.class = "comment" /\ UNCHANGED <<doc, domain, item, subitems, enumliterals, copyright>>
  BY Zenon DEF ReadComment
<1>4. Desc' = DescThen(p, l)
  BY <1>2, Zenon DEF ReadComment, Desc, DescThen
<1>5. VersionThen(p, l) = doc.version
  BY <1>2, <1>3 DEF VersionThen
<1>6. DomainsThen(p, l) = doc.domains
  BY <1>2, <1>3, ThenDomains
<1>7. LiteralsThen(p, l) = enumliterals
  BY <1>2, <1>3 DEF LiteralsThen, Sections
<1>8. Then(p, l) = [head |-> copyright, copyright |-> doc.copyright, version |-> doc.version,
                    domains |-> doc.domains, domain |-> domain, item |-> item, subitems |-> subitems,
                    literals |-> enumliterals, desc |-> DescThen(p, l)]
  BY <1>2, <1>3, <1>5, <1>6, <1>7 DEF Then, Items, Sections
<1> QED BY <1>1, <1>3, <1>4, <1>8 DEF State

(* The version is left alone by all but its lines. *)
LEMMA ThenVersion ==
  ASSUME NEW p, NEW l, l.class \notin VersionLines
  PROVE  VersionThen(p, l) = p.version
  BY DEF VersionThen, VersionLines

LEMMA ThenLiterals ==
  ASSUME NEW p, NEW l, l.class \notin {"enum", "member"} \cup Sections
  PROVE  LiteralsThen(p, l) = p.literals
  BY DEF LiteralsThen

(* The parser does what Then says.                                         *)
LEMMA ThenIsRead ==
  ASSUME ParserShape, NEW l, ReadLine(l), outcome' = "reading"
  PROVE  State' = Then(State, l)
<1>1. PICK p : p = State
  OBVIOUS
<1>2. /\ p.head = copyright /\ p.copyright = doc.copyright /\ p.version = doc.version
      /\ p.domains = doc.domains /\ p.domain = domain /\ p.item = item
      /\ p.subitems = subitems /\ p.literals = enumliterals /\ p.desc = Desc
  BY <1>1, StateIs
<1>3. /\ Doc.domains = doc.domains /\ Doc.version = doc.version
      /\ \A es : /\ DocWith(es).copyright = Doc.copyright /\ DocWith(es).version = doc.version
                 /\ DocWith(es).domains = es
      /\ \A v : /\ [Doc EXCEPT !.version = v].copyright = Doc.copyright
                /\ [Doc EXCEPT !.version = v].version = v /\ [Doc EXCEPT !.version = v].domains = doc.domains
  BY DocParts
<1>4. CASE ReadBlank(l)
  <2>1. l.class = "blank" /\ NotAComment /\ doc' = Doc /\ UNCHANGED <<domain, item, subitems, enumliterals>>
    BY <1>4 DEF ReadBlank
  <2>2. DomainsThen(p, l) = p.domains /\ VersionThen(p, l) = p.version /\ LiteralsThen(p, l) = p.literals
    BY <2>1, ThenDomains, ThenVersion, ThenLiterals DEF VersionLines, Sections
  <2> QED BY <1>1, <1>2, <1>3, <2>1, <2>2, ThenAfter DEF Items, Sections
<1>5. CASE ReadDomain(l)
  <2>1. l.class = "domain" /\ NotAComment /\ UNCHANGED <<item, subitems, enumliterals>>
        /\ domain' = <<Len(doc.domains) + 1>>
    BY <1>5 DEF ReadDomain
  <2>2. doc' = DocWith(Append(doc.domains, NewDomain(l, Desc)))
    BY <1>3, <1>5 DEF ReadDomain, DocWith
  <2>3. DomainsThen(p, l) = Append(doc.domains, NewDomain(l, Desc))
    BY <1>2, <2>1, ThenDomains
  <2>4. VersionThen(p, l) = p.version /\ LiteralsThen(p, l) = p.literals
    BY <2>1, ThenVersion, ThenLiterals DEF VersionLines, Sections
  <2> QED BY <1>1, <1>2, <1>3, <2>1, <2>2, <2>3, <2>4, ThenAfter DEF Items, Sections
<1>6. CASE ReadDepends(l)
  <2>1. l.class = "depends" /\ NotAComment /\ UNCHANGED <<domain, item, subitems, enumliterals>>
    BY <1>6 DEF ReadDepends
  <2>2. doc' = DocWith(AddDependency(doc.domains, domain[1], l.name))
    BY <1>3, <1>6 DEF ReadDepends, DocWith, AddDependency
  <2>3. DomainsThen(p, l) = AddDependency(doc.domains, domain[1], l.name)
    BY <1>2, <2>1, ThenDomains
  <2>4. VersionThen(p, l) = p.version /\ LiteralsThen(p, l) = p.literals
    BY <2>1, ThenVersion, ThenLiterals DEF VersionLines, Sections
  <2> QED BY <1>1, <1>2, <1>3, <2>1, <2>2, <2>3, <2>4, ThenAfter DEF Items, Sections
<1>7. CASE ReadItem(l)
  <2>1. l.class \in Items /\ NotAComment /\ UNCHANGED <<domain, subitems, enumliterals>>
        /\ item' = <<domain[1], ListOf[l.class], Len(doc.domains[domain[1]][ListOf[l.class]]) + 1>>
    BY <1>7 DEF ReadItem
  <2>2. PICK x : x = NewIn(p, l, TypeOf(l))
    OBVIOUS
  <2>3. x = NewType(doc.domains[domain[1]].name, l, IF l.class = "type" THEN Assigned(l.typ, l.array) ELSE Untyped, Desc)
    BY <1>2, <2>2 DEF NewIn, TypeOf
  <2>4. doc' = DocWith(AddItem(doc.domains, domain[1], ListOf[l.class], x))
    BY <1>3, <1>7, <2>3 DEF ReadItem, DocWith, AddItem
  <2>5. DomainsThen(p, l) = AddItem(doc.domains, domain[1], ListOf[l.class], x)
    BY <1>2, <2>1, <2>2, ThenDomains
  <2>6. l.class \notin VersionLines /\ l.class \notin {"enum", "member", "comment", "domain"} /\ l.class \notin Sections
    BY <2>1 DEF Items, VersionLines, Sections
  <2>7. VersionThen(p, l) = p.version /\ LiteralsThen(p, l) = p.literals
    BY <2>6, ThenVersion, ThenLiterals
  <2> QED BY <1>1, <1>2, <1>3, <2>1, <2>4, <2>5, <2>6, <2>7, ThenAfter
<1>8. CASE ReadMember(l)
  <2>1. l.class = "member" /\ NotAComment /\ UNCHANGED <<domain, item, subitems>>
    BY <1>8, Zenon DEF ReadMember
  <2>2. PICK e, t, m, x : /\ e = subitems /\ t = doc.domains[e[1]][e[2]][e[3]]
                       /\ m = NewType(doc.domains[domain[1]].name, l, Assigned(l.typ, l.array), Desc)
                       /\ x = WithMember(t, e[4], m)
    OBVIOUS
  <2>3. doc' = DocWith(PutItem(doc.domains, e[1], e[2], e[3], x))
    <3>1. doc' = [Doc EXCEPT !.domains = PutItem(Doc.domains, e[1], e[2], e[3], x)]
      BY <1>3, <1>8, <2>2, Zenon DEF ReadMember, PutItem, WithMember
    <3> QED BY <1>3, <3>1 DEF DocWith
  <2>4. DomainsThen(p, l) = PutItem(doc.domains, e[1], e[2], e[3], x)
    <3>1. ItemAtPointer(p, e) = t /\ WithItem(p, e, x) = PutItem(doc.domains, e[1], e[2], e[3], x)
      BY <1>2, <2>2, Zenon DEF WithItem, ItemAtPointer
    <3>2. DomainsThen(p, l) = WithItem(p, p.subitems, WithMember(ItemAtPointer(p, p.subitems), p.subitems[4], NewIn(p, l, Assigned(l.typ, l.array))))
      BY <2>1, ThenDomains, Zenon
    <3> QED BY <1>2, <2>2, <3>1, <3>2, Zenon DEF NewIn
  <2>5. enumliterals' = LiteralsThen(p, l)
    <3>1. LiteralsThen(p, l) = IF l.typ = "enum"
            THEN <<p.subitems[1], p.subitems[2], p.subitems[3], p.subitems[4],
                   Len(ItemAtPointer(p, p.subitems)[p.subitems[4]]) + 1>>
            ELSE p.literals
      BY <2>1 DEF LiteralsThen, Sections
    <3> QED BY <1>2, <1>8, <3>1, Zenon DEF ReadMember, ItemAtPointer
  <2>6. VersionThen(p, l) = p.version
    BY <2>1, ThenVersion DEF VersionLines
  <2> QED BY <1>1, <1>2, <1>3, <2>1, <2>3, <2>4, <2>5, <2>6, ThenAfter DEF Items, Sections
<1>9. CASE ReadSection(l)
  <2>1. l.class \in Sections /\ NotAComment /\ UNCHANGED <<domain, item>>
        /\ subitems' = <<item[1], item[2], item[3], l.class>>
        /\ enumliterals' = IF MemberIn(enumliterals, subitems') THEN Detached ELSE enumliterals
    BY <1>9 DEF ReadSection
  <2>2. PICK e, t, x : e = item /\ t = doc.domains[e[1]][e[2]][e[3]] /\ x = WithSection(t, l.class)
    OBVIOUS
  <2>3. doc' = DocWith(PutItem(doc.domains, e[1], e[2], e[3], x))
    <3>1. doc' = [Doc EXCEPT !.domains = PutItem(Doc.domains, e[1], e[2], e[3], x)]
      BY <1>3, <1>9, <2>2, Zenon DEF ReadSection, PutItem, WithSection
    <3> QED BY <1>3, <3>1 DEF DocWith
  <2>4. DomainsThen(p, l) = PutItem(doc.domains, e[1], e[2], e[3], x)
    <3>1. ItemAtPointer(p, e) = t /\ WithItem(p, e, x) = PutItem(doc.domains, e[1], e[2], e[3], x)
      BY <1>2, <2>2, Zenon DEF WithItem, ItemAtPointer
    <3>2. DomainsThen(p, l) = WithItem(p, p.item, WithSection(ItemAtPointer(p, p.item), l.class))
      BY <2>1, ThenDomains, Zenon
    <3> QED BY <1>2, <2>2, <3>1, <3>2, Zenon
  <2>5. l.class \notin VersionLines /\ l.class \notin {"enum", "member", "comment", "domain"} /\ l.class \notin Items
    BY <2>1 DEF Items, VersionLines, Sections
  <2>6. VersionThen(p, l) = p.version
    BY <2>5, ThenVersion
  <2>7. LiteralsThen(p, l) = enumliterals'
    BY <1>2, <2>1, <2>5 DEF LiteralsThen
  <2> QED BY <1>1, <1>2, <1>3, <2>1, <2>3, <2>4, <2>5, <2>6, <2>7, ThenAfter
<1>10. CASE ReadEnum(l)
  <2>1. l.class = "enum" /\ NotAComment /\ UNCHANGED <<domain, item, subitems>> /\ enumliterals' = item
    BY <1>10 DEF ReadEnum
  <2>2. PICK e, t, x : e = item /\ t = doc.domains[e[1]][e[2]][e[3]] /\ x = WithoutEnum(t)
    OBVIOUS
  <2>3. doc' = DocWith(PutItem(doc.domains, e[1], e[2], e[3], x))
    <3>1. doc' = [Doc EXCEPT !.domains = PutItem(Doc.domains, e[1], e[2], e[3], x)]
      BY <1>3, <1>10, <2>2, Zenon DEF ReadEnum, PutItem, WithoutEnum
    <3> QED BY <1>3, <3>1 DEF DocWith
  <2>4. DomainsThen(p, l) = PutItem(doc.domains, e[1], e[2], e[3], x)
    <3>1. ItemAtPointer(p, e) = t /\ WithItem(p, e, x) = PutItem(doc.domains, e[1], e[2], e[3], x)
      BY <1>2, <2>2, Zenon DEF WithItem, ItemAtPointer
    <3>2. DomainsThen(p, l) = WithItem(p, p.item, WithoutEnum(ItemAtPointer(p, p.item)))
      BY <2>1, ThenDomains, Zenon
    <3> QED BY <1>2, <2>2, <3>1, <3>2, Zenon
  <2>5. LiteralsThen(p, l) = p.item /\ VersionThen(p, l) = p.version
    BY <2>1, ThenVersion DEF LiteralsThen, VersionLines
  <2> QED BY <1>1, <1>2, <1>3, <2>1, <2>3, <2>4, <2>5, ThenAfter DEF Items, Sections
<1>11. CASE ReadRedirect(l)
  <2>1. l.class = "redirect" /\ NotAComment /\ UNCHANGED <<domain, item, subitems, enumliterals>>
    BY <1>11 DEF ReadRedirect
  <2>2. PICK e, t, x : /\ e = item /\ t = doc.domains[e[1]][e[2]][e[3]]
                       /\ x = WithRedirect(t, <<l.name, NamedInstead(Desc)>>)
    OBVIOUS
  <2>3. doc' = DocWith(PutItem(doc.domains, e[1], e[2], e[3], x))
    <3>1. doc' = [Doc EXCEPT !.domains = PutItem(Doc.domains, e[1], e[2], e[3], x)]
      BY <1>3, <1>11, <2>2, Zenon DEF ReadRedirect, PutItem, WithRedirect
    <3> QED BY <1>3, <3>1 DEF DocWith
  <2>4. DomainsThen(p, l) = PutItem(doc.domains, e[1], e[2], e[3], x)
    <3>1. ItemAtPointer(p, e) = t /\ WithItem(p, e, x) = PutItem(doc.domains, e[1], e[2], e[3], x)
      BY <1>2, <2>2, Zenon DEF WithItem, ItemAtPointer
    <3>2. DomainsThen(p, l) = WithItem(p, p.item, WithRedirect(ItemAtPointer(p, p.item), <<l.name, NamedInstead(p.desc)>>))
      BY <2>1, ThenDomains, Zenon
    <3> QED BY <1>2, <2>2, <3>1, <3>2, Zenon
  <2>5. LiteralsThen(p, l) = p.literals /\ VersionThen(p, l) = p.version
    BY <2>1, ThenVersion, ThenLiterals DEF VersionLines, Sections
  <2> QED BY <1>1, <1>2, <1>3, <2>1, <2>3, <2>4, <2>5, ThenAfter DEF Items, Sections
<1>12. CASE ReadLiteral(l) /\ enumliterals # Detached
  <2>1. l.class = "literal" /\ NotAComment /\ UNCHANGED <<domain, item, subitems, enumliterals>>
    BY <1>12, Zenon DEF ReadLiteral
  <2>2. PICK e, t, x : e = enumliterals /\ t = doc.domains[e[1]][e[2]][e[3]] /\ x = WithLiteral(t, e, l.value)
    OBVIOUS
  <2>3. doc' = DocWith(PutItem(doc.domains, e[1], e[2], e[3], x))
    <3>1. doc' = [Doc EXCEPT !.domains = PutItem(Doc.domains, e[1], e[2], e[3], x)]
      <4>1. CASE Len(e) = 3
        BY <1>3, <1>12, <2>2, <4>1 DEF ReadLiteral, PutItem, WithLiteral
      <4>2. CASE Len(e) # 3
        BY <1>3, <1>12, <2>2, <4>2 DEF ReadLiteral, PutItem, WithLiteral
      <4> QED BY <4>1, <4>2
    <3> QED BY <1>3, <3>1 DEF DocWith
  <2>4. DomainsThen(p, l) = PutItem(doc.domains, e[1], e[2], e[3], x)
    <3>1. ItemAtPointer(p, e) = t /\ WithItem(p, e, x) = PutItem(doc.domains, e[1], e[2], e[3], x)
      BY <1>2, <2>2 DEF WithItem, ItemAtPointer
    <3>2. DomainsThen(p, l) = WithItem(p, p.literals, WithLiteral(ItemAtPointer(p, p.literals), p.literals, l.value))
      BY <1>2, <1>12, <2>1, ThenDomains
    <3> QED BY <1>2, <2>2, <3>1, <3>2, Zenon
  <2>5. LiteralsThen(p, l) = p.literals /\ VersionThen(p, l) = p.version
    BY <2>1, ThenVersion, ThenLiterals DEF VersionLines, Sections
  <2> QED BY <1>1, <1>2, <1>3, <2>1, <2>3, <2>4, <2>5, ThenAfter DEF Items, Sections
<1>16. CASE ReadLiteral(l) /\ enumliterals = Detached
  <2>1. l.class = "literal" /\ NotAComment /\ doc' = Doc /\ UNCHANGED <<domain, item, subitems, enumliterals>>
    BY <1>16 DEF ReadLiteral
  <2>2. DomainsThen(p, l) = p.domains
    BY <1>2, <1>16, <2>1, ThenDomains
  <2>3. LiteralsThen(p, l) = p.literals /\ VersionThen(p, l) = p.version
    BY <2>1, ThenVersion, ThenLiterals DEF VersionLines, Sections
  <2> QED BY <1>1, <1>2, <1>3, <2>1, <2>2, <2>3, ThenAfter DEF Items, Sections
<1>13. CASE ReadVersion(l)
  <2>1. l.class = "version" /\ NotAComment /\ UNCHANGED <<domain, item, subitems, enumliterals>>
        /\ doc' = [Doc EXCEPT !.version = <<0, 0>>]
    BY <1>13 DEF ReadVersion
  <2>2. DomainsThen(p, l) = p.domains /\ VersionThen(p, l) = <<0, 0>> /\ LiteralsThen(p, l) = p.literals
    BY <2>1, ThenDomains, ThenLiterals DEF VersionLines, VersionThen, Sections
  <2> QED BY <1>1, <1>2, <1>3, <2>1, <2>2, ThenAfter DEF Items, Sections
<1>14. CASE ReadMajorMinor(l)
  <2>1. l.class \in {"major", "minor"} /\ NotAComment /\ UNCHANGED <<domain, item, subitems, enumliterals>>
    BY <1>14 DEF ReadMajorMinor
  <2>2. PICK v : v = VersionThen(p, l)
    OBVIOUS
  <2>3. doc' = [Doc EXCEPT !.version = v]
    BY <1>2, <1>3, <1>14, <2>1, <2>2 DEF ReadMajorMinor, VersionThen
  <2>4. DomainsThen(p, l) = p.domains /\ LiteralsThen(p, l) = p.literals
    BY <2>1, ThenDomains, ThenLiterals DEF VersionLines, Sections
  <2> QED BY <1>1, <1>2, <1>3, <2>1, <2>2, <2>3, <2>4, ThenAfter DEF Items, Sections
<1>15. CASE ReadUnknown(l) \/ ReadNil(l)
  BY <1>15 DEF ReadUnknown, ReadNil
<1> QED BY <1>1, <1>4, <1>5, <1>6, <1>7, <1>8, <1>9, <1>10, <1>11, <1>12, <1>13, <1>14, <1>15, <1>16, ThenComment DEF ReadLine

-----------------------------------------------------------------------------
LEMMA SameSeq ==
  ASSUME NEW s, NEW t, IsSeq(s), IsSeq(t), Len(s) = Len(t), \A i \in 1 .. Len(s) : s[i] = t[i]
  PROVE  s = t
<1>1. PICK n : n = Len(s)
  OBVIOUS
<1>2. s = [i \in 1 .. n |-> s[i]] /\ t = [i \in 1 .. n |-> t[i]]
  <2>1. s = [i \in 1 .. Len(s) |-> s[i]] /\ t = [i \in 1 .. Len(t) |-> t[i]]
    BY SeqFacts
  <2> QED BY <1>1, <2>1
<1> QED BY <1>1, <1>2

(* The last element is replaced. *)
LEMMA LastReplaced ==
  ASSUME NEW s, IsSeq(s), NEW x, NEW y, NEW n, n = Len(s) + 1
  PROVE  Append(s, x)[n] = x /\ Put(Append(s, x), n, y) = Append(s, y)
<1>1. PICK t, u, v : t = Append(s, x) /\ u = Append(s, y) /\ v = Put(t, n, y)
  OBVIOUS
<1>2. /\ IsSeq(t) /\ Len(t) = n /\ t[n] = x /\ \A i \in 1 .. Len(s) : t[i] = s[i]
      /\ IsSeq(u) /\ Len(u) = n /\ u[n] = y /\ \A i \in 1 .. Len(s) : u[i] = s[i]
  BY <1>1, Appended
<1>3. IsSeq(v) /\ Len(v) = n /\ \A i \in 1 .. n : v[i] = IF i = n THEN y ELSE t[i]
  <2>1. IsSeq(v) /\ Len(v) = Len(t) /\ \A i \in 1 .. Len(t) : v[i] = IF i = n THEN y ELSE t[i]
    <3>1. IsSeq(Put(t, n, y)) /\ Len(Put(t, n, y)) = Len(t)
          /\ \A i \in 1 .. Len(t) : Put(t, n, y)[i] = IF i = n THEN y ELSE t[i]
      BY <1>2, OnePlace
    <3> QED BY <1>1, <3>1, Zenon
  <2> QED BY <1>2, <2>1
<1>4. Len(s) \in Nat
  BY SeqFacts
<1>5. ASSUME NEW i \in 1 .. Len(v) PROVE v[i] = u[i]
  <2>1. i \in 1 .. n /\ (i = n \/ i \in 1 .. Len(s))
    BY <1>3, <1>4
  <2>2. i \in 1 .. Len(s) => i # n
    BY <1>4
  <2> QED BY <1>2, <1>3, <2>1, <2>2
<1>6. v = u
  BY <1>2, <1>3, <1>5, SameSeq
<1> QED BY <1>1, <1>2, <1>6

-----------------------------------------------------------------------------
(* Where a line is read: below an item at the end of a list at the end of  *)
(* the document.  The place k is the domains before, the domain, the list  *)
(* and the items before.                                                   *)
Place(k) ==
  /\ IsSeq(k.ds) /\ IsSeq(k.ts) /\ k.list \in ItemLists /\ k.list \in DOMAIN k.d

DomainAt(k, x) == [k.d EXCEPT ![k.list] = Append(k.ts, x)]

OnItem(p, k, x) ==
  /\ p.domains = Append(k.ds, DomainAt(k, x))
  /\ p.domain = <<Len(k.ds) + 1>>
  /\ p.item = <<Len(k.ds) + 1, k.list, Len(k.ts) + 1>>

OnSection(p, k, x, f) ==
  OnItem(p, k, x) /\ p.subitems = <<Len(k.ds) + 1, k.list, Len(k.ts) + 1, f>>

LeadsTo(e, k) == e[1] = Len(k.ds) + 1 /\ e[2] = k.list /\ e[3] = Len(k.ts) + 1

LEMMA NotDetached ==
  ASSUME NEW k, Place(k), NEW e, LeadsTo(e, k)
  PROVE  e # Detached
<1>1. Len(k.ds) \in Nat
  BY SeqFacts DEF Place
<1>2. Len(k.ds) + 1 # 0
  BY <1>1
<1> QED BY <1>2 DEF LeadsTo, Detached

LEMMA ItemThereIs ==
  ASSUME NEW k, Place(k), NEW x, NEW p, p.domains = Append(k.ds, DomainAt(k, x)), NEW e, LeadsTo(e, k),
         NEW y
  PROVE  ItemAtPointer(p, e) = x /\ WithItem(p, e, y) = Append(k.ds, DomainAt(k, y))
<1>1. PICK a, b, c, es, ts, d : a = Len(k.ds) + 1 /\ b = k.list /\ c = Len(k.ts) + 1 /\ es = p.domains
                             /\ ts = Append(k.ts, x) /\ d = DomainAt(k, x)
  OBVIOUS
<1>2. e[1] = a /\ e[2] = b /\ e[3] = c
  BY <1>1 DEF LeadsTo
<1>3. es[a] = d /\ \A z : Put(es, a, z) = Append(k.ds, z)
  BY <1>1, LastReplaced DEF Place
<1>4. d[b] = ts /\ \A us : [d EXCEPT ![b] = us] = [k.d EXCEPT ![b] = us]
  BY <1>1 DEF DomainAt, Place
<1>5. ts[c] = x /\ Put(ts, c, y) = Append(k.ts, y)
  BY <1>1, LastReplaced DEF Place
<1>6. ItemAtPointer(p, e) = x
  BY <1>1, <1>2, <1>3, <1>4, <1>5, Zenon DEF ItemAtPointer
<1>7. WithItem(p, e, y) = Append(k.ds, DomainAt(k, y))
  <2>1. WithItem(p, e, y) = [es EXCEPT ![a][b][c] = y]
    BY <1>1, <1>2, Zenon DEF WithItem, PutItem
  <2>2. [es EXCEPT ![a][b][c] = y] = Put(es, a, [es[a] EXCEPT ![b] = Put(es[a][b], c, y)])
    BY Zenon DEF Put
  <2>3. [es[a] EXCEPT ![b] = Put(es[a][b], c, y)] = [d EXCEPT ![b] = Append(k.ts, y)]
    BY <1>3, <1>4, <1>5, Zenon
  <2>4. [d EXCEPT ![b] = Append(k.ts, y)] = DomainAt(k, y)
    BY <1>1, <1>4, Zenon DEF DomainAt
  <2> QED BY <1>3, <2>1, <2>2, <2>3, <2>4, Zenon
<1> QED BY <1>6, <1>7

(* The fields of Then, by the class of the line. *)
Same(p, q) == q.domain = p.domain /\ q.item = p.item /\ q.desc = <<>>

LEMMA ThenField ==
  ASSUME NEW p, NEW l
  PROVE  /\ Then(p, l).domains = DomainsThen(p, l) /\ Then(p, l).literals = LiteralsThen(p, l)
         /\ Then(p, l).version = VersionThen(p, l) /\ Then(p, l).desc = DescThen(p, l)
         /\ Then(p, l).head = (IF l.class = "comment" THEN p.head ELSE TRUE)
         /\ Then(p, l).copyright = (IF p.head \/ l.class = "comment" THEN p.copyright ELSE p.desc)
         /\ Then(p, l).domain = (IF l.class = "domain" THEN <<Len(p.domains) + 1>> ELSE p.domain)
         /\ Then(p, l).item = (IF l.class \in Items
                THEN <<p.domain[1], ListOf[l.class], Len(p.domains[p.domain[1]][ListOf[l.class]]) + 1>>
                ELSE p.item)
         /\ Then(p, l).subitems = (IF l.class \in Sections THEN <<p.item[1], p.item[2], p.item[3], l.class>>
                                   ELSE p.subitems)
  BY DEF Then

LEMMA ThenDomainsField == ASSUME NEW p, NEW l PROVE Then(p, l).domains = DomainsThen(p, l)
  BY DEF Then

LEMMA ThenLiteralsField == ASSUME NEW p, NEW l PROVE Then(p, l).literals = LiteralsThen(p, l)
  BY DEF Then

LEMMA ThenSubitems ==
  ASSUME NEW p, NEW l
  PROVE  Then(p, l).subitems = (IF l.class \in Sections THEN <<p.item[1], p.item[2], p.item[3], l.class>>
                                ELSE p.subitems)
  BY ThenField

(* Most lines leave the pointers to the domain and to the item alone.      *)
LEMMA ThenSame ==
  ASSUME NEW p, NEW l, l.class \notin Items \cup {"domain", "comment"}
  PROVE  Same(p, Then(p, l)) /\ Then(p, l).head = TRUE
<1>1. PICK q : q = Then(p, l)
  OBVIOUS
<1>2. q.desc = <<>>
  <2>1. DescThen(p, l) = <<>>
    BY DEF DescThen
  <2>2. Then(p, l).desc = DescThen(p, l)
    BY ThenField, Zenon
  <2> QED BY <1>1, <2>1, <2>2, Zenon
<1>3. q.domain = p.domain /\ q.item = p.item /\ q.head = TRUE
  <2>1. l.class \notin Items /\ l.class # "domain" /\ l.class # "comment"
    OBVIOUS
  <2>2. /\ q.head = (IF l.class = "comment" THEN p.head ELSE TRUE)
        /\ q.domain = (IF l.class = "domain" THEN <<Len(p.domains) + 1>> ELSE p.domain)
        /\ q.item = (IF l.class \in Items
             THEN <<p.domain[1], ListOf[l.class], Len(p.domains[p.domain[1]][ListOf[l.class]]) + 1>>
             ELSE p.item)
    BY <1>1, ThenField, Zenon
  <2> QED BY <2>1, <2>2
<1> QED BY <1>1, <1>2, <1>3 DEF Same

(* Pointers that lead to an item. *)
LEMMA PointerOfItem ==
  ASSUME NEW k, NEW f, NEW n
  PROVE  /\ LeadsTo(<<Len(k.ds) + 1, k.list, Len(k.ts) + 1>>, k)
         /\ LeadsTo(<<Len(k.ds) + 1, k.list, Len(k.ts) + 1, f>>, k)
         /\ LeadsTo(<<Len(k.ds) + 1, k.list, Len(k.ts) + 1, f, n>>, k)
  BY DEF LeadsTo

(* A line that changes the item makes the domains those with the new item. *)
LEMMA ItemBecomes ==
  ASSUME NEW k, Place(k), NEW x, NEW p, OnItem(p, k, x), NEW l, NEW q, q = Then(p, l),
         NEW e, LeadsTo(e, k), NEW y, DomainsThen(p, l) = WithItem(p, e, y), Same(p, q)
  PROVE  OnItem(q, k, y)
<1>1. p.domains = Append(k.ds, DomainAt(k, x)) /\ p.domain = <<Len(k.ds) + 1>>
      /\ p.item = <<Len(k.ds) + 1, k.list, Len(k.ts) + 1>>
  BY DEF OnItem
<1>2. WithItem(p, e, y) = Append(k.ds, DomainAt(k, y))
  BY <1>1, ItemThereIs
<1>3. q.domains = Append(k.ds, DomainAt(k, y))
  <2>1. Then(p, l).domains = DomainsThen(p, l)
    BY ThenDomainsField
  <2> QED BY <1>2, <2>1
<1> QED BY <1>1, <1>3, Zenon DEF OnItem, Same

LEMMA ItemIsThere ==
  ASSUME NEW k, Place(k), NEW x, NEW p, OnItem(p, k, x), NEW e, LeadsTo(e, k)
  PROVE  ItemAtPointer(p, e) = x
<1>1. p.domains = Append(k.ds, DomainAt(k, x))
  BY DEF OnItem
<1> QED BY <1>1, ItemThereIs

-----------------------------------------------------------------------------
(* The lines below an item.                                                *)
WithMembers(t, f, ms) == [t EXCEPT ![f] = ms]
WithEnum(t, e) == [t EXCEPT !.enum = e]

LEMMA SectionThen ==
  ASSUME NEW k, Place(k), NEW x, NEW p, OnItem(p, k, x), NEW l, l.class \in Sections, NEW q, q = Then(p, l)
  PROVE  OnSection(q, k, WithSection(x, l.class), l.class) /\ q.desc = <<>>
<1>1. p.item = <<Len(k.ds) + 1, k.list, Len(k.ts) + 1>>
  BY DEF OnItem
<1>2. LeadsTo(p.item, k)
  BY <1>1, PointerOfItem
<1>3. ItemAtPointer(p, p.item) = x
  BY <1>2, ItemIsThere
<1>4. DomainsThen(p, l) = WithItem(p, p.item, WithSection(x, l.class))
  BY <1>3, ThenDomains, Zenon
<1>5. l.class \notin Items \cup {"domain", "comment"}
  BY DEF Sections, Items
<1>6. Same(p, q)
  BY <1>5, ThenSame
<1>7. OnItem(q, k, WithSection(x, l.class))
  BY <1>2, <1>4, <1>6, ItemBecomes
<1>8. q.subitems = <<p.item[1], p.item[2], p.item[3], l.class>>
  BY ThenField, Zenon
<1>9. q.subitems = <<Len(k.ds) + 1, k.list, Len(k.ts) + 1, l.class>>
  BY <1>2, <1>8 DEF LeadsTo
<1> QED BY <1>6, <1>7, <1>9 DEF OnSection, Same

LEMMA EnumThen ==
  ASSUME NEW k, Place(k), NEW x, NEW p, OnItem(p, k, x), NEW l, l.class = "enum", NEW q, q = Then(p, l)
  PROVE  OnItem(q, k, WithoutEnum(x)) /\ q.desc = <<>> /\ q.literals = q.item
<1>1. p.item = <<Len(k.ds) + 1, k.list, Len(k.ts) + 1>>
  BY DEF OnItem
<1>2. LeadsTo(p.item, k)
  BY <1>1, PointerOfItem
<1>3. ItemAtPointer(p, p.item) = x
  BY <1>2, ItemIsThere
<1>4. DomainsThen(p, l) = WithItem(p, p.item, WithoutEnum(x))
  BY <1>3, ThenDomains, Zenon
<1>5. l.class \notin Items \cup {"domain", "comment"}
  BY DEF Items
<1>6. Same(p, q)
  BY <1>5, ThenSame
<1>7. OnItem(q, k, WithoutEnum(x))
  BY <1>2, <1>4, <1>6, ItemBecomes
<1>8. q.literals = p.item
  BY ThenField, Zenon DEF LiteralsThen
<1> QED BY <1>6, <1>7, <1>8 DEF Same

RedirectPair(l, d) == <<l.name, NamedInstead(d)>>

LEMMA RedirectThen ==
  ASSUME NEW k, Place(k), NEW x, NEW p, OnItem(p, k, x), NEW l, l.class = "redirect", NEW q, q = Then(p, l),
         NEW y, y = WithRedirect(x, RedirectPair(l, p.desc))
  PROVE  OnItem(q, k, y) /\ q.desc = <<>>
<1>1. p.item = <<Len(k.ds) + 1, k.list, Len(k.ts) + 1>>
  BY DEF OnItem
<1>2. LeadsTo(p.item, k)
  BY <1>1, PointerOfItem
<1>3. ItemAtPointer(p, p.item) = x
  BY <1>2, ItemIsThere
<1>4. DomainsThen(p, l) = WithItem(p, p.item, y)
  BY <1>3, ThenDomains, Zenon DEF RedirectPair
<1>5. l.class \notin Items \cup {"domain", "comment"}
  BY DEF Items
<1>6. Same(p, q)
  BY <1>5, ThenSame
<1>7. OnItem(q, k, y)
  BY <1>2, <1>4, <1>6, ItemBecomes
<1> QED BY <1>6, <1>7 DEF Same

(* A literal goes to the item or the member that the pointer leads to.     *)
LEMMA LiteralThen ==
  ASSUME NEW k, Place(k), NEW x, NEW p, OnItem(p, k, x), LeadsTo(p.literals, k),
         NEW l, l.class = "literal", NEW q, q = Then(p, l)
  PROVE  /\ OnItem(q, k, WithLiteral(x, p.literals, l.value)) /\ q.desc = <<>>
         /\ q.subitems = p.subitems /\ q.literals = p.literals
<1>1. ItemAtPointer(p, p.literals) = x
  BY ItemIsThere
<1>2. DomainsThen(p, l) = WithItem(p, p.literals, WithLiteral(x, p.literals, l.value))
  BY <1>1, NotDetached, ThenDomains, Zenon
<1>3. l.class \notin Items \cup {"domain", "comment"} /\ l.class \notin {"enum", "member"} \cup Sections
  BY DEF Items, Sections
<1>4. Same(p, q)
  BY <1>3, ThenSame
<1>5. OnItem(q, k, WithLiteral(x, p.literals, l.value))
  BY <1>2, <1>4, ItemBecomes
<1>6. q.subitems = p.subitems /\ q.literals = p.literals
  <2>1. Then(p, l).literals = LiteralsThen(p, l)
        /\ Then(p, l).subitems = (IF l.class \in Sections THEN <<p.item[1], p.item[2], p.item[3], l.class>>
                                  ELSE p.subitems)
    BY ThenLiteralsField, ThenSubitems, Zenon
  <2>2. LiteralsThen(p, l) = p.literals
    BY <1>3, ThenLiterals
  <2> QED BY <1>3, <2>1, <2>2
<1> QED BY <1>4, <1>5, <1>6 DEF Same

LEMMA MemberThen ==
  ASSUME NEW k, Place(k), NEW x, NEW f \in Sections, NEW p, OnSection(p, k, x, f), NEW l, l.class = "member",
         NEW q, q = Then(p, l), NEW m, m = NewType(k.d.name, l, Assigned(l.typ, l.array), p.desc)
  PROVE  /\ OnSection(q, k, WithMember(x, f, m), f) /\ q.desc = <<>>
         /\ l.typ = "enum" => q.literals = <<Len(k.ds) + 1, k.list, Len(k.ts) + 1, f, Len(x[f]) + 1>>
<1>1. p.subitems = <<Len(k.ds) + 1, k.list, Len(k.ts) + 1, f>> /\ OnItem(p, k, x)
  BY DEF OnSection
<1>2. LeadsTo(p.subitems, k) /\ p.subitems[4] = f
  <2>1. LeadsTo(<<Len(k.ds) + 1, k.list, Len(k.ts) + 1, f>>, k)
    BY PointerOfItem
  <2> QED BY <1>1, <2>1
<1>3. ItemAtPointer(p, p.subitems) = x
  BY <1>1, <1>2, ItemIsThere
<1>4. NewIn(p, l, Assigned(l.typ, l.array)) = m
  <2>1. PICK es, d, a : es = p.domains /\ d = DomainAt(k, x) /\ a = Len(k.ds) + 1
    OBVIOUS
  <2>2. es = Append(k.ds, d) /\ p.domain = <<a>>
    BY <1>1, <2>1 DEF OnItem
  <2>3. es[a] = d
    BY <2>1, <2>2, LastReplaced DEF Place
  <2>4. d.name = k.d.name
    BY <2>1 DEF DomainAt, Place, ItemLists
  <2>5. p.domains[p.domain[1]].name = k.d.name
    BY <2>1, <2>2, <2>3, <2>4
  <2> QED BY <2>5, Zenon DEF NewIn
<1>5. DomainsThen(p, l) = WithItem(p, p.subitems, WithMember(x, f, m))
  BY <1>2, <1>3, <1>4, ThenDomains, Zenon
<1>6. l.class \notin Items \cup {"domain", "comment"} /\ l.class \notin Sections
  BY DEF Items, Sections
<1>7. Same(p, q)
  BY <1>6, ThenSame
<1>8. OnItem(q, k, WithMember(x, f, m))
  BY <1>1, <1>2, <1>5, <1>7, ItemBecomes
<1>9. q.subitems = p.subitems
  <2>1. Then(p, l).subitems = (IF l.class \in Sections THEN <<p.item[1], p.item[2], p.item[3], l.class>>
                              ELSE p.subitems)
    BY ThenField, Zenon
  <2> QED BY <1>6, <2>1
<1>10. ASSUME l.typ = "enum" PROVE q.literals = <<Len(k.ds) + 1, k.list, Len(k.ts) + 1, f, Len(x[f]) + 1>>
  <2>1. q.literals = <<p.subitems[1], p.subitems[2], p.subitems[3], p.subitems[4],
                       Len(ItemAtPointer(p, p.subitems)[p.subitems[4]]) + 1>>
    <3>1. l.class # "enum"
      OBVIOUS
    <3> QED BY <1>10, <3>1, ThenField, Zenon DEF LiteralsThen
  <2>2. p.subitems[1] = Len(k.ds) + 1 /\ p.subitems[2] = k.list /\ p.subitems[3] = Len(k.ts) + 1
    BY <1>2 DEF LeadsTo
  <2> QED BY <1>2, <1>3, <2>1, <2>2, Zenon
<1> QED BY <1>1, <1>7, <1>8, <1>9, <1>10 DEF OnSection, Same

-----------------------------------------------------------------------------
(* The first elements of a sequence. *)
First(s, i) == SubSeq(s, 1, i)

LEMMA FirstSeq ==
  ASSUME NEW s, IsSeq(s), NEW i \in 0 .. Len(s)
  PROVE  IsSeq(First(s, i)) /\ Len(First(s, i)) = i /\ \A j \in 1 .. i : First(s, i)[j] = s[j]
<1>1. s \in Seq(ToSet(s))
  BY DEF IsSeq
<1>2. PICK n \in Nat : n = Len(s)
  BY SeqFacts
<1>3. PICK t : t = First(s, i)
  OBVIOUS
<1>4. t \in Seq(ToSet(s)) /\ Len(t) = i /\ \A j \in 1 .. i : t[j] = s[j]
  BY <1>1, <1>2, <1>3 DEF First
<1>5. IsSeq(t)
  BY <1>4, AnySeq
<1> QED BY <1>3, <1>4, <1>5

LEMMA FirstNone == ASSUME NEW s, IsSeq(s) PROVE First(s, 0) = <<>>
<1>1. 0 \in 0 .. Len(s)
  BY SeqFacts
<1> QED BY <1>1, FirstSeq, SeqFacts

LEMMA FirstAll == ASSUME NEW s, IsSeq(s), NEW n, n = Len(s) PROVE First(s, n) = s
<1>1. PICK t : t = First(s, n)
  OBVIOUS
<1>2. n \in 0 .. Len(s)
  BY SeqFacts
<1>3. IsSeq(t) /\ Len(t) = Len(s) /\ \A i \in 1 .. Len(t) : t[i] = s[i]
  BY <1>1, <1>2, FirstSeq
<1> QED BY <1>1, <1>3, SameSeq

LEMMA FirstMore ==
  ASSUME NEW s, IsSeq(s), NEW i \in 1 .. Len(s), NEW j, j = i - 1
  PROVE  First(s, i) = Append(First(s, j), s[i])
<1>1. Len(s) \in Nat
  BY SeqFacts
<1>2. j \in 0 .. Len(s) /\ i = j + 1 /\ i \in 0 .. Len(s)
  BY <1>1
<1>3. PICK t, u, v : t = First(s, i) /\ u = First(s, j) /\ v = Append(u, s[i])
  OBVIOUS
<1>4. IsSeq(t) /\ Len(t) = i /\ \A a \in 1 .. i : t[a] = s[a]
  BY <1>2, <1>3, FirstSeq
<1>5. IsSeq(u) /\ Len(u) = j /\ \A a \in 1 .. j : u[a] = s[a]
  BY <1>2, <1>3, FirstSeq
<1>6. IsSeq(v) /\ Len(v) = i /\ v[i] = s[i] /\ \A a \in 1 .. j : v[a] = s[a]
  BY <1>2, <1>3, <1>5, Appended
<1>7. \A a \in 1 .. Len(t) : t[a] = v[a]
  BY <1>2, <1>4, <1>6
<1>8. t = v
  BY <1>4, <1>6, <1>7, SameSeq
<1> QED BY <1>3, <1>8

-----------------------------------------------------------------------------
(* Comments add to the description and change nothing else.                *)
Commented(p, q, d) ==
  /\ q.desc = d /\ q.head = p.head /\ q.copyright = p.copyright /\ q.version = p.version
  /\ q.domains = p.domains /\ q.domain = p.domain /\ q.item = p.item
  /\ q.subitems = p.subitems /\ q.literals = p.literals

Text(d) == IsSeq(d) /\ (d # <<>> => d[1] # "")

LEMMA CommentThen ==
  ASSUME NEW p, NEW l, l.class = "comment"
  PROVE  Commented(p, Then(p, l), DescThen(p, l))
<1>1. l.class \notin Items /\ l.class # "domain" /\ l.class \notin Sections /\ l.class # "enum"
      /\ ~(l.class = "member" /\ l.typ = "enum") /\ l.class \notin VersionLines
  BY DEF Items, Sections, VersionLines
<1>2. DomainsThen(p, l) = p.domains /\ VersionThen(p, l) = p.version /\ LiteralsThen(p, l) = p.literals
  BY <1>1, ThenDomains, ThenVersion, ThenLiterals DEF VersionLines, Sections
<1>3. Then(p, l) = [head |-> p.head, copyright |-> p.copyright, version |-> p.version, domains |-> p.domains,
                    domain |-> p.domain, item |-> p.item, subitems |-> p.subitems, literals |-> p.literals,
                    desc |-> DescThen(p, l)]
  BY <1>1, <1>2 DEF Then
<1> QED BY <1>3 DEF Commented

LEMMA ReadDescLines ==
  ASSUME NEW p, p.desc = <<>>, NEW d, Text(d)
  PROVE  Commented(p, ThenAll(p, DescLines(d)), d)
<1>1. PICK n, ls : n = Len(d) /\ ls = DescLines(d)
  OBVIOUS
<1>2. n \in Nat /\ IsSeq(d)
  BY <1>1, SeqFacts DEF Text
<1>3. IsSeq(ls) /\ Len(ls) = n /\ \A i \in 1 .. n : ls[i] = [class |-> "comment", text |-> d[i]]
  <2>1. ls = [i \in 1 .. n |-> [class |-> "comment", text |-> d[i]]]
    BY <1>1 DEF DescLines
  <2>2. \A i \in 1 .. n : ls[i] = [class |-> "comment", text |-> d[i]]
    BY <2>1
  <2>3. ls = [i \in 1 .. n |-> ls[i]]
    BY <2>1
  <2> QED BY <1>2, <2>2, <2>3, SeqFunction
<1>4. PICK g : ThenAll(p, ls) = g[n] /\ Steps(g, p, ls)
  BY <1>3, StepsOfThen
<1> DEFINE S == {i \in Nat : i <= n => Commented(p, g[i], First(d, i))}
<1>5. 0 \in S
  <2>1. g[0] = p /\ First(d, 0) = <<>>
    BY <1>2, <1>4, FirstNone DEF Steps
  <2> QED BY <2>1 DEF Commented
<1>6. ASSUME NEW i \in Nat, i \in S PROVE i + 1 \in S
  <2> SUFFICES ASSUME i + 1 <= n PROVE Commented(p, g[i + 1], First(d, i + 1))
    OBVIOUS
  <2>1. PICK j : j = i + 1
    OBVIOUS
  <2>2. j \in 1 .. n /\ j - 1 = i /\ Commented(p, g[i], First(d, i))
    BY <1>2, <1>6, <2>1
  <2>3. PICK l : l = ls[j]
    OBVIOUS
  <2>4. l.class = "comment" /\ l.text = d[j]
    BY <1>3, <2>2, <2>3
  <2>5. g[j] = Then(g[i], l)
    BY <1>3, <1>4, <2>2, <2>3 DEF Steps
  <2>6. Commented(g[i], g[j], DescThen(g[i], l))
    BY <2>4, <2>5, CommentThen
  <2>7. First(d, j) = Append(First(d, i), d[j]) /\ Len(First(d, i)) = i /\ IsSeq(First(d, i))
    <3>1. j \in 1 .. Len(d) /\ i \in 0 .. Len(d) /\ i = j - 1
      BY <1>1, <1>2, <2>1, <2>2
    <3>2. First(d, j) = Append(First(d, i), d[j])
      BY <1>2, <3>1, FirstMore
    <3>3. Len(First(d, i)) = i /\ IsSeq(First(d, i))
      BY <1>2, <3>1, FirstSeq
    <3> QED BY <3>2, <3>3
  <2>8. g[i].desc = First(d, i)
    BY <2>2 DEF Commented
  <2>9. ~(g[i].desc = <<>> /\ l.text = "")
    <3>1. CASE i = 0
      <4>1. d # <<>> /\ j = 1
        BY <1>1, <1>2, <2>1, <2>2, <3>1, SeqFacts
      <4> QED BY <2>4, <4>1 DEF Text
    <3>2. CASE i # 0
      BY <2>7, <2>8, <3>2, SeqFacts
    <3> QED BY <3>1, <3>2
  <2>10. DescThen(g[i], l) = First(d, j)
    BY <2>4, <2>7, <2>8, <2>9 DEF DescThen
  <2>11. Commented(p, g[j], First(d, j))
    BY <2>2, <2>6, <2>10 DEF Commented
  <2> QED BY <2>1, <2>11
<1> HIDE DEF S
<1>7. n \in S
  BY <1>2, <1>5, <1>6, Numbers
<1>8. Commented(p, g[n], First(d, n))
  BY <1>2, <1>7 DEF S
<1>9. First(d, n) = d
  BY <1>1, <1>2, FirstAll
<1> QED BY <1>1, <1>4, <1>8, <1>9

LEMMA DescSeqLines == ASSUME NEW d, IsSeq(d) PROVE IsSeq(DescLines(d)) /\ (d = <<>> => DescLines(d) = <<>>)
<1>1. PICK n, ls : n = Len(d) /\ ls = DescLines(d)
  OBVIOUS
<1>2. n \in Nat /\ (d = <<>> => n = 0)
  BY <1>1, SeqFacts
<1>3. ls = [i \in 1 .. n |-> [class |-> "comment", text |-> d[i]]]
  BY <1>1 DEF DescLines
<1>4. ls = [i \in 1 .. n |-> ls[i]]
  BY <1>3
<1>5. IsSeq(ls) /\ Len(ls) = n
  BY <1>2, <1>4, SeqFunction
<1> QED BY <1>1, <1>2, <1>5, SeqFacts

(* What a comment leaves as it was. *)
LEMMA CommentedPlace ==
  ASSUME NEW p, NEW q, NEW d, Commented(p, q, d), NEW k, NEW x, NEW f
  PROVE  /\ OnItem(p, k, x) => OnItem(q, k, x)
         /\ OnSection(p, k, x, f) => OnSection(q, k, x, f)
         /\ q.desc = d
  BY DEF Commented, OnItem, OnSection

-----------------------------------------------------------------------------
(* Literals, one after another, make an item what G says.                  *)
LEMMA ReadLiteralLines ==
  ASSUME NEW e, IsSeq(e), NEW k, Place(k), NEW p, p.desc = <<>>, LeadsTo(p.literals, k),
         NEW G, OnItem(p, k, G[0]),
         \A i \in 1 .. Len(e) : WithLiteral(G[i - 1], p.literals, e[i]) = G[i],
         NEW q, q = ThenAll(p, LiteralLines(e))
  PROVE  OnItem(q, k, G[Len(e)]) /\ q.desc = <<>> /\ q.subitems = p.subitems
<1>1. PICK n, ls, pt : n = Len(e) /\ ls = LiteralLines(e) /\ pt = p.literals
  OBVIOUS
<1>2. n \in Nat
  BY <1>1, SeqFacts
<1>3. IsSeq(ls) /\ Len(ls) = n /\ \A i \in 1 .. n : ls[i] = [class |-> "literal", value |-> e[i]]
  <2>1. ls = [i \in 1 .. n |-> [class |-> "literal", value |-> e[i]]]
    BY <1>1 DEF LiteralLines
  <2>2. \A i \in 1 .. n : ls[i] = [class |-> "literal", value |-> e[i]]
    BY <2>1
  <2>3. ls = [i \in 1 .. n |-> ls[i]]
    BY <2>1
  <2> QED BY <1>2, <2>2, <2>3, SeqFunction
<1>4. PICK g : ThenAll(p, ls) = g[n] /\ Steps(g, p, ls)
  BY <1>3, StepsOfThen
<1> DEFINE Good(r, x) == OnItem(r, k, x) /\ r.desc = <<>> /\ r.subitems = p.subitems /\ r.literals = pt
<1> DEFINE S == {i \in Nat : i <= n => Good(g[i], G[i])}
<1>5. 0 \in S
  BY <1>1, <1>4 DEF Steps
<1>6. ASSUME NEW i \in Nat, i \in S PROVE i + 1 \in S
  <2> SUFFICES ASSUME i + 1 <= n PROVE Good(g[i + 1], G[i + 1])
    OBVIOUS
  <2>1. PICK j, a, b, l : j = i + 1 /\ a = g[i] /\ b = g[j] /\ l = ls[j]
    OBVIOUS
  <2>2. j \in 1 .. n /\ j - 1 = i /\ Good(a, G[i])
    BY <1>2, <1>6, <2>1
  <2>3. l.class = "literal" /\ l.value = e[j]
    BY <1>3, <2>1, <2>2
  <2>4. b = Then(a, l)
    BY <1>3, <1>4, <2>1, <2>2 DEF Steps
  <2>5. OnItem(a, k, G[i]) /\ LeadsTo(a.literals, k)
    BY <1>1, <2>2
  <2>6. /\ OnItem(b, k, WithLiteral(G[i], a.literals, l.value)) /\ b.desc = <<>>
        /\ b.subitems = a.subitems /\ b.literals = a.literals
    BY <2>3, <2>4, <2>5, LiteralThen
  <2>7. WithLiteral(G[i], a.literals, l.value) = G[j]
    BY <1>1, <2>2, <2>3
  <2> QED BY <2>1, <2>2, <2>6, <2>7
<1> HIDE DEF S
<1>7. n \in S
  BY <1>2, <1>5, <1>6, Numbers
<1>8. Good(g[n], G[n])
  BY <1>2, <1>7 DEF S
<1> QED BY <1>1, <1>4, <1>8

LEMMA LiteralSeqLines == ASSUME NEW d, IsSeq(d) PROVE IsSeq(LiteralLines(d)) /\ (d = <<>> => LiteralLines(d) = <<>>)
<1>1. PICK n, ls : n = Len(d) /\ ls = LiteralLines(d)
  OBVIOUS
<1>2. n \in Nat /\ (d = <<>> => n = 0)
  BY <1>1, SeqFacts
<1>3. ls = [i \in 1 .. n |-> [class |-> "literal", value |-> d[i]]]
  BY <1>1 DEF LiteralLines
<1>4. ls = [i \in 1 .. n |-> ls[i]]
  BY <1>3
<1>5. IsSeq(ls) /\ Len(ls) = n
  BY <1>2, <1>4, SeqFunction
<1> QED BY <1>1, <1>2, <1>5, SeqFacts

-----------------------------------------------------------------------------
(* A member that its lines give back.                                      *)
ReadMemberLine(dn, m) ==
  NewType(dn, MemberLine(m), Assigned(MemberLine(m).typ, MemberLine(m).array), m.desc)

MemberBack(dn, m) == Text(m.desc) /\ IsSeq(m.enum) /\ m = WithEnum(ReadMemberLine(dn, m), m.enum)

Filled(x) == Sections \cup {"enum", "redirect"} \subseteq DOMAIN x

LEMMA NewIsFilled ==
  ASSUME NEW dn, NEW l, NEW typ, NEW d
  PROVE  LET x == NewType(dn, l, typ, d)
         IN  Filled(x) /\ x.enum = <<>> /\ WithEnum(x, <<>>) = x
  BY DEF NewType, Filled, WithEnum, Sections

LEMMA WithMembersIs ==
  ASSUME NEW x, Filled(x), NEW f \in Sections, NEW ms
  PROVE  /\ WithMembers(x, f, ms)[f] = ms /\ Filled(WithMembers(x, f, ms))
  BY DEF WithMembers, Filled

LEMMA WithMembersAgain ==
  ASSUME NEW x, Filled(x), NEW f \in Sections, NEW ms, NEW ns
  PROVE  WithMembers(WithMembers(x, f, ms), f, ns) = WithMembers(x, f, ns)
  BY DEF WithMembers, Filled

LEMMA SectionIsEmpty == ASSUME NEW x, NEW f PROVE WithSection(x, f) = WithMembers(x, f, <<>>)
  BY DEF WithMembers, WithSection

LEMMA WithMemberIs ==
  ASSUME NEW x, Filled(x), NEW f \in Sections, NEW ms, NEW m
  PROVE  WithMember(WithMembers(x, f, ms), f, m) = WithMembers(x, f, Append(ms, m))
<1>1. PICK y, ns : y = WithMembers(x, f, ms) /\ ns = Append(ms, m)
  OBVIOUS
<1>2. y[f] = ms /\ WithMembers(y, f, ns) = WithMembers(x, f, ns)
  BY <1>1, WithMembersIs, WithMembersAgain
<1>3. WithMember(y, f, m) = WithMembers(y, f, Append(y[f], m))
  BY Zenon DEF WithMember, WithMembers
<1> QED BY <1>1, <1>2, <1>3, Zenon

(* Literals make the enum of an item and that of its last member longer.   *)
LEMMA ItemLiteral ==
  ASSUME NEW x, Filled(x), NEW a, NEW b, NEW c, NEW u, NEW v
  PROVE  WithLiteral(WithEnum(x, u), <<a, b, c>>, v) = WithEnum(x, Append(u, v))
<1>1. PICK y, pt : y = WithEnum(x, u) /\ pt = <<a, b, c>>
  OBVIOUS
<1>2. Len(pt) = 3
  BY <1>1
<1>3. WithLiteral(y, pt, v) = [y EXCEPT !.enum = Append(@, v)]
  BY <1>2, Zenon DEF WithLiteral
<1>4. y.enum = u /\ \A w : [y EXCEPT !.enum = w] = [x EXCEPT !.enum = w]
  BY <1>1 DEF WithEnum, Filled
<1>5. [y EXCEPT !.enum = Append(@, v)] = [y EXCEPT !.enum = Append(y.enum, v)]
  BY Zenon
<1> QED BY <1>1, <1>3, <1>4, <1>5, Zenon DEF WithEnum

LEMMA MemberLiteral ==
  ASSUME NEW x, Filled(x), NEW f \in Sections, NEW ms, IsSeq(ms), NEW m, Filled(m),
         NEW a, NEW b, NEW c, NEW n, n = Len(ms) + 1, NEW u, NEW v
  PROVE  WithLiteral(WithMembers(x, f, Append(ms, WithEnum(m, u))), <<a, b, c, f, n>>, v)
           = WithMembers(x, f, Append(ms, WithEnum(m, Append(u, v))))
<1>1. PICK y, pt, ns : ns = Append(ms, WithEnum(m, u)) /\ y = WithMembers(x, f, ns) /\ pt = <<a, b, c, f, n>>
  OBVIOUS
<1>2. Len(pt) # 3 /\ pt[4] = f /\ pt[5] = n
  BY <1>1
<1>3. WithLiteral(y, pt, v) = [y EXCEPT ![f][n].enum = Append(@, v)]
  BY <1>2, Zenon DEF WithLiteral
<1>4. y[f] = ns /\ \A os : WithMembers(y, f, os) = WithMembers(x, f, os)
  <2>1. y[f] = ns
    BY <1>1, WithMembersIs
  <2>2. \A os : WithMembers(y, f, os) = WithMembers(x, f, os)
    BY <1>1, WithMembersAgain
  <2> QED BY <2>1, <2>2
<1>5. ns[n] = WithEnum(m, u) /\ \A o : Put(ns, n, o) = Append(ms, o)
  BY <1>1, LastReplaced
<1>6. WithEnum(m, u).enum = u /\ \A w : [WithEnum(m, u) EXCEPT !.enum = w] = WithEnum(m, w)
  BY DEF WithEnum, Filled
<1>7. [y EXCEPT ![f][n].enum = Append(@, v)]
        = WithMembers(y, f, Put(y[f], n, [y[f][n] EXCEPT !.enum = Append(y[f][n].enum, v)]))
  BY Zenon DEF WithMembers, Put
<1>8. [y[f][n] EXCEPT !.enum = Append(y[f][n].enum, v)] = WithEnum(m, Append(u, v))
  BY <1>4, <1>5, <1>6, Zenon
<1>9. PICK o : o = WithEnum(m, Append(u, v))
  OBVIOUS
<1>10. WithLiteral(y, pt, v) = WithMembers(y, f, Put(ns, n, o))
  BY <1>3, <1>4, <1>7, <1>8, <1>9, Zenon
<1>11. WithMembers(y, f, Put(ns, n, o)) = WithMembers(x, f, Append(ms, o))
  BY <1>4, <1>5
<1> QED BY <1>1, <1>9, <1>10, <1>11

(* The three parts of a member's lines. *)
LEMMA ThenThree ==
  ASSUME NEW p, NEW a, NEW b, NEW c, IsSeq(a), IsSeq(b), IsSeq(c)
  PROVE  ThenAll(p, a \o b \o c) = ThenAll(ThenAll(ThenAll(p, a), b), c)
<1>1. IsSeq(a \o b)
  BY Concat
<1>2. ThenAll(p, a \o b \o c) = ThenAll(ThenAll(p, a \o b), c)
  BY <1>1, ThenJoined
<1>3. ThenAll(p, a \o b) = ThenAll(ThenAll(p, a), b)
  BY ThenJoined
<1> QED BY <1>2, <1>3, Zenon

LEMMA ReadMemberLines ==
  ASSUME NEW k, Place(k), NEW x, Filled(x), NEW f \in Sections, NEW ms, IsSeq(ms),
         NEW p, OnSection(p, k, WithMembers(x, f, ms), f), p.desc = <<>>,
         NEW m, MemberBack(k.d.name, m), NEW q, q = ThenAll(p, MemberLines(m))
  PROVE  OnSection(q, k, WithMembers(x, f, Append(ms, m)), f) /\ q.desc = <<>>
<1>1. PICK a, l, c, m0 : a = DescLines(m.desc) /\ l = MemberLine(m) /\ c = LiteralLines(m.enum)
                     /\ m0 = ReadMemberLine(k.d.name, m)
  OBVIOUS
<1>2. Text(m.desc) /\ IsSeq(m.desc) /\ IsSeq(m.enum) /\ m = WithEnum(m0, m.enum)
  BY <1>1 DEF MemberBack, Text
<1>3. IsSeq(a) /\ IsSeq(<<l>>) /\ IsSeq(c) /\ (m.enum = <<>> => c = <<>>)
  BY <1>1, <1>2, DescSeqLines, LiteralSeqLines, Single
<1>4. PICK p1, p2 : p1 = ThenAll(p, a) /\ p2 = Then(p1, l)
  OBVIOUS
<1>5. q = ThenAll(p2, c)
  <2>1. q = ThenAll(ThenAll(ThenAll(p, a), <<l>>), c)
    <3>1. MemberLines(m) = a \o <<l>> \o c
      BY <1>1, Zenon DEF MemberLines
    <3>2. ThenAll(p, a \o <<l>> \o c) = ThenAll(ThenAll(ThenAll(p, a), <<l>>), c)
      BY <1>3, ThenThree
    <3> QED BY <3>1, <3>2, Zenon
  <2>2. ThenAll(ThenAll(p, a), <<l>>) = Then(ThenAll(p, a), l)
    BY ThenOne
  <2> QED BY <1>4, <2>1, <2>2, Zenon
<1>6. OnSection(p1, k, WithMembers(x, f, ms), f) /\ p1.desc = m.desc
  <2>1. Commented(p, p1, m.desc)
    BY <1>1, <1>2, <1>4, ReadDescLines
  <2> QED BY <2>1, CommentedPlace
<1>7. l.class = "member" /\ (m.enum # <<>> => l.typ = "enum")
  BY <1>1 DEF MemberLine
<1>8. m0 = NewType(k.d.name, l, Assigned(l.typ, l.array), p1.desc)
  BY <1>1, <1>6, Zenon DEF ReadMemberLine
<1>9. Filled(m0) /\ m0.enum = <<>> /\ WithEnum(m0, <<>>) = m0
  BY <1>8, NewIsFilled
<1>10. PICK y : y = WithMembers(x, f, ms)
  OBVIOUS
<1>11. OnSection(p1, k, y, f)
  BY <1>6, <1>10
<1>12. /\ OnSection(p2, k, WithMember(y, f, m0), f) /\ p2.desc = <<>>
       /\ l.typ = "enum" => p2.literals = <<Len(k.ds) + 1, k.list, Len(k.ts) + 1, f, Len(y[f]) + 1>>
  BY <1>4, <1>7, <1>8, <1>11, MemberThen
<1>13. WithMember(y, f, m0) = WithMembers(x, f, Append(ms, m0)) /\ y[f] = ms
  BY <1>10, WithMemberIs, WithMembersIs
<1>14. CASE m.enum = <<>>
  <2>1. q = p2
    BY <1>3, <1>5, <1>14, ThenNone
  <2>2. m = m0
    BY <1>2, <1>9, <1>14
  <2> QED BY <1>12, <1>13, <2>1, <2>2
<1>15. CASE m.enum # <<>>
  <2>1. PICK e, n, pt : e = m.enum /\ n = Len(ms) + 1 /\ pt = <<Len(k.ds) + 1, k.list, Len(k.ts) + 1, f, n>>
    OBVIOUS
  <2>2. p2.literals = pt /\ LeadsTo(pt, k)
    <3>1. p2.literals = pt
      BY <1>7, <1>12, <1>13, <1>15, <2>1
    <3> QED BY <2>1, <3>1, PointerOfItem
  <2>3. PICK G : G = [i \in 0 .. Len(e) |-> WithMembers(x, f, Append(ms, WithEnum(m0, First(e, i))))]
    OBVIOUS
  <2>4. Len(e) \in Nat /\ IsSeq(e)
    BY <1>2, <2>1, SeqFacts
  <2>5. \A i \in 0 .. Len(e) : G[i] = WithMembers(x, f, Append(ms, WithEnum(m0, First(e, i))))
    BY <2>3
  <2>6. G[0] = WithMembers(x, f, Append(ms, m0))
    <3>1. First(e, 0) = <<>> /\ 0 \in 0 .. Len(e)
      BY <2>4, FirstNone
    <3> QED BY <1>9, <2>5, <3>1
  <2>7. ASSUME NEW i \in 1 .. Len(e) PROVE WithLiteral(G[i - 1], p2.literals, e[i]) = G[i]
    <3>1. PICK j : j = i - 1
      OBVIOUS
    <3>2. j \in 0 .. Len(e) /\ i \in 0 .. Len(e)
      BY <2>4, <3>1
    <3>3. G[j] = WithMembers(x, f, Append(ms, WithEnum(m0, First(e, j))))
      BY <2>5, <3>2
    <3>4. WithLiteral(G[j], pt, e[i]) = WithMembers(x, f, Append(ms, WithEnum(m0, Append(First(e, j), e[i]))))
      BY <1>9, <2>1, <3>3, MemberLiteral
    <3>5. First(e, i) = Append(First(e, j), e[i])
      BY <2>4, <3>1, FirstMore
    <3>6. G[i] = WithMembers(x, f, Append(ms, WithEnum(m0, First(e, i))))
      BY <2>5, <3>2
    <3> QED BY <2>2, <3>1, <3>4, <3>5, <3>6, Zenon
  <2>8. G[Len(e)] = WithMembers(x, f, Append(ms, m))
    <3>1. First(e, Len(e)) = e /\ Len(e) \in 0 .. Len(e)
      BY <2>4, FirstAll
    <3>2. WithEnum(m0, e) = m
      BY <1>2, <2>1
    <3> QED BY <2>5, <3>1, <3>2
  <2>9. OnItem(p2, k, G[0])
    BY <1>12, <1>13, <2>6 DEF OnSection
  <2>10. OnItem(q, k, G[Len(e)]) /\ q.desc = <<>> /\ q.subitems = p2.subitems
    <3>1. q = ThenAll(p2, LiteralLines(e))
      BY <1>1, <1>5, <2>1, Zenon
    <3>2. LeadsTo(p2.literals, k) /\ p2.desc = <<>> /\ IsSeq(e)
      BY <1>12, <2>2, <2>4
    <3> QED BY <2>7, <2>9, <3>1, <3>2, ReadLiteralLines
  <2>11. p2.subitems = <<Len(k.ds) + 1, k.list, Len(k.ts) + 1, f>>
    BY <1>12 DEF OnSection
  <2> QED BY <2>8, <2>10, <2>11 DEF OnSection
<1> QED BY <1>14, <1>15

-----------------------------------------------------------------------------
(* The members of a section, one after another.                            *)
MembersBack(dn, ms) == IsSeq(ms) /\ \A i \in 1 .. Len(ms) : MemberBack(dn, ms[i])

LEMMA MemberSeqLines == ASSUME NEW dn, NEW m, MemberBack(dn, m) PROVE IsSeq(MemberLines(m))
<1>1. PICK a, l, c : a = DescLines(m.desc) /\ l = MemberLine(m) /\ c = LiteralLines(m.enum)
  OBVIOUS
<1>2. IsSeq(a) /\ IsSeq(<<l>>) /\ IsSeq(c)
  BY <1>1, DescSeqLines, LiteralSeqLines, Single DEF MemberBack, Text
<1>3. IsSeq(a \o <<l>>)
  BY <1>2, Concat
<1>4. IsSeq(a \o <<l>> \o c)
  BY <1>2, <1>3, Concat
<1> QED BY <1>1, <1>4, Zenon DEF MemberLines

LEMMA MembersSeqLines ==
  ASSUME NEW dn, NEW ms, MembersBack(dn, ms), NEW ss, ss = [i \in 1 .. Len(ms) |-> MemberLines(ms[i])]
  PROVE  /\ IsSeq(ss) /\ Len(ss) = Len(ms) /\ \A i \in 1 .. Len(ss) : ss[i] = MemberLines(ms[i]) /\ IsSeq(ss[i])
         /\ IsSeq(FlattenSeq(ss))
<1>1. PICK n \in Nat : n = Len(ms)
  BY SeqFacts DEF MembersBack
<1>2. \A i \in 1 .. n : ss[i] = MemberLines(ms[i])
  BY <1>1
<1>3. ss = [i \in 1 .. n |-> ss[i]]
  BY <1>1
<1>4. IsSeq(ss) /\ Len(ss) = n
  BY <1>3, SeqFunction
<1>5. \A i \in 1 .. n : IsSeq(ss[i])
  BY <1>1, <1>2, MemberSeqLines DEF MembersBack
<1>6. IsSeq(FlattenSeq(ss))
  BY <1>4, <1>5, FlattenPlaces
<1> QED BY <1>1, <1>2, <1>4, <1>5, <1>6

LEMMA ReadMembers ==
  ASSUME NEW k, Place(k), NEW x, Filled(x), NEW f \in Sections, NEW ms, MembersBack(k.d.name, ms),
         NEW p, OnSection(p, k, WithMembers(x, f, <<>>), f), p.desc = <<>>,
         NEW ss, ss = [i \in 1 .. Len(ms) |-> MemberLines(ms[i])], NEW q, q = ThenAll(p, FlattenSeq(ss))
  PROVE  OnSection(q, k, WithMembers(x, f, ms), f) /\ q.desc = <<>>
<1>1. PICK n \in Nat : n = Len(ms)
  BY SeqFacts DEF MembersBack
<1>2. IsSeq(ms) /\ \A i \in 1 .. n : MemberBack(k.d.name, ms[i])
  BY <1>1 DEF MembersBack
<1>3. IsSeq(ss) /\ Len(ss) = n /\ \A i \in 1 .. n : ss[i] = MemberLines(ms[i]) /\ IsSeq(ss[i])
  BY <1>1, MembersSeqLines
<1>4. PICK g : g[0] = p /\ g[n] = q /\ \A i \in 1 .. n : g[i] = ThenAll(g[i - 1], ss[i])
  <2>1. \A i \in 1 .. Len(ss) : IsSeq(ss[i])
    BY <1>3
  <2>2. PICK g : Stages(g, p, ss)
    BY <1>3, <2>1, ThenFlat
  <2> QED BY <1>3, <2>2 DEF Stages
<1> DEFINE Good(r, i) == OnSection(r, k, WithMembers(x, f, First(ms, i)), f) /\ r.desc = <<>>
<1> DEFINE S == {i \in Nat : i <= n => Good(g[i], i)}
<1>5. 0 \in S
  <2>1. First(ms, 0) = <<>>
    BY <1>2, FirstNone
  <2> QED BY <1>4, <2>1
<1>6. ASSUME NEW i \in Nat, i \in S PROVE i + 1 \in S
  <2> SUFFICES ASSUME i + 1 <= n PROVE Good(g[i + 1], i + 1)
    OBVIOUS
  <2>1. PICK j, a, b, m : j = i + 1 /\ a = g[i] /\ b = g[j] /\ m = ms[j]
    OBVIOUS
  <2>2. j \in 1 .. n /\ j - 1 = i /\ i \in 0 .. n /\ Good(a, i)
    BY <1>6, <2>1
  <2>3. MemberBack(k.d.name, m) /\ b = ThenAll(a, MemberLines(m))
    BY <1>2, <1>3, <1>4, <2>1, <2>2
  <2>4. IsSeq(First(ms, i)) /\ First(ms, j) = Append(First(ms, i), m)
    BY <1>1, <1>2, <2>1, <2>2, FirstSeq, FirstMore
  <2>5. PICK ns : ns = First(ms, i)
    OBVIOUS
  <2>6. IsSeq(ns) /\ OnSection(a, k, WithMembers(x, f, ns), f) /\ a.desc = <<>>
    BY <2>2, <2>4, <2>5
  <2>7. OnSection(b, k, WithMembers(x, f, Append(ns, m)), f) /\ b.desc = <<>>
    BY <2>3, <2>6, ReadMemberLines
  <2> QED BY <2>1, <2>4, <2>5, <2>7
<1> HIDE DEF S
<1>7. n \in S
  BY <1>5, <1>6, Numbers
<1>8. Good(g[n], n)
  BY <1>7 DEF S
<1>9. First(ms, n) = ms
  BY <1>1, <1>2, FirstAll
<1> QED BY <1>4, <1>8, <1>9

(* An item with the members of a section, which is written when there are some. *)
WithProps(x, f, ms) == IF ms = <<>> THEN x ELSE WithMembers(x, f, ms)

LEMMA PropSeqLines == ASSUME NEW dn, NEW ms, MembersBack(dn, ms), NEW f PROVE IsSeq(PropLines(f, ms))
<1>1. PICK ss, h : ss = [i \in 1 .. Len(ms) |-> MemberLines(ms[i])] /\ h = <<[class |-> f]>>
  OBVIOUS
<1>2. IsSeq(FlattenSeq(ss))
  BY <1>1, MembersSeqLines
<1>3. IsSeq(h)
  BY <1>1, Single
<1>4. IsSeq(h \o FlattenSeq(ss)) /\ IsSeq(<<>>)
  BY <1>2, <1>3, Concat, NoElements
<1> QED BY <1>1, <1>4, Zenon DEF PropLines

LEMMA ReadPropLines ==
  ASSUME NEW k, Place(k), NEW x, Filled(x), NEW f \in Sections, NEW ms, MembersBack(k.d.name, ms),
         NEW p, OnItem(p, k, x), p.desc = <<>>, NEW q, q = ThenAll(p, PropLines(f, ms))
  PROVE  OnItem(q, k, WithProps(x, f, ms)) /\ q.desc = <<>>
<1>1. CASE ms = <<>>
  <2>1. PropLines(f, ms) = <<>>
    BY <1>1, Zenon DEF PropLines
  <2>2. q = p
    BY <2>1, ThenNone
  <2> QED BY <1>1, <2>2 DEF WithProps
<1>2. CASE ms # <<>>
  <2>1. PICK ss, l, p1 : ss = [i \in 1 .. Len(ms) |-> MemberLines(ms[i])] /\ l = [class |-> f] /\ p1 = Then(p, l)
    OBVIOUS
  <2>2. PropLines(f, ms) = <<l>> \o FlattenSeq(ss)
    BY <1>2, <2>1, Zenon DEF PropLines
  <2>3. IsSeq(<<l>>) /\ IsSeq(FlattenSeq(ss))
    BY <2>1, MembersSeqLines, Single
  <2>4. q = ThenAll(p1, FlattenSeq(ss))
    <3>1. ThenAll(p, <<l>> \o FlattenSeq(ss)) = ThenAll(ThenAll(p, <<l>>), FlattenSeq(ss))
      BY <2>3, ThenJoined
    <3>2. ThenAll(p, <<l>>) = p1
      BY <2>1, ThenOne
    <3> QED BY <2>2, <3>1, <3>2, Zenon
  <2>5. l.class = f
    BY <2>1
  <2>6. OnSection(p1, k, WithSection(x, f), f) /\ p1.desc = <<>>
    BY <2>1, <2>5, SectionThen
  <2>7. OnSection(p1, k, WithMembers(x, f, <<>>), f)
    BY <2>6, SectionIsEmpty
  <2>8. OnSection(q, k, WithMembers(x, f, ms), f) /\ q.desc = <<>>
    BY <2>1, <2>4, <2>6, <2>7, ReadMembers
  <2> QED BY <1>2, <2>8 DEF WithProps, OnSection
<1> QED BY <1>1, <1>2

-----------------------------------------------------------------------------
(* The redirect of a command or an event.                                  *)
InsteadText(t) ==
  IF t.redirect[2] = "" THEN <<>> ELSE <<CHOOSE x \in DOMAIN Instead : Instead[x] = t.redirect[2]>>

RedirectBack(t) ==
  t.redirect # <<>> =>
    Text(InsteadText(t)) /\ t.redirect = <<t.redirect[1], NamedInstead(InsteadText(t))>>

WithRedirects(x, r) == IF r = <<>> THEN x ELSE WithRedirect(x, r)

LEMMA RedirectLinesOf ==
  ASSUME NEW t, t.redirect # <<>>
  PROVE  RedirectLines(t, FALSE) = DescLines(InsteadText(t)) \o <<[class |-> "redirect", name |-> t.redirect[1]]>>
<1>1. DescLines(<<>>) = <<>>
  BY DescSeqLines, NoElements
<1>2. RedirectLines(t, FALSE) = InsteadLines(t) \o <<RedirectLine(t, FALSE)>>
  BY RedirectParts
<1>3. RedirectLine(t, FALSE) = [class |-> "redirect", name |-> t.redirect[1]]
  BY DEF RedirectLine
<1>4. CASE t.redirect[2] = ""
  BY <1>1, <1>2, <1>3, <1>4, Zenon DEF InsteadLines, InsteadText
<1>5. CASE t.redirect[2] # ""
  <2>1. PICK y : y = CHOOSE x \in DOMAIN Instead : Instead[x] = t.redirect[2]
    OBVIOUS
  <2>2. InsteadLines(t) = DescLines(<<y>>) /\ InsteadText(t) = <<y>>
    BY <1>5, <2>1 DEF InsteadLines, InsteadText
  <2> QED BY <1>2, <1>3, <2>2
<1> QED BY <1>4, <1>5

LEMMA RedirectSeqLines == ASSUME NEW t, RedirectBack(t) PROVE IsSeq(RedirectLines(t, FALSE))
<1>1. CASE t.redirect = <<>>
  <2>1. RedirectLines(t, FALSE) = <<>>
    BY <1>1, Zenon DEF RedirectLines
  <2> QED BY <2>1, NoElements
<1>2. CASE t.redirect # <<>>
  <2>1. PICK l, d : l = [class |-> "redirect", name |-> t.redirect[1]] /\ d = InsteadText(t)
    OBVIOUS
  <2>2. IsSeq(DescLines(d)) /\ IsSeq(<<l>>)
    BY <1>2, <2>1, DescSeqLines, Single DEF RedirectBack, Text
  <2>3. IsSeq(DescLines(d) \o <<l>>)
    BY <2>2, Concat
  <2> QED BY <1>2, <2>1, <2>3, RedirectLinesOf
<1> QED BY <1>1, <1>2

(* Below an item, with no comment read since. *)
AtItem(p, k, x) == OnItem(p, k, x) /\ p.desc = <<>>

LEMMA ReadRedirectLines ==
  ASSUME NEW k, Place(k), NEW x, NEW p, AtItem(p, k, x), NEW t, RedirectBack(t),
         NEW ls, ls = RedirectLines(t, FALSE), NEW q, q = ThenAll(p, ls)
  PROVE  AtItem(q, k, WithRedirects(x, t.redirect))
<1>1. OnItem(p, k, x) /\ p.desc = <<>>
  BY DEF AtItem
<1>2. CASE t.redirect = <<>>
  <2>1. RedirectLines(t, FALSE) = <<>>
    BY <1>2, Zenon DEF RedirectLines
  <2>2. q = p
    BY <2>1, ThenNone, Zenon
  <2> QED BY <1>2, <2>2 DEF WithRedirects
<1>3. CASE t.redirect # <<>>
  <2>1. PICK l, d, p1 : l = [class |-> "redirect", name |-> t.redirect[1]] /\ d = InsteadText(t)
                     /\ p1 = ThenAll(p, DescLines(d))
    OBVIOUS
  <2>2. Text(d) /\ IsSeq(d) /\ t.redirect = <<l.name, NamedInstead(d)>> /\ l.class = "redirect"
    BY <1>3, <2>1 DEF RedirectBack, Text
  <2>3. IsSeq(DescLines(d)) /\ IsSeq(<<l>>)
    BY <2>2, DescSeqLines, Single
  <2>4. q = Then(p1, l)
    <3>1. RedirectLines(t, FALSE) = DescLines(d) \o <<l>>
      BY <1>3, <2>1, RedirectLinesOf
    <3>2. ThenAll(p, DescLines(d) \o <<l>>) = ThenAll(ThenAll(p, DescLines(d)), <<l>>)
      BY <2>3, ThenJoined
    <3>3. ThenAll(p1, <<l>>) = Then(p1, l)
      BY ThenOne
    <3> QED BY <2>1, <3>1, <3>2, <3>3, Zenon
  <2>5. Commented(p, p1, d)
    BY <1>1, <2>1, <2>2, ReadDescLines
  <2>6. OnItem(p1, k, x) /\ p1.desc = d
    BY <1>1, <2>5, CommentedPlace
  <2>7. PICK y, r : y = WithRedirect(x, RedirectPair(l, p1.desc)) /\ r = Then(p1, l)
    OBVIOUS
  <2>8. OnItem(r, k, y) /\ r.desc = <<>>
    <3>1. l.class = "redirect" /\ OnItem(p1, k, x)
      BY <2>2, <2>6
    <3> QED BY <2>7, <3>1, RedirectThen
  <2> QED BY <1>3, <2>2, <2>4, <2>6, <2>7, <2>8 DEF WithRedirects, RedirectPair, AtItem
<1> QED BY <1>2, <1>3

(* A blank line ends an item and leaves everything in its place.           *)
LEMMA BlankThen ==
  ASSUME NEW p, NEW l, l.class = "blank"
  PROVE  LET q == Then(p, l)
         IN  q.domains = p.domains /\ Same(p, q)
<1>1. l.class \notin Items \cup {"domain", "comment"}
  BY DEF Items
<1>2. Same(p, Then(p, l))
  BY <1>1, ThenSame
<1>3. DomainsThen(p, l) = p.domains
  BY ThenDomains
<1>4. Then(p, l).domains = DomainsThen(p, l)
  BY ThenDomainsField
<1> QED BY <1>2, <1>3, <1>4

-----------------------------------------------------------------------------
(* The literals of a type.                                                 *)
WithEnums(x, e) == IF e = <<>> THEN x ELSE WithEnum(x, e)
EnumLines(e) == IF e = <<>> THEN <<>> ELSE <<[class |-> "enum"]>> \o LiteralLines(e)

LEMMA EnumSeqLines == ASSUME NEW e, IsSeq(e) PROVE IsSeq(EnumLines(e))
<1>1. PICK l : l = [class |-> "enum"]
  OBVIOUS
<1>2. IsSeq(<<l>>) /\ IsSeq(LiteralLines(e)) /\ IsSeq(<<>>)
  BY Single, LiteralSeqLines, NoElements
<1>3. IsSeq(<<l>> \o LiteralLines(e))
  BY <1>2, Concat
<1> QED BY <1>1, <1>2, <1>3, Zenon DEF EnumLines

LEMMA ReadEnumLines ==
  ASSUME NEW k, Place(k), NEW x, Filled(x), NEW p, OnItem(p, k, x), p.desc = <<>>, NEW e, IsSeq(e)
  PROVE  LET q == ThenAll(p, EnumLines(e))
         IN  OnItem(q, k, WithEnums(x, e)) /\ q.desc = <<>>
<1>1. CASE e = <<>>
  <2>1. EnumLines(e) = <<>> /\ WithEnums(x, e) = x
    BY <1>1, Zenon DEF EnumLines, WithEnums
  <2>2. ThenAll(p, EnumLines(e)) = p
    BY <2>1, ThenNone
  <2> QED BY <2>1, <2>2
<1>2. CASE e # <<>>
  <2>1. PICK l, p1, q : l = [class |-> "enum"] /\ p1 = Then(p, l) /\ q = ThenAll(p1, LiteralLines(e))
    OBVIOUS
  <2>2. EnumLines(e) = <<l>> \o LiteralLines(e)
    BY <1>2, <2>1, Zenon DEF EnumLines
  <2>3. ThenAll(p, EnumLines(e)) = q
    <3>1. IsSeq(<<l>>) /\ IsSeq(LiteralLines(e))
      BY Single, LiteralSeqLines
    <3>2. ThenAll(p, <<l>> \o LiteralLines(e)) = ThenAll(ThenAll(p, <<l>>), LiteralLines(e))
      BY <3>1, ThenJoined
    <3>3. ThenAll(p, <<l>>) = Then(p, l)
      BY ThenOne
    <3> QED BY <2>1, <2>2, <3>2, <3>3, Zenon
  <2>4. l.class = "enum"
    BY <2>1
  <2>5. OnItem(p1, k, WithoutEnum(x)) /\ p1.desc = <<>> /\ p1.literals = p1.item
    BY <2>1, <2>4, EnumThen
  <2>6. PICK pt : pt = <<Len(k.ds) + 1, k.list, Len(k.ts) + 1>>
    OBVIOUS
  <2>7. p1.literals = pt /\ LeadsTo(pt, k)
    BY <2>5, <2>6, PointerOfItem DEF OnItem
  <2>8. PICK G : G = [i \in 0 .. Len(e) |-> WithEnum(x, First(e, i))]
    OBVIOUS
  <2>9. Len(e) \in Nat
    BY SeqFacts
  <2>10. \A i \in 0 .. Len(e) : G[i] = WithEnum(x, First(e, i))
    BY <2>8
  <2>11. OnItem(p1, k, G[0])
    <3>1. First(e, 0) = <<>> /\ 0 \in 0 .. Len(e)
      BY <2>9, FirstNone
    <3>2. WithoutEnum(x) = WithEnum(x, <<>>)
      BY DEF WithoutEnum, WithEnum
    <3> QED BY <2>5, <2>10, <3>1, <3>2
  <2>12. ASSUME NEW i \in 1 .. Len(e) PROVE WithLiteral(G[i - 1], p1.literals, e[i]) = G[i]
    <3>1. PICK j : j = i - 1
      OBVIOUS
    <3>2. j \in 0 .. Len(e) /\ i \in 0 .. Len(e)
      BY <2>9, <3>1
    <3>3. G[j] = WithEnum(x, First(e, j)) /\ G[i] = WithEnum(x, First(e, i))
      BY <2>10, <3>2
    <3>4. WithLiteral(G[j], pt, e[i]) = WithEnum(x, Append(First(e, j), e[i]))
      BY <2>6, <3>3, ItemLiteral
    <3>5. First(e, i) = Append(First(e, j), e[i])
      BY <3>1, FirstMore
    <3> QED BY <2>7, <3>1, <3>3, <3>4, <3>5, Zenon
  <2>13. OnItem(q, k, G[Len(e)]) /\ q.desc = <<>>
    BY <2>1, <2>5, <2>7, <2>11, <2>12, ReadLiteralLines
  <2>14. G[Len(e)] = WithEnum(x, e)
    <3>1. First(e, Len(e)) = e /\ Len(e) \in 0 .. Len(e)
      BY <2>9, FirstAll
    <3> QED BY <2>10, <3>1
  <2> QED BY <1>2, <2>3, <2>13, <2>14 DEF WithEnums
<1> QED BY <1>1, <1>2

-----------------------------------------------------------------------------
(* The line of an item.                                                    *)
OnDomain(p, ds, d) == p.domains = Append(ds, d) /\ p.domain = <<Len(ds) + 1>>

PlaceIn(ds, d, list) == [ds |-> ds, d |-> d, list |-> list, ts |-> d[list]]
WithItems(d, list, ts) == [d EXCEPT ![list] = ts]

LEMMA PlaceInIs ==
  ASSUME NEW ds, IsSeq(ds), NEW d, NEW list \in ItemLists, list \in DOMAIN d, IsSeq(d[list]),
         NEW k, k = PlaceIn(ds, d, list)
  PROVE  Place(k) /\ k.ds = ds /\ k.d = d /\ k.list = list /\ k.ts = d[list]
         /\ \A x : DomainAt(k, x) = WithItems(d, list, Append(d[list], x))
  BY DEF Place, PlaceIn, DomainAt, WithItems

LEMMA ItemThen ==
  ASSUME NEW ds, IsSeq(ds), NEW d, NEW list \in ItemLists, list \in DOMAIN d, IsSeq(d[list]),
         NEW p, OnDomain(p, ds, d), NEW l, l.class \in Items, list = ListOf[l.class], NEW q, q = Then(p, l),
         NEW k, k = PlaceIn(ds, d, list), NEW x, x = NewType(d.name, l, TypeOf(l), p.desc)
  PROVE  OnItem(q, k, x) /\ q.desc = <<>>
<1>1. PICK a, es : a = Len(ds) + 1 /\ es = p.domains
  OBVIOUS
<1>2. es = Append(ds, d) /\ p.domain = <<a>> /\ p.domain[1] = a
  BY <1>1 DEF OnDomain
<1>3. es[a] = d /\ \A y : Put(es, a, y) = Append(ds, y)
  BY <1>1, <1>2, LastReplaced
<1>4. NewIn(p, l, TypeOf(l)) = x
  BY <1>1, <1>2, <1>3, Zenon DEF NewIn
<1>5. DomainsThen(p, l) = AddItem(es, a, list, x)
  <2>1. DomainsThen(p, l) = AddItem(p.domains, p.domain[1], ListOf[l.class], NewIn(p, l, TypeOf(l)))
    BY ThenDomains, Zenon
  <2> QED BY <1>1, <1>2, <1>4, <2>1
<1>6. AddItem(es, a, list, x) = Put(es, a, WithItems(es[a], list, Append(es[a][list], x)))
  BY Zenon DEF AddItem, Put, WithItems
<1>7. DomainsThen(p, l) = Append(ds, WithItems(d, list, Append(d[list], x)))
  BY <1>3, <1>5, <1>6
<1>8. Place(k) /\ k.ds = ds /\ k.d = d /\ k.list = list /\ k.ts = d[list]
      /\ DomainAt(k, x) = WithItems(d, list, Append(d[list], x))
  BY PlaceInIs
<1>9. q.domains = Append(k.ds, DomainAt(k, x))
  <2>1. q.domains = DomainsThen(p, l)
    BY ThenDomainsField, Zenon
  <2> QED BY <1>7, <1>8, <2>1
<1>10. l.class # "domain" /\ l.class # "comment"
  BY DEF Items
<1>11. q.domain = <<Len(k.ds) + 1>> /\ q.desc = <<>>
  <2>1. Then(p, l).desc = DescThen(p, l)
        /\ Then(p, l).domain = (IF l.class = "domain" THEN <<Len(p.domains) + 1>> ELSE p.domain)
    BY DEF Then
  <2>2. DescThen(p, l) = <<>>
    BY <1>10 DEF DescThen
  <2> QED BY <1>1, <1>2, <1>8, <1>10, <2>1, <2>2
<1>12. q.item = <<Len(k.ds) + 1, k.list, Len(k.ts) + 1>>
  <2>1. Then(p, l).item = (IF l.class \in Items
           THEN <<p.domain[1], ListOf[l.class], Len(p.domains[p.domain[1]][ListOf[l.class]]) + 1>>
           ELSE p.item)
    BY DEF Then
  <2>2. q.item = <<p.domain[1], ListOf[l.class], Len(p.domains[p.domain[1]][ListOf[l.class]]) + 1>>
    BY <2>1
  <2>3. p.domain[1] = Len(k.ds) + 1 /\ ListOf[l.class] = k.list
        /\ p.domains[p.domain[1]][ListOf[l.class]] = k.ts
    BY <1>1, <1>2, <1>3, <1>8
  <2> QED BY <2>2, <2>3, Zenon
<1> QED BY <1>9, <1>11, <1>12 DEF OnItem

(* Where the items of a list are read. *)
ListPlace(ds, d, list) ==
  IsSeq(ds) /\ list \in ItemLists /\ list \in DOMAIN d /\ IsSeq(d[list])

OnList(p, ds, d) == OnDomain(p, ds, d) /\ p.desc = <<>>

LEMMA ReadItemStart ==
  ASSUME NEW ds, NEW d, NEW list, ListPlace(ds, d, list), NEW p, OnList(p, ds, d), NEW t, Text(t),
         NEW l, l.class \in Items, list = ListOf[l.class],
         NEW k, k = PlaceIn(ds, d, list), NEW x, x = NewType(d.name, l, TypeOf(l), t)
  PROVE  LET q == ThenAll(ThenAll(p, DescLines(t)), <<l>>)
         IN  OnItem(q, k, x) /\ q.desc = <<>> /\ Filled(x) /\ Place(k) /\ k.d = d
<1>1. PICK p1, q : p1 = ThenAll(p, DescLines(t)) /\ q = Then(p1, l)
  OBVIOUS
<1>2. Commented(p, p1, t)
  BY <1>1, ReadDescLines DEF OnList
<1>3. OnDomain(p1, ds, d) /\ p1.desc = t
  BY <1>2 DEF Commented, OnDomain, OnList
<1>4. OnItem(q, k, x) /\ q.desc = <<>>
  <2>1. x = NewType(d.name, l, TypeOf(l), p1.desc)
    BY <1>3
  <2>2. IsSeq(ds) /\ list \in ItemLists /\ list \in DOMAIN d /\ IsSeq(d[list])
    BY DEF ListPlace
  <2> QED BY <1>1, <1>3, <2>1, <2>2, ItemThen
<1>5. ThenAll(p1, <<l>>) = q
  BY <1>1, ThenOne
<1>6. Filled(x)
  BY NewIsFilled
<1>7. Place(k) /\ k.d = d
  BY PlaceInIs DEF ListPlace
<1> QED BY <1>1, <1>4, <1>5, <1>6, <1>7, Zenon

LEMMA ReadItemEnd ==
  ASSUME NEW ds, NEW d, NEW list, ListPlace(ds, d, list), NEW k, k = PlaceIn(ds, d, list),
         NEW x, NEW p, OnItem(p, k, x), p.desc = <<>>
  PROVE  OnList(ThenAll(p, Blank), ds, WithItems(d, list, Append(d[list], x)))
<1>1. PICK l, q : l = [class |-> "blank"] /\ q = Then(p, l)
  OBVIOUS
<1>2. ThenAll(p, Blank) = q
  BY <1>1, ThenOne DEF Blank
<1>3. l.class = "blank"
  BY <1>1
<1>4. q.domains = p.domains /\ Same(p, q)
  BY <1>1, <1>3, BlankThen
<1>5. k.ds = ds /\ DomainAt(k, x) = WithItems(d, list, Append(d[list], x))
  BY PlaceInIs DEF ListPlace
<1> QED BY <1>2, <1>4, <1>5 DEF OnItem, OnList, OnDomain, Same

LEMMA ThenFive ==
  ASSUME NEW p, NEW a, NEW b, NEW c, NEW d, NEW e, IsSeq(a), IsSeq(b), IsSeq(c), IsSeq(d), IsSeq(e)
  PROVE  ThenAll(p, a \o b \o c \o d \o e) = ThenAll(ThenAll(ThenAll(ThenAll(ThenAll(p, a), b), c), d), e)
         /\ IsSeq(a \o b \o c \o d \o e)
<1>1. IsSeq(a \o b)
  BY Concat
<1>2. IsSeq(a \o b \o c)
  BY <1>1, Concat
<1>3. IsSeq(a \o b \o c \o d)
  BY <1>2, Concat
<1>4. ThenAll(p, a \o b \o c) = ThenAll(ThenAll(ThenAll(p, a), b), c)
  BY ThenThree
<1>5. ThenAll(p, a \o b \o c \o d) = ThenAll(ThenAll(p, a \o b \o c), d)
  BY <1>2, ThenJoined
<1>6. ThenAll(p, a \o b \o c \o d \o e) = ThenAll(ThenAll(p, a \o b \o c \o d), e)
  BY <1>3, ThenJoined
<1>7. IsSeq(a \o b \o c \o d \o e)
  BY <1>3, Concat
<1> QED BY <1>4, <1>5, <1>6, <1>7, Zenon

LEMMA ThenSix ==
  ASSUME NEW p, NEW a, NEW b, NEW c, NEW d, NEW e, NEW f,
         IsSeq(a), IsSeq(b), IsSeq(c), IsSeq(d), IsSeq(e), IsSeq(f)
  PROVE  ThenAll(p, a \o b \o c \o d \o e \o f)
           = ThenAll(ThenAll(ThenAll(ThenAll(ThenAll(ThenAll(p, a), b), c), d), e), f)
         /\ IsSeq(a \o b \o c \o d \o e \o f)
<1>1. ThenAll(p, a \o b \o c \o d \o e) = ThenAll(ThenAll(ThenAll(ThenAll(ThenAll(p, a), b), c), d), e)
      /\ IsSeq(a \o b \o c \o d \o e)
  BY ThenFive
<1>2. ThenAll(p, a \o b \o c \o d \o e \o f) = ThenAll(ThenAll(p, a \o b \o c \o d \o e), f)
  BY <1>1, ThenJoined
<1>3. IsSeq(a \o b \o c \o d \o e \o f)
  BY <1>1, Concat
<1> QED BY <1>1, <1>2, <1>3, Zenon

-----------------------------------------------------------------------------
(* What the lines of an item give back.                                    *)
OpeningLine(c, t) == IF c = "type" THEN TypeLine(t) ELSE [class |-> c, name |-> t.name, flags |-> t.flags]

LinesOfItem(c, t) ==
  CASE c = "type" -> TypeLines(t)
    [] c = "command" -> CommandLines(t)
    [] c = "event" -> EventLines(t)

ReadItemLine(c, dn, t) == NewType(dn, OpeningLine(c, t), TypeOf(OpeningLine(c, t)), t.desc)

Restored(c, dn, t) ==
  LET x == ReadItemLine(c, dn, t)
  IN  CASE c = "type" -> WithProps(WithEnums(x, t.enum), "properties", t.properties)
        [] c = "command" -> WithProps(WithProps(WithRedirects(x, t.redirect), "parameters", t.parameters),
                                      "returns", t.returns)
        [] c = "event" -> WithProps(WithRedirects(x, t.redirect), "parameters", t.parameters)

PartsBack(dn, t) ==
  /\ Text(t.desc) /\ IsSeq(t.enum) /\ RedirectBack(t)
  /\ \A f \in Sections : MembersBack(dn, t[f])

ItemBack(c, dn, t) == PartsBack(dn, t) /\ t = Restored(c, dn, t)

LEMMA StillFilled ==
  ASSUME NEW x, Filled(x), NEW f \in Sections, NEW ms, NEW e, NEW r
  PROVE  Filled(WithProps(x, f, ms)) /\ Filled(WithEnums(x, e)) /\ Filled(WithRedirects(x, r))
<1>1. Filled(WithMembers(x, f, ms)) /\ Filled(WithEnum(x, e)) /\ Filled(WithRedirect(x, r))
  BY DEF WithMembers, WithEnum, WithRedirect, Filled
<1> QED BY <1>1 DEF WithProps, WithEnums, WithRedirects

LEMMA ItemPartsSeq ==
  ASSUME NEW dn, NEW t, PartsBack(dn, t)
  PROVE  /\ IsSeq(DescLines(t.desc)) /\ IsSeq(EnumLines(t.enum)) /\ IsSeq(RedirectLines(t, FALSE)) /\ IsSeq(Blank)
         /\ IsSeq(PropLines("properties", t.properties)) /\ IsSeq(PropLines("parameters", t.parameters))
         /\ IsSeq(PropLines("returns", t.returns))
         /\ \A l : IsSeq(<<l>>)
<1>1. Text(t.desc) /\ IsSeq(t.enum) /\ RedirectBack(t) /\ IsSeq(t.desc)
  BY DEF PartsBack, Text
<1>2. MembersBack(dn, t.properties) /\ MembersBack(dn, t.parameters) /\ MembersBack(dn, t.returns)
  BY DEF PartsBack, Sections
<1>3. \A l : IsSeq(<<l>>)
  BY Single
<1>4. IsSeq(Blank)
  BY Single DEF Blank
<1>5. IsSeq(DescLines(t.desc)) /\ IsSeq(EnumLines(t.enum)) /\ IsSeq(RedirectLines(t, FALSE))
  BY <1>1, DescSeqLines, EnumSeqLines, RedirectSeqLines
<1>6. IsSeq(PropLines("properties", t.properties)) /\ IsSeq(PropLines("parameters", t.parameters))
      /\ IsSeq(PropLines("returns", t.returns))
  BY <1>2, PropSeqLines
<1> QED BY <1>3, <1>4, <1>5, <1>6

-----------------------------------------------------------------------------
(* The lines of an item of each class add it to its list.                  *)
LEMMA ReadTypeLines ==
  ASSUME NEW ds, NEW d, ListPlace(ds, d, "types"), NEW p, OnList(p, ds, d), NEW t, ItemBack("type", d.name, t),
         WritableType(t)
  PROVE  /\ OnList(ThenAll(p, TypeLines(t)), ds, WithItems(d, "types", Append(d.types, t)))
         /\ IsSeq(TypeLines(t))
<1>1. PICK a, l, r, e, m, b : /\ a = DescLines(t.desc) /\ l = TypeLine(t) /\ r = <<>> /\ e = EnumLines(t.enum)
                              /\ m = PropLines("properties", t.properties) /\ b = Blank
  OBVIOUS
<1>2. PartsBack(d.name, t) /\ Text(t.desc) /\ IsSeq(t.enum) /\ MembersBack(d.name, t.properties)
  BY DEF ItemBack, PartsBack, Sections
<1>3. IsSeq(a) /\ IsSeq(<<l>>) /\ IsSeq(r) /\ IsSeq(e) /\ IsSeq(m) /\ IsSeq(b)
  BY <1>1, <1>2, ItemPartsSeq, NoElements
<1>4. TypeLines(t) = a \o <<l>> \o r \o e \o m \o b
  <2>1. RedirectLines(t, TRUE) = <<>>
    BY RedirectParts DEF WritableType
  <2> QED BY <1>1, <2>1, Zenon DEF TypeLines, EnumLines
<1>5. PICK p1, p2, p3, p4, p5 : /\ p1 = ThenAll(ThenAll(p, a), <<l>>) /\ p2 = ThenAll(p1, r) /\ p3 = ThenAll(p2, e)
                                /\ p4 = ThenAll(p3, m) /\ p5 = ThenAll(p4, b)
  OBVIOUS
<1>6. ThenAll(p, TypeLines(t)) = p5 /\ IsSeq(TypeLines(t))
  <2>1. ThenAll(p, a \o <<l>> \o r \o e \o m \o b)
           = ThenAll(ThenAll(ThenAll(ThenAll(ThenAll(ThenAll(p, a), <<l>>), r), e), m), b)
         /\ IsSeq(a \o <<l>> \o r \o e \o m \o b)
    BY <1>3, ThenSix
  <2> QED BY <1>4, <1>5, <2>1, Zenon
<1>7. PICK k, x, y, z : k = PlaceIn(ds, d, "types") /\ x = ReadItemLine("type", d.name, t)
                     /\ y = WithEnums(x, t.enum) /\ z = WithProps(y, "properties", t.properties)
  OBVIOUS
<1>8. l.class \in Items /\ ListOf[l.class] = "types" /\ OpeningLine("type", t) = l
  <2>1. l.class = "type" \/ l.class = "unknown"
    BY <1>1 DEF TypeLine
  <2> QED BY <1>1, <2>1 DEF WritableType, Items, ListOf, OpeningLine
<1>9. x = NewType(d.name, l, TypeOf(l), t.desc)
  BY <1>7, <1>8 DEF ReadItemLine
<1>10. OnItem(p1, k, x) /\ p1.desc = <<>> /\ Filled(x) /\ Place(k) /\ k.d = d
  <2>1. "types" = ListOf[l.class]
    BY <1>8
  <2> QED BY <1>1, <1>2, <1>5, <1>7, <1>8, <1>9, <2>1, ReadItemStart
<1>11. p2 = p1
  BY <1>1, <1>5, ThenNone
<1>12. OnItem(p3, k, y) /\ p3.desc = <<>>
  BY <1>1, <1>2, <1>5, <1>7, <1>10, <1>11, ReadEnumLines
<1>13. Filled(y)
  <2>1. "properties" \in Sections
    BY DEF Sections
  <2> QED BY <1>7, <1>10, <2>1, StillFilled
<1>14. OnItem(p4, k, z) /\ p4.desc = <<>>
  <2>1. "properties" \in Sections /\ MembersBack(k.d.name, t.properties)
    BY <1>2, <1>10 DEF Sections
  <2> QED BY <1>1, <1>5, <1>7, <1>10, <1>12, <1>13, <2>1, ReadPropLines
<1>15. z = t
  BY <1>7, Zenon DEF ItemBack, Restored
<1>16. OnList(p5, ds, WithItems(d, "types", Append(d["types"], z)))
  BY <1>1, <1>5, <1>7, <1>14, ReadItemEnd
<1> QED BY <1>6, <1>15, <1>16

LEMMA ReadCommandLines ==
  ASSUME NEW ds, NEW d, ListPlace(ds, d, "commands"), NEW p, OnList(p, ds, d), NEW t, ItemBack("command", d.name, t)
  PROVE  /\ OnList(ThenAll(p, CommandLines(t)), ds, WithItems(d, "commands", Append(d.commands, t)))
         /\ IsSeq(CommandLines(t))
<1>1. PICK a, l, r, e, m, b : /\ a = DescLines(t.desc) /\ l = OpeningLine("command", t) /\ r = RedirectLines(t, FALSE)
                              /\ e = PropLines("parameters", t.parameters)
                              /\ m = PropLines("returns", t.returns) /\ b = Blank
  OBVIOUS
<1>2. PartsBack(d.name, t) /\ Text(t.desc) /\ RedirectBack(t) /\ MembersBack(d.name, t.parameters)
      /\ MembersBack(d.name, t.returns)
  BY DEF ItemBack, PartsBack, Sections
<1>3. IsSeq(a) /\ IsSeq(<<l>>) /\ IsSeq(r) /\ IsSeq(e) /\ IsSeq(m) /\ IsSeq(b)
  BY <1>1, <1>2, ItemPartsSeq
<1>4. l = [class |-> "command", name |-> t.name, flags |-> t.flags]
  BY <1>1 DEF OpeningLine
<1>5. CommandLines(t) = a \o <<l>> \o r \o e \o m \o b
  BY <1>1, <1>4, Zenon DEF CommandLines
<1>6. PICK p1, p2, p3, p4, p5 : /\ p1 = ThenAll(ThenAll(p, a), <<l>>) /\ p2 = ThenAll(p1, r) /\ p3 = ThenAll(p2, e)
                                /\ p4 = ThenAll(p3, m) /\ p5 = ThenAll(p4, b)
  OBVIOUS
<1>7. ThenAll(p, CommandLines(t)) = p5 /\ IsSeq(CommandLines(t))
  <2>1. ThenAll(p, a \o <<l>> \o r \o e \o m \o b)
           = ThenAll(ThenAll(ThenAll(ThenAll(ThenAll(ThenAll(p, a), <<l>>), r), e), m), b)
         /\ IsSeq(a \o <<l>> \o r \o e \o m \o b)
    BY <1>3, ThenSix
  <2> QED BY <1>5, <1>6, <2>1, Zenon
<1>8. PICK k, x, y, z, w : /\ k = PlaceIn(ds, d, "commands") /\ x = ReadItemLine("command", d.name, t)
                           /\ y = WithRedirects(x, t.redirect) /\ z = WithProps(y, "parameters", t.parameters)
                           /\ w = WithProps(z, "returns", t.returns)
  OBVIOUS
<1>9. l.class \in Items /\ ListOf[l.class] = "commands"
  BY <1>4 DEF Items, ListOf
<1>10. x = NewType(d.name, l, TypeOf(l), t.desc)
  BY <1>1, <1>8 DEF ReadItemLine
<1>11. OnItem(p1, k, x) /\ p1.desc = <<>> /\ Filled(x) /\ Place(k) /\ k.d = d
  <2>1. "commands" = ListOf[l.class]
    BY <1>9
  <2> QED BY <1>1, <1>2, <1>6, <1>8, <1>9, <1>10, <2>1, ReadItemStart
<1>12. "parameters" \in Sections /\ "returns" \in Sections /\ MembersBack(k.d.name, t.parameters)
       /\ MembersBack(k.d.name, t.returns)
  BY <1>2, <1>11 DEF Sections
<1>13. Filled(y) /\ Filled(z)
  BY <1>8, <1>11, <1>12, StillFilled
<1>14. OnItem(p2, k, y) /\ p2.desc = <<>>
  <2>1. r = RedirectLines(t, FALSE) /\ p2 = ThenAll(p1, r) /\ RedirectBack(t)
    BY <1>1, <1>2, <1>6
  <2>2. AtItem(p1, k, x) /\ Place(k)
    BY <1>11 DEF AtItem
  <2>3. AtItem(p2, k, WithRedirects(x, t.redirect))
    BY <2>1, <2>2, ReadRedirectLines, Zenon
  <2> QED BY <1>8, <2>3 DEF AtItem
<1>15. OnItem(p3, k, z) /\ p3.desc = <<>>
  <2>1. p3 = ThenAll(p2, PropLines("parameters", t.parameters))
    BY <1>1, <1>6
  <2>2. "parameters" \in Sections /\ MembersBack(k.d.name, t.parameters) /\ Place(k) /\ Filled(y)
    BY <1>11, <1>12, <1>13
  <2>3. OnItem(p3, k, WithProps(y, "parameters", t.parameters)) /\ p3.desc = <<>>
    BY <1>14, <2>1, <2>2, ReadPropLines
  <2> QED BY <1>8, <2>3
<1>16. OnItem(p4, k, w) /\ p4.desc = <<>>
  <2>1. p4 = ThenAll(p3, PropLines("returns", t.returns))
    BY <1>1, <1>6
  <2>2. "returns" \in Sections /\ MembersBack(k.d.name, t.returns) /\ Place(k) /\ Filled(z)
    BY <1>11, <1>12, <1>13
  <2>3. OnItem(p4, k, WithProps(z, "returns", t.returns)) /\ p4.desc = <<>>
    BY <1>15, <2>1, <2>2, ReadPropLines
  <2> QED BY <1>8, <2>3
<1>17. w = t
  BY <1>8, Zenon DEF ItemBack, Restored
<1>18. OnList(p5, ds, WithItems(d, "commands", Append(d["commands"], w)))
  BY <1>1, <1>6, <1>8, <1>16, ReadItemEnd
<1> QED BY <1>7, <1>17, <1>18

LEMMA ReadEventLines ==
  ASSUME NEW ds, NEW d, ListPlace(ds, d, "events"), NEW p, OnList(p, ds, d), NEW t, ItemBack("event", d.name, t)
  PROVE  /\ OnList(ThenAll(p, EventLines(t)), ds, WithItems(d, "events", Append(d.events, t)))
         /\ IsSeq(EventLines(t))
<1>1. PICK a, l, r, e, b : /\ a = DescLines(t.desc) /\ l = OpeningLine("event", t) /\ r = RedirectLines(t, FALSE)
                           /\ e = PropLines("parameters", t.parameters) /\ b = Blank
  OBVIOUS
<1>2. PartsBack(d.name, t) /\ Text(t.desc) /\ RedirectBack(t) /\ MembersBack(d.name, t.parameters)
  BY DEF ItemBack, PartsBack, Sections
<1>3. IsSeq(a) /\ IsSeq(<<l>>) /\ IsSeq(r) /\ IsSeq(e) /\ IsSeq(b)
  BY <1>1, <1>2, ItemPartsSeq
<1>4. l = [class |-> "event", name |-> t.name, flags |-> t.flags]
  BY <1>1 DEF OpeningLine
<1>5. EventLines(t) = a \o <<l>> \o r \o e \o b
  BY <1>1, <1>4, Zenon DEF EventLines
<1>6. PICK p1, p2, p3, p4 : /\ p1 = ThenAll(ThenAll(p, a), <<l>>) /\ p2 = ThenAll(p1, r) /\ p3 = ThenAll(p2, e)
                            /\ p4 = ThenAll(p3, b)
  OBVIOUS
<1>7. ThenAll(p, EventLines(t)) = p4 /\ IsSeq(EventLines(t))
  <2>1. ThenAll(p, a \o <<l>> \o r \o e \o b)
           = ThenAll(ThenAll(ThenAll(ThenAll(ThenAll(p, a), <<l>>), r), e), b)
         /\ IsSeq(a \o <<l>> \o r \o e \o b)
    BY <1>3, ThenFive
  <2> QED BY <1>5, <1>6, <2>1, Zenon
<1>8. PICK k, x, y, z : /\ k = PlaceIn(ds, d, "events") /\ x = ReadItemLine("event", d.name, t)
                        /\ y = WithRedirects(x, t.redirect) /\ z = WithProps(y, "parameters", t.parameters)
  OBVIOUS
<1>9. l.class \in Items /\ ListOf[l.class] = "events"
  BY <1>4 DEF Items, ListOf
<1>10. x = NewType(d.name, l, TypeOf(l), t.desc)
  BY <1>1, <1>8 DEF ReadItemLine
<1>11. OnItem(p1, k, x) /\ p1.desc = <<>> /\ Filled(x) /\ Place(k) /\ k.d = d
  <2>1. "events" = ListOf[l.class]
    BY <1>9
  <2> QED BY <1>1, <1>2, <1>6, <1>8, <1>9, <1>10, <2>1, ReadItemStart
<1>12. "parameters" \in Sections /\ MembersBack(k.d.name, t.parameters)
  BY <1>2, <1>11 DEF Sections
<1>13. Filled(y)
  BY <1>8, <1>11, <1>12, StillFilled
<1>14. OnItem(p2, k, y) /\ p2.desc = <<>>
  <2>1. r = RedirectLines(t, FALSE) /\ p2 = ThenAll(p1, r) /\ RedirectBack(t)
    BY <1>1, <1>2, <1>6
  <2>2. AtItem(p1, k, x) /\ Place(k)
    BY <1>11 DEF AtItem
  <2>3. AtItem(p2, k, WithRedirects(x, t.redirect))
    BY <2>1, <2>2, ReadRedirectLines, Zenon
  <2> QED BY <1>8, <2>3 DEF AtItem
<1>15. OnItem(p3, k, z) /\ p3.desc = <<>>
  <2>1. p3 = ThenAll(p2, PropLines("parameters", t.parameters))
    BY <1>1, <1>6
  <2>2. "parameters" \in Sections /\ MembersBack(k.d.name, t.parameters) /\ Place(k) /\ Filled(y)
    BY <1>11, <1>12, <1>13
  <2>3. OnItem(p3, k, WithProps(y, "parameters", t.parameters)) /\ p3.desc = <<>>
    BY <1>14, <2>1, <2>2, ReadPropLines
  <2> QED BY <1>8, <2>3
<1>16. z = t
  BY <1>8, Zenon DEF ItemBack, Restored
<1>17. OnList(p4, ds, WithItems(d, "events", Append(d["events"], z)))
  BY <1>1, <1>6, <1>8, <1>15, ReadItemEnd
<1> QED BY <1>7, <1>16, <1>17

-----------------------------------------------------------------------------
(* The items of a list, one after another.                                 *)
ItemWritten(c, dn, t) == ItemBack(c, dn, t) /\ (c = "type" => WritableType(t))

LEMMA ReadItemLines ==
  ASSUME NEW c \in Items, NEW list, list = ListOf[c], NEW ds, NEW d, ListPlace(ds, d, list),
         NEW p, OnList(p, ds, d), NEW t, ItemWritten(c, d.name, t)
  PROVE  /\ OnList(ThenAll(p, LinesOfItem(c, t)), ds, WithItems(d, list, Append(d[list], t)))
         /\ IsSeq(LinesOfItem(c, t))
<1>1. CASE c = "type"
  <2>1. LinesOfItem(c, t) = TypeLines(t) /\ list = "types"
    BY <1>1 DEF LinesOfItem, ListOf
  <2> QED BY <1>1, <2>1, ReadTypeLines DEF ItemWritten
<1>2. CASE c = "command"
  <2>1. LinesOfItem(c, t) = CommandLines(t) /\ list = "commands"
    BY <1>2 DEF LinesOfItem, ListOf
  <2> QED BY <1>2, <2>1, ReadCommandLines DEF ItemWritten
<1>3. CASE c = "event"
  <2>1. LinesOfItem(c, t) = EventLines(t) /\ list = "events"
    BY <1>3 DEF LinesOfItem, ListOf
  <2> QED BY <1>3, <2>1, ReadEventLines DEF ItemWritten
<1> QED BY <1>1, <1>2, <1>3 DEF Items

ItemsWritten(c, dn, ts) == IsSeq(ts) /\ \A i \in 1 .. Len(ts) : ItemWritten(c, dn, ts[i])

LEMMA WithItemsIs ==
  ASSUME NEW d, NEW list \in ItemLists, list \in DOMAIN d, NEW ts, NEW us, NEW e, e = WithItems(d, list, ts)
  PROVE  e[list] = ts /\ list \in DOMAIN e /\ e.name = d.name /\ WithItems(e, list, us) = WithItems(d, list, us)
<1>1. list # "name" /\ e = [d EXCEPT ![list] = ts]
  BY DEF ItemLists, WithItems
<1>2. e[list] = ts /\ DOMAIN e = DOMAIN d
  BY <1>1
<1>3. e.name = d.name
  BY <1>1
<1>4. [e EXCEPT ![list] = us] = [d EXCEPT ![list] = us]
  BY <1>1
<1> QED BY <1>2, <1>3, <1>4, Zenon DEF WithItems

LEMMA ReadItems ==
  ASSUME NEW c \in Items, NEW list, list = ListOf[c], NEW ds, IsSeq(ds), NEW d, list \in DOMAIN d,
         NEW p, OnList(p, ds, WithItems(d, list, <<>>)), NEW ts, ItemsWritten(c, d.name, ts),
         NEW ss, ss = [i \in 1 .. Len(ts) |-> LinesOfItem(c, ts[i])]
  PROVE  OnList(ThenAll(p, FlattenSeq(ss)), ds, WithItems(d, list, ts)) /\ IsSeq(FlattenSeq(ss))
<1>1. PICK n \in Nat : n = Len(ts)
  BY SeqFacts DEF ItemsWritten
<1>2. IsSeq(ts) /\ \A i \in 1 .. n : ItemWritten(c, d.name, ts[i])
  BY <1>1 DEF ItemsWritten
<1>3. list \in ItemLists
  BY DEF Items, ListOf, ItemLists
<1>4. IsSeq(ss) /\ Len(ss) = n /\ \A i \in 1 .. n : ss[i] = LinesOfItem(c, ts[i])
  <2>1. \A i \in 1 .. n : ss[i] = LinesOfItem(c, ts[i])
    BY <1>1
  <2>2. ss = [i \in 1 .. n |-> ss[i]]
    BY <1>1
  <2> QED BY <2>1, <2>2, SeqFunction
<1> DEFINE E(i) == WithItems(d, list, First(ts, i))
<1>5. ASSUME NEW i \in 0 .. n
      PROVE  E(i)[list] = First(ts, i) /\ E(i).name = d.name /\ ListPlace(ds, E(i), list)
             /\ \A us : WithItems(E(i), list, us) = WithItems(d, list, us)
  <2>1. PICK e : e = E(i)
    OBVIOUS
  <2>2. e[list] = First(ts, i) /\ list \in DOMAIN e /\ e.name = d.name
    BY <1>3, <2>1, WithItemsIs
  <2>3. \A us : WithItems(e, list, us) = WithItems(d, list, us)
    BY <1>3, <2>1, WithItemsIs
  <2>4. IsSeq(First(ts, i))
    BY <1>1, <1>2, FirstSeq
  <2> QED BY <1>3, <2>1, <2>2, <2>3, <2>4 DEF ListPlace
<1>6. ASSUME NEW i \in 1 .. n, NEW j, j = i - 1, NEW r, OnList(r, ds, E(j))
      PROVE  OnList(ThenAll(r, ss[i]), ds, E(i))
  <2>1. j \in 0 .. n
    BY <1>6
  <2>2. PICK e : e = E(j)
    OBVIOUS
  <2>3. ListPlace(ds, e, list) /\ e.name = d.name /\ e[list] = First(ts, j)
        /\ \A us : WithItems(e, list, us) = WithItems(d, list, us)
    BY <1>5, <2>1, <2>2
  <2>4. ItemWritten(c, e.name, ts[i])
    BY <1>2, <2>3
  <2>5. OnList(ThenAll(r, LinesOfItem(c, ts[i])), ds, WithItems(e, list, Append(e[list], ts[i])))
    BY <1>6, <2>2, <2>3, <2>4, ReadItemLines
  <2>6. First(ts, i) = Append(First(ts, j), ts[i])
    BY <1>1, <1>2, <1>6, FirstMore
  <2> QED BY <1>4, <2>3, <2>5, <2>6
<1>7. \A i \in 1 .. Len(ss) : IsSeq(ss[i])
  <2>1. ASSUME NEW i \in 1 .. n PROVE IsSeq(LinesOfItem(c, ts[i]))
    <3>1. PICK e, r : e = E(0) /\ r = p
      OBVIOUS
    <3>2. First(ts, 0) = <<>> /\ 0 \in 0 .. n
      BY <1>2, FirstNone
    <3>3. OnList(r, ds, e)
      BY <3>1, <3>2
    <3>4. ListPlace(ds, e, list) /\ e.name = d.name
      BY <1>5, <3>1, <3>2
    <3>5. ItemWritten(c, e.name, ts[i])
      BY <1>2, <3>4
    <3> QED BY <3>3, <3>4, <3>5, ReadItemLines
  <2> QED BY <1>4, <2>1
<1>8. IsSeq(FlattenSeq(ss))
  BY <1>4, <1>7, FlattenPlaces
<1>9. PICK g : Stages(g, p, ss)
  BY <1>4, <1>7, ThenFlat
<1> DEFINE S == {i \in Nat : i <= n => OnList(g[i], ds, E(i))}
<1>10. 0 \in S
  <2>1. First(ts, 0) = <<>>
    BY <1>2, FirstNone
  <2> QED BY <1>9, <2>1 DEF Stages
<1>11. ASSUME NEW i \in Nat, i \in S PROVE i + 1 \in S
  <2> SUFFICES ASSUME i + 1 <= n PROVE OnList(g[i + 1], ds, E(i + 1))
    OBVIOUS
  <2>1. PICK j : j = i + 1
    OBVIOUS
  <2>2. j \in 1 .. n /\ i = j - 1 /\ j - 1 = i /\ OnList(g[i], ds, E(i))
    BY <1>11, <2>1
  <2>3. g[j] = ThenAll(g[i], ss[j])
    BY <1>4, <1>9, <2>2 DEF Stages
  <2>4. OnList(ThenAll(g[i], ss[j]), ds, E(j))
    BY <1>6, <2>2
  <2> QED BY <2>1, <2>3, <2>4
<1> HIDE DEF S
<1>12. n \in S
  BY <1>10, <1>11, Numbers
<1>13. OnList(g[n], ds, E(n))
  BY <1>12 DEF S
<1>14. First(ts, n) = ts
  BY <1>1, <1>2, FirstAll
<1> QED BY <1>4, <1>8, <1>9, <1>13, <1>14 DEF Stages

-----------------------------------------------------------------------------
(* The line of a domain, and those of its dependencies.                    *)
DomainLine(d) == [class |-> "domain", name |-> d.name, flags |-> d.flags]
DependsLines(s) == [i \in 1 .. Len(s) |-> [class |-> "depends", name |-> s[i]]]
ReadDomainLine(d) == NewDomain(DomainLine(d), d.desc)
WithDependencies(d, s) == [d EXCEPT !.dependencies = s]

LEMMA DependsSeqLines ==
  ASSUME NEW s, IsSeq(s), NEW ls, ls = DependsLines(s)
  PROVE  IsSeq(ls) /\ Len(ls) = Len(s) /\ \A i \in 1 .. Len(s) : ls[i] = [class |-> "depends", name |-> s[i]]
<1>1. PICK n \in Nat : n = Len(s)
  BY SeqFacts
<1>2. ls = [i \in 1 .. n |-> [class |-> "depends", name |-> s[i]]]
  BY <1>1 DEF DependsLines
<1>3. ls = [i \in 1 .. n |-> ls[i]] /\ \A i \in 1 .. n : ls[i] = [class |-> "depends", name |-> s[i]]
  BY <1>2
<1> QED BY <1>1, <1>3, SeqFunction

LEMMA DomainThen ==
  ASSUME NEW ds, IsSeq(ds), NEW p, p.domains = ds, NEW l, l.class = "domain", NEW q, q = Then(p, l)
  PROVE  OnList(q, ds, NewDomain(l, p.desc))
<1>1. q.domains = Append(ds, NewDomain(l, p.desc))
  BY ThenDomainsField, ThenDomains
<1>2. q.domain = <<Len(ds) + 1>>
  <2>1. q.domain = (IF l.class = "domain" THEN <<Len(p.domains) + 1>> ELSE p.domain)
    BY ThenField, Zenon
  <2> QED BY <2>1
<1>3. q.desc = <<>>
  <2>1. q.desc = DescThen(p, l)
    BY ThenField, Zenon
  <2>2. DescThen(p, l) = <<>>
    BY DEF DescThen
  <2> QED BY <2>1, <2>2
<1> QED BY <1>1, <1>2, <1>3 DEF OnList, OnDomain

LEMMA DependsThen ==
  ASSUME NEW ds, IsSeq(ds), NEW d, NEW p, OnDomain(p, ds, d), NEW l, l.class = "depends", NEW q, q = Then(p, l)
  PROVE  OnList(q, ds, WithDependencies(d, Append(d.dependencies, l.name)))
<1>1. PICK a, es, e : a = Len(ds) + 1 /\ es = p.domains /\ e = WithDependencies(d, Append(d.dependencies, l.name))
  OBVIOUS
<1>2. es = Append(ds, d) /\ p.domain = <<a>> /\ p.domain[1] = a
  BY <1>1 DEF OnDomain
<1>3. es[a] = d /\ Put(es, a, e) = Append(ds, e)
  BY <1>1, <1>2, LastReplaced
<1>4. DomainsThen(p, l) = AddDependency(es, a, l.name)
  <2>1. DomainsThen(p, l) = AddDependency(p.domains, p.domain[1], l.name)
    BY ThenDomains, Zenon
  <2> QED BY <1>1, <1>2, <2>1
<1>5. AddDependency(es, a, l.name) = Put(es, a, WithDependencies(es[a], Append(es[a].dependencies, l.name)))
  BY Zenon DEF AddDependency, Put, WithDependencies
<1>6. q.domains = Append(ds, e)
  <2>1. q.domains = DomainsThen(p, l)
    BY ThenDomainsField, Zenon
  <2> QED BY <1>1, <1>3, <1>4, <1>5, <2>1
<1>7. l.class \notin Items \cup {"domain", "comment"}
  BY DEF Items
<1>8. Same(p, q)
  BY <1>7, ThenSame
<1> QED BY <1>1, <1>2, <1>6, <1>8 DEF OnList, OnDomain, Same

LEMMA DependenciesAre ==
  ASSUME NEW d, "dependencies" \in DOMAIN d, NEW s, NEW t, NEW e, e = WithDependencies(d, s)
  PROVE  e.dependencies = s /\ WithDependencies(e, t) = WithDependencies(d, t)
  BY DEF WithDependencies

LEMMA ReadDependsLines ==
  ASSUME NEW ds, IsSeq(ds), NEW d, "dependencies" \in DOMAIN d, WithDependencies(d, <<>>) = d,
         NEW p, OnList(p, ds, d), NEW s, IsSeq(s), NEW q, q = ThenAll(p, DependsLines(s))
  PROVE  OnList(q, ds, WithDependencies(d, s))
<1>1. PICK n, ls : n = Len(s) /\ ls = DependsLines(s)
  OBVIOUS
<1>2. /\ n \in Nat /\ IsSeq(ls) /\ Len(ls) = n
      /\ \A i \in 1 .. n : ls[i] = [class |-> "depends", name |-> s[i]]
  BY <1>1, DependsSeqLines, SeqFacts
<1>3. PICK g : q = g[n] /\ Steps(g, p, ls)
  BY <1>1, <1>2, StepsOfThen
<1> DEFINE S == {i \in Nat : i <= n => OnList(g[i], ds, WithDependencies(d, First(s, i)))}
<1>4. 0 \in S
  <2>1. First(s, 0) = <<>>
    BY FirstNone
  <2> QED BY <1>3, <2>1 DEF Steps
<1>5. ASSUME NEW i \in Nat, i \in S PROVE i + 1 \in S
  <2> SUFFICES ASSUME i + 1 <= n PROVE OnList(g[i + 1], ds, WithDependencies(d, First(s, i + 1)))
    OBVIOUS
  <2>1. PICK j : j = i + 1
    OBVIOUS
  <2>2. j \in 1 .. n /\ i = j - 1 /\ j - 1 = i /\ i <= n
    BY <1>2, <2>1
  <2>3. PICK e, l, r : e = WithDependencies(d, First(s, i)) /\ l = ls[j] /\ r = g[j]
    OBVIOUS
  <2>4. OnDomain(g[i], ds, e)
    BY <1>5, <2>2, <2>3 DEF OnList
  <2>5. r = Then(g[i], l) /\ l.class = "depends" /\ l.name = s[j]
    BY <1>2, <1>3, <2>2, <2>3 DEF Steps
  <2>6. OnList(r, ds, WithDependencies(e, Append(e.dependencies, l.name)))
    BY <2>4, <2>5, DependsThen
  <2>7. e.dependencies = First(s, i) /\ \A t : WithDependencies(e, t) = WithDependencies(d, t)
    BY <2>3, DependenciesAre
  <2>8. First(s, j) = Append(First(s, i), s[j])
    BY <1>1, <2>2, FirstMore
  <2> QED BY <2>1, <2>3, <2>5, <2>6, <2>7, <2>8
<1> HIDE DEF S
<1>6. n \in S
  BY <1>2, <1>4, <1>5, Numbers
<1>7. First(s, n) = s
  BY <1>1, FirstAll
<1> QED BY <1>2, <1>3, <1>6, <1>7 DEF S

-----------------------------------------------------------------------------
(* A domain that its lines give back.                                      *)
RestoredDomain(d) ==
  WithItems(WithItems(WithItems(WithDependencies(ReadDomainLine(d), d.dependencies),
                                "types", d.types), "commands", d.commands), "events", d.events)

DomainPartsBack(d) ==
  /\ Text(d.desc) /\ IsSeq(d.dependencies)
  /\ \A c \in Items : ItemsWritten(c, d.name, d[ListOf[c]])

DomainBack(d) == DomainPartsBack(d) /\ d = RestoredDomain(d)

ItemListLines(c, ts) == FlattenSeq([i \in 1 .. Len(ts) |-> LinesOfItem(c, ts[i])])

(* A domain whose list is empty. *)
Empty(d, list) == list \in DOMAIN d /\ d[list] = <<>> /\ WithItems(d, list, <<>>) = d

LEMMA EmptyStill ==
  ASSUME NEW d, NEW list \in ItemLists, NEW ts, NEW other, other # list, NEW e, e = WithItems(d, list, ts)
  PROVE  e.name = d.name /\ (Empty(d, other) => Empty(e, other))
<1>1. list # "name"
  BY DEF ItemLists
<1>2. e.name = d.name
  BY <1>1 DEF WithItems
<1>3. ASSUME Empty(d, other) PROVE Empty(e, other)
  <2>1. other \in DOMAIN d /\ d[other] = <<>>
    BY <1>3 DEF Empty
  <2>2. e = [d EXCEPT ![list] = ts]
    BY DEF WithItems
  <2>3. other \in DOMAIN e /\ e[other] = <<>>
    BY <2>1, <2>2
  <2>4. [e EXCEPT ![other] = <<>>] = e
    BY <2>2, <2>3
  <2> QED BY <2>3, <2>4 DEF Empty, WithItems
<1> QED BY <1>2, <1>3

LEMMA ReadItemList ==
  ASSUME NEW c \in Items, NEW list, list = ListOf[c], NEW ds, IsSeq(ds), NEW d, Empty(d, list),
         NEW p, OnList(p, ds, d), NEW ts, ItemsWritten(c, d.name, ts), NEW ls, ls = ItemListLines(c, ts)
  PROVE  OnList(ThenAll(p, ls), ds, WithItems(d, list, ts)) /\ IsSeq(ls)
<1>1. PICK ss : ss = [i \in 1 .. Len(ts) |-> LinesOfItem(c, ts[i])]
  OBVIOUS
<1>2. WithItems(d, list, <<>>) = d /\ list \in DOMAIN d
  BY DEF Empty
<1>3. OnList(p, ds, WithItems(d, list, <<>>))
  BY <1>2
<1>4. OnList(ThenAll(p, FlattenSeq(ss)), ds, WithItems(d, list, ts)) /\ IsSeq(FlattenSeq(ss))
  BY <1>1, <1>2, <1>3, ReadItems
<1>5. ls = FlattenSeq(ss)
  BY <1>1, Zenon DEF ItemListLines
<1> QED BY <1>4, <1>5

LEMMA ThenSeven ==
  ASSUME NEW p, NEW a, NEW b, NEW c, NEW d, NEW e, NEW f, NEW g,
         IsSeq(a), IsSeq(b), IsSeq(c), IsSeq(d), IsSeq(e), IsSeq(f), IsSeq(g)
  PROVE  ThenAll(p, a \o b \o c \o d \o e \o f \o g)
           = ThenAll(ThenAll(ThenAll(ThenAll(ThenAll(ThenAll(ThenAll(p, a), b), c), d), e), f), g)
         /\ IsSeq(a \o b \o c \o d \o e \o f \o g)
<1>1. ThenAll(p, a \o b \o c \o d \o e \o f)
        = ThenAll(ThenAll(ThenAll(ThenAll(ThenAll(ThenAll(p, a), b), c), d), e), f)
      /\ IsSeq(a \o b \o c \o d \o e \o f)
  BY ThenSix
<1>2. ThenAll(p, a \o b \o c \o d \o e \o f \o g) = ThenAll(ThenAll(p, a \o b \o c \o d \o e \o f), g)
  BY <1>1, ThenJoined
<1>3. IsSeq(a \o b \o c \o d \o e \o f \o g)
  BY <1>1, Concat
<1> QED BY <1>1, <1>2, <1>3, Zenon

LEMMA DomainLinesAre ==
  ASSUME NEW d
  PROVE  DomainLines(d) = DescLines(d.desc) \o <<DomainLine(d)>> \o DependsLines(d.dependencies) \o Blank
           \o ItemListLines("type", d.types) \o ItemListLines("command", d.commands)
           \o ItemListLines("event", d.events)
<1>1. \A t : LinesOfItem("type", t) = TypeLines(t)
  BY DEF LinesOfItem
<1>2. \A t : LinesOfItem("command", t) = CommandLines(t)
  BY DEF LinesOfItem
<1>3. \A t : LinesOfItem("event", t) = EventLines(t)
  BY DEF LinesOfItem
<1>4. ItemListLines("type", d.types) = FlattenSeq([i \in 1 .. Len(d.types) |-> TypeLines(d.types[i])])
  BY <1>1, Zenon DEF ItemListLines
<1>5. ItemListLines("command", d.commands)
        = FlattenSeq([i \in 1 .. Len(d.commands) |-> CommandLines(d.commands[i])])
  BY <1>2, Zenon DEF ItemListLines
<1>6. ItemListLines("event", d.events) = FlattenSeq([i \in 1 .. Len(d.events) |-> EventLines(d.events[i])])
  BY <1>3, Zenon DEF ItemListLines
<1> QED BY <1>4, <1>5, <1>6, Zenon DEF DomainLines, DomainLine, DependsLines

LEMMA NewDomainIs ==
  ASSUME NEW l, NEW t, NEW s, NEW e, e = NewDomain(l, t), NEW d, d = WithDependencies(e, s)
  PROVE  /\ "dependencies" \in DOMAIN e /\ WithDependencies(e, <<>>) = e
         /\ d.name = l.name
         /\ Empty(d, "types") /\ Empty(d, "commands") /\ Empty(d, "events")
<1>1. "dependencies" \in DOMAIN e /\ WithDependencies(e, <<>>) = e
  BY DEF NewDomain, WithDependencies
<1>2. d = [name |-> l.name, flags |-> l.flags, desc |-> TrimSpace(t), dependencies |-> s,
           types |-> <<>>, commands |-> <<>>, events |-> <<>>]
  BY DEF NewDomain, WithDependencies
<1>3. Empty(d, "types")
  BY <1>2 DEF Empty, WithItems
<1>4. Empty(d, "commands")
  BY <1>2 DEF Empty, WithItems
<1>5. Empty(d, "events")
  BY <1>2 DEF Empty, WithItems
<1> QED BY <1>1, <1>2, <1>3, <1>4, <1>5

(* The lines of a domain. *)
LEMMA ReadDomainLines ==
  ASSUME NEW ds, IsSeq(ds), NEW p, p.domains = ds, p.desc = <<>>, NEW d, DomainBack(d),
         NEW q, q = ThenAll(p, DomainLines(d))
  PROVE  OnList(q, ds, d) /\ IsSeq(DomainLines(d))
<1>1. PICK a, l, c, b, ts, cs, es :
        /\ a = DescLines(d.desc) /\ l = DomainLine(d) /\ c = DependsLines(d.dependencies) /\ b = Blank
        /\ ts = ItemListLines("type", d.types) /\ cs = ItemListLines("command", d.commands)
        /\ es = ItemListLines("event", d.events)
  OBVIOUS
<1>2. DomainLines(d) = a \o <<l>> \o c \o b \o ts \o cs \o es
  BY <1>1, DomainLinesAre, Zenon
<1>3. /\ Text(d.desc) /\ IsSeq(d.desc) /\ IsSeq(d.dependencies)
      /\ ItemsWritten("type", d.name, d.types) /\ ItemsWritten("command", d.name, d.commands)
      /\ ItemsWritten("event", d.name, d.events)
  BY DEF DomainBack, DomainPartsBack, Text, Items, ListOf
<1>4. IsSeq(a) /\ IsSeq(<<l>>) /\ IsSeq(c) /\ IsSeq(b)
  BY <1>1, <1>3, DescSeqLines, DependsSeqLines, Single DEF Blank
<1>5. PICK p1, p2, p3, p4, p5, p6, p7 :
        /\ p1 = ThenAll(p, a) /\ p2 = Then(p1, l) /\ p3 = ThenAll(p2, c) /\ p4 = ThenAll(p3, b)
        /\ p5 = ThenAll(p4, ts) /\ p6 = ThenAll(p5, cs) /\ p7 = ThenAll(p6, es)
  OBVIOUS
<1>6. PICK e0, e1, e2, e3, e4 :
        /\ e0 = NewDomain(l, d.desc) /\ e1 = WithDependencies(e0, d.dependencies)
        /\ e2 = WithItems(e1, "types", d.types) /\ e3 = WithItems(e2, "commands", d.commands)
        /\ e4 = WithItems(e3, "events", d.events)
  OBVIOUS
<1>7. e4 = d
  BY <1>1, <1>6, Zenon DEF DomainBack, RestoredDomain, ReadDomainLine
<1>8. l.name = d.name /\ l.class = "domain"
  BY <1>1 DEF DomainLine
<1>9. /\ "dependencies" \in DOMAIN e0 /\ WithDependencies(e0, <<>>) = e0 /\ e1.name = d.name
      /\ Empty(e1, "types") /\ Empty(e1, "commands") /\ Empty(e1, "events")
  BY <1>6, <1>8, NewDomainIs
<1>10. "types" \in ItemLists /\ "commands" \in ItemLists /\ "events" \in ItemLists
  BY DEF ItemLists
<1>11. e2.name = d.name /\ Empty(e2, "commands") /\ Empty(e2, "events")
  BY <1>6, <1>9, <1>10, EmptyStill
<1>12. e3.name = d.name /\ Empty(e3, "events")
  BY <1>6, <1>10, <1>11, EmptyStill
<1>13. p1.domains = ds /\ p1.desc = d.desc
  <2>1. Commented(p, p1, d.desc)
    BY <1>1, <1>3, <1>5, ReadDescLines
  <2> QED BY <2>1 DEF Commented
<1>14. OnList(p2, ds, e0)
  BY <1>5, <1>6, <1>8, <1>13, DomainThen
<1>15. OnList(p3, ds, e1)
  BY <1>1, <1>3, <1>5, <1>6, <1>9, <1>14, ReadDependsLines
<1>16. OnList(p4, ds, e1)
  <2>1. PICK x : x = [class |-> "blank"]
    OBVIOUS
  <2>2. p4 = Then(p3, x) /\ x.class = "blank"
    <3>1. ThenAll(p3, <<x>>) = Then(p3, x)
      BY ThenOne
    <3> QED BY <1>1, <1>5, <2>1, <3>1 DEF Blank
  <2>3. p4.domains = p3.domains /\ Same(p3, p4)
    BY <2>2, BlankThen
  <2> QED BY <1>15, <2>3 DEF OnList, OnDomain, Same
<1>17. OnList(p5, ds, e2) /\ IsSeq(ts)
  <2>1. "type" \in Items /\ "types" = ListOf["type"]
    BY DEF Items, ListOf
  <2>2. ItemsWritten("type", e1.name, d.types)
    BY <1>3, <1>9
  <2> QED BY <1>1, <1>5, <1>6, <1>9, <1>16, <2>1, <2>2, ReadItemList
<1>18. OnList(p6, ds, e3) /\ IsSeq(cs)
  <2>1. "command" \in Items /\ "commands" = ListOf["command"]
    BY DEF Items, ListOf
  <2>2. ItemsWritten("command", e2.name, d.commands)
    BY <1>3, <1>11
  <2> QED BY <1>1, <1>5, <1>6, <1>11, <1>17, <2>1, <2>2, ReadItemList
<1>19. OnList(p7, ds, e4) /\ IsSeq(es)
  <2>1. "event" \in Items /\ "events" = ListOf["event"]
    BY DEF Items, ListOf
  <2>2. ItemsWritten("event", e3.name, d.events)
    BY <1>3, <1>12
  <2> QED BY <1>1, <1>5, <1>6, <1>12, <1>18, <2>1, <2>2, ReadItemList
<1>20. q = p7 /\ IsSeq(DomainLines(d))
  <2>1. ThenAll(p, a \o <<l>> \o c \o b \o ts \o cs \o es)
          = ThenAll(ThenAll(ThenAll(ThenAll(ThenAll(ThenAll(ThenAll(p, a), <<l>>), c), b), ts), cs), es)
        /\ IsSeq(a \o <<l>> \o c \o b \o ts \o cs \o es)
    BY <1>4, <1>17, <1>18, <1>19, ThenSeven
  <2>2. ThenAll(p1, <<l>>) = p2
    BY <1>5, ThenOne
  <2> QED BY <1>2, <1>5, <2>1, <2>2, Zenon
<1> QED BY <1>7, <1>19, <1>20

-----------------------------------------------------------------------------
(* The domains, one after another. *)
LEMMA ReadDomains ==
  ASSUME NEW ds, IsSeq(ds), \A i \in 1 .. Len(ds) : DomainBack(ds[i]), NEW p, p.domains = <<>>, p.desc = <<>>,
         NEW ss, ss = [i \in 1 .. Len(ds) |-> DomainLines(ds[i])], NEW q, q = ThenAll(p, FlattenSeq(ss))
  PROVE  q.domains = ds /\ IsSeq(FlattenSeq(ss))
<1>1. PICK n \in Nat : n = Len(ds)
  BY SeqFacts
<1>2. IsSeq(ss) /\ Len(ss) = n /\ \A i \in 1 .. n : ss[i] = DomainLines(ds[i])
  <2>1. \A i \in 1 .. n : ss[i] = DomainLines(ds[i])
    BY <1>1
  <2>2. ss = [i \in 1 .. n |-> ss[i]]
    BY <1>1
  <2> QED BY <2>1, <2>2, SeqFunction
<1> DEFINE Good(r, i) == r.domains = First(ds, i) /\ r.desc = <<>>
<1>3. ASSUME NEW i \in 1 .. n, NEW j, j = i - 1, NEW r, Good(r, j)
      PROVE  Good(ThenAll(r, ss[i]), i) /\ IsSeq(ss[i])
  <2>1. j \in 0 .. n /\ i \in 1 .. Len(ds) /\ j \in 0 .. Len(ds)
    BY <1>1, <1>3
  <2>2. PICK es, d, u : es = First(ds, j) /\ d = ds[i] /\ u = ThenAll(r, DomainLines(d))
    OBVIOUS
  <2>3. IsSeq(es) /\ DomainBack(d) /\ r.domains = es /\ r.desc = <<>>
    BY <1>3, <2>1, <2>2, FirstSeq
  <2>4. OnList(u, es, d) /\ IsSeq(DomainLines(d))
    BY <2>2, <2>3, ReadDomainLines
  <2>5. First(ds, i) = Append(First(ds, j), ds[i])
    BY <1>3, <2>1, FirstMore
  <2>6. u.domains = First(ds, i) /\ u.desc = <<>>
    BY <2>2, <2>4, <2>5 DEF OnList, OnDomain
  <2>7. ss[i] = DomainLines(d)
    BY <1>2, <2>2
  <2> QED BY <2>2, <2>4, <2>6, <2>7
<1>4. \A i \in 1 .. Len(ss) : IsSeq(ss[i])
  <2>1. ASSUME NEW i \in 1 .. n PROVE IsSeq(ss[i])
    <3>1. PICK es, d, r, u, j : es = First(ds, j) /\ j = i - 1 /\ d = ds[i] /\ r = [domains |-> es, desc |-> <<>>]
                          /\ u = ThenAll(r, DomainLines(d))
      OBVIOUS
    <3>2. r.domains = First(ds, j) /\ r.desc = <<>>
      BY <3>1
    <3> QED BY <1>3, <3>1, <3>2
  <2> QED BY <1>2, <2>1
<1>5. IsSeq(FlattenSeq(ss))
  BY <1>2, <1>4, FlattenPlaces
<1>6. PICK g : Stages(g, p, ss)
  BY <1>2, <1>4, ThenFlat
<1> DEFINE S == {i \in Nat : i <= n => Good(g[i], i)}
<1>7. 0 \in S
  <2>1. First(ds, 0) = <<>>
    BY FirstNone
  <2> QED BY <1>6, <2>1 DEF Stages
<1>8. ASSUME NEW i \in Nat, i \in S PROVE i + 1 \in S
  <2> SUFFICES ASSUME i + 1 <= n PROVE Good(g[i + 1], i + 1)
    OBVIOUS
  <2>1. PICK j : j = i + 1
    OBVIOUS
  <2>2. j \in 1 .. n /\ i = j - 1 /\ j - 1 = i /\ Good(g[i], i)
    BY <1>8, <2>1
  <2>3. g[j] = ThenAll(g[i], ss[j])
    BY <1>2, <1>6, <2>2 DEF Stages
  <2>4. Good(ThenAll(g[i], ss[j]), j)
    BY <1>3, <2>2
  <2> QED BY <2>1, <2>3, <2>4
<1> HIDE DEF S
<1>9. n \in S
  BY <1>7, <1>8, Numbers
<1>10. g[n].domains = First(ds, n)
  BY <1>9 DEF S
<1>11. First(ds, n) = ds
  BY <1>1, FirstAll
<1> QED BY <1>2, <1>5, <1>6, <1>10, <1>11 DEF Stages

-----------------------------------------------------------------------------
(* The copyright and the version stay as they are below the header.        *)
Below(p, q) == q.head = TRUE /\ q.copyright = p.copyright /\ q.version = p.version

LEMMA ThenBelow ==
  ASSUME NEW p, p.head = TRUE, NEW l, l.class \notin VersionLines, NEW q, q = Then(p, l)
  PROVE  Below(p, q)
<1>1. q.head = (IF l.class = "comment" THEN p.head ELSE TRUE)
      /\ q.copyright = (IF p.head \/ l.class = "comment" THEN p.copyright ELSE p.desc)
      /\ q.version = VersionThen(p, l)
  BY ThenField, Zenon
<1>2. VersionThen(p, l) = p.version
  BY ThenVersion
<1> QED BY <1>1, <1>2 DEF Below

LEMMA ThenAllBelow ==
  ASSUME NEW p, p.head = TRUE, NEW ls, NoVersion(ls), NEW q, q = ThenAll(p, ls)
  PROVE  Below(p, q)
<1>1. PICK n \in Nat : n = Len(ls)
  BY SeqFacts DEF NoVersion
<1>2. IsSeq(ls) /\ \A i \in 1 .. n : ls[i].class \notin VersionLines
  BY <1>1 DEF NoVersion
<1>3. PICK g : q = g[n] /\ Steps(g, p, ls)
  BY <1>1, <1>2, StepsOfThen
<1> DEFINE S == {i \in Nat : i <= n => Below(p, g[i])}
<1>4. 0 \in S
  BY <1>3 DEF Steps, Below
<1>5. ASSUME NEW i \in Nat, i \in S PROVE i + 1 \in S
  <2> SUFFICES ASSUME i + 1 <= n PROVE Below(p, g[i + 1])
    OBVIOUS
  <2>1. PICK j, r, u : j = i + 1 /\ r = g[i] /\ u = g[j]
    OBVIOUS
  <2>2. j \in 1 .. n /\ j - 1 = i /\ Below(p, r)
    BY <1>5, <2>1
  <2>3. u = Then(r, ls[j])
    BY <1>1, <1>3, <2>1, <2>2 DEF Steps
  <2>4. Below(r, u)
    BY <1>2, <2>2, <2>3, ThenBelow DEF Below
  <2> QED BY <2>1, <2>2, <2>4 DEF Below
<1> HIDE DEF S
<1>6. n \in S
  BY <1>4, <1>5, Numbers
<1> QED BY <1>3, <1>6 DEF S

(* The lines above the domains.                                            *)
Headed(p, l, q) ==
  /\ q.head = TRUE /\ q.domains = p.domains /\ q.desc = <<>> /\ q.version = VersionThen(p, l)
  /\ q.copyright = IF p.head THEN p.copyright ELSE p.desc

LEMMA HeadThen ==
  ASSUME NEW p, NEW l, l.class \in {"blank"} \cup VersionLines, NEW q, q = Then(p, l)
  PROVE  Headed(p, l, q)
<1>1. l.class \notin Items \cup {"domain", "comment"} /\ l.class # "comment"
  BY DEF Items, VersionLines
<1>2. q.domains = p.domains
  <2>1. DomainsThen(p, l) = p.domains
    BY ThenDomains
  <2> QED BY <2>1, ThenDomainsField
<1>3. q.desc = <<>> /\ q.head = TRUE
  BY <1>1, ThenSame DEF Same
<1>4. q.version = VersionThen(p, l)
  BY DEF Then
<1>5. q.copyright = (IF p.head \/ l.class = "comment" THEN p.copyright ELSE p.desc)
  BY DEF Then
<1>6. q.copyright = IF p.head THEN p.copyright ELSE p.desc
  BY <1>1, <1>5
<1> QED BY <1>2, <1>3, <1>4, <1>6 DEF Headed

Fresh(p) == p.head = FALSE /\ p.domains = <<>> /\ p.desc = <<>>

LEMMA ReadHeader ==
  ASSUME NEW d, Text(d.copyright), d.version \in Nat \X Nat, NEW p, Fresh(p), NEW q, q = ThenAll(p, HeaderLines(d))
  PROVE  /\ q.head = TRUE /\ q.copyright = d.copyright /\ q.version = d.version
         /\ q.domains = <<>> /\ q.desc = <<>> /\ IsSeq(HeaderLines(d))
<1>1. PICK c, b, v, x, y, z :
        /\ c = (IF d.copyright = <<>> THEN <<>> ELSE DescLines(d.copyright) \o Blank)
        /\ b = [class |-> "blank"] /\ v = d.version
        /\ x = [class |-> "version"] /\ y = [class |-> "major", number |-> v[1]]
        /\ z = [class |-> "minor", number |-> v[2]]
  OBVIOUS
<1>2. v # <<>> /\ v = <<v[1], v[2]>>
  BY <1>1, NoPairEmpty
<1>3. HeaderLines(d) = c \o (<<x, y, z>> \o <<b>>)
  BY <1>1, <1>2 DEF HeaderLines, Blank
<1>4. IsSeq(d.copyright) /\ IsSeq(DescLines(d.copyright)) /\ IsSeq(<<b>>)
  BY DescSeqLines, Single DEF Text
<1>5. IsSeq(c)
  <2>1. IsSeq(DescLines(d.copyright) \o <<b>>)
    BY <1>4, Concat
  <2> QED BY <1>1, <2>1, NoElements DEF Blank
<1>6. PICK p1 : p1 = ThenAll(p, c)
  OBVIOUS
<1>7. /\ p1.domains = <<>> /\ p1.desc = <<>>
      /\ d.copyright = IF p1.head THEN p1.copyright ELSE p1.desc
  <2>1. CASE d.copyright = <<>>
    <3>1. c = <<>>
      BY <1>1, <2>1
    <3>2. p1 = p
      BY <1>6, <3>1, ThenNone
    <3> QED BY <2>1, <3>2 DEF Fresh
  <2>2. CASE d.copyright # <<>>
    <3>1. PICK r, u : r = ThenAll(p, DescLines(d.copyright)) /\ u = Then(r, b)
      OBVIOUS
    <3>2. p1 = u
      <4>1. c = DescLines(d.copyright) \o <<b>>
        BY <1>1, <2>2 DEF Blank
      <4>2. ThenAll(p, DescLines(d.copyright) \o <<b>>) = ThenAll(ThenAll(p, DescLines(d.copyright)), <<b>>)
        BY <1>4, ThenJoined
      <4>3. ThenAll(r, <<b>>) = Then(r, b)
        BY ThenOne
      <4> QED BY <1>6, <3>1, <4>1, <4>2, <4>3, Zenon
    <3>3. Commented(p, r, d.copyright)
      BY <3>1, ReadDescLines DEF Fresh
    <3>4. r.head = FALSE /\ r.desc = d.copyright /\ r.domains = <<>>
      BY <3>3 DEF Commented, Fresh
    <3>5. b.class \in {"blank"} \cup VersionLines
      BY <1>1
    <3>6. Headed(r, b, u)
      BY <3>1, <3>5, HeadThen
    <3> QED BY <3>2, <3>4, <3>6 DEF Headed
  <2> QED BY <2>1, <2>2
<1>8. PICK p2, p3, p4, p5 : p2 = Then(p1, x) /\ p3 = Then(p2, y) /\ p4 = Then(p3, z) /\ p5 = Then(p4, b)
  OBVIOUS
<1>9. q = p5 /\ IsSeq(HeaderLines(d))
  <2>1. PICK w : w = <<x, y, z>>
    OBVIOUS
  <2>2. IsSeq(w) /\ Len(w) = 3 /\ w[1] = x /\ w[2] = y /\ w[3] = z
    <3>1. Len(w) = 3 /\ w[1] = x /\ w[2] = y /\ w[3] = z /\ w = [i \in 1 .. 3 |-> w[i]]
      BY <2>1
    <3> QED BY <3>1, SeqFunction
  <2>3. PICK g : ThenAll(p1, w) = g[Len(w)] /\ Steps(g, p1, w)
    BY <2>2, StepsOfThen
  <2>4. g[0] = p1 /\ \A i \in 1 .. 3 : g[i] = Then(g[i - 1], w[i])
    BY <2>2, <2>3 DEF Steps
  <2>5. g[1] = p2 /\ g[2] = p3 /\ g[3] = p4
    <3>1. g[1] = Then(g[0], w[1]) /\ g[2] = Then(g[1], w[2]) /\ g[3] = Then(g[2], w[3])
      BY <2>4
    <3> QED BY <1>8, <2>2, <2>4, <3>1, Zenon
  <2>6. ThenAll(p1, w) = p4
    BY <2>2, <2>3, <2>5
  <2>7. ThenAll(p4, <<b>>) = p5
    BY <1>8, ThenOne
  <2>8. IsSeq(w \o <<b>>) /\ ThenAll(p1, w \o <<b>>) = ThenAll(ThenAll(p1, w), <<b>>)
    BY <1>4, <2>2, Concat, ThenJoined
  <2>9. IsSeq(c \o (w \o <<b>>)) /\ ThenAll(p, c \o (w \o <<b>>)) = ThenAll(ThenAll(p, c), w \o <<b>>)
    BY <1>5, <2>8, Concat, ThenJoined
  <2> QED BY <1>3, <1>6, <2>1, <2>6, <2>7, <2>8, <2>9, Zenon
<1>10. x.class = "version" /\ y.class = "major" /\ z.class = "minor" /\ b.class = "blank"
       /\ y.number = v[1] /\ z.number = v[2]
  BY <1>1
<1>11. p2.head = TRUE /\ p2.domains = <<>> /\ p2.copyright = d.copyright /\ p2.version = <<0, 0>>
  <2>1. VersionThen(p1, x) = <<0, 0>>
    BY <1>10 DEF VersionThen
  <2>2. x.class \in {"blank"} \cup VersionLines
    BY <1>10 DEF VersionLines
  <2>3. Headed(p1, x, p2)
    BY <1>8, <2>2, HeadThen
  <2> QED BY <1>7, <2>1, <2>3 DEF Headed
<1>12. p3.head = TRUE /\ p3.domains = <<>> /\ p3.copyright = d.copyright /\ p3.version = <<v[1], 0>>
  <2>1. VersionThen(p2, y) = <<v[1], 0>>
    BY <1>10, <1>11 DEF VersionThen
  <2>2. y.class \in {"blank"} \cup VersionLines
    BY <1>10 DEF VersionLines
  <2>3. Headed(p2, y, p3)
    BY <1>8, <2>2, HeadThen
  <2> QED BY <1>11, <2>1, <2>3 DEF Headed
<1>13. p4.head = TRUE /\ p4.domains = <<>> /\ p4.copyright = d.copyright /\ p4.version = <<v[1], v[2]>>
  <2>1. VersionThen(p3, z) = <<v[1], v[2]>>
    BY <1>10, <1>12 DEF VersionThen
  <2>2. z.class \in {"blank"} \cup VersionLines
    BY <1>10 DEF VersionLines
  <2>3. Headed(p3, z, p4)
    BY <1>8, <2>2, HeadThen
  <2> QED BY <1>12, <2>1, <2>3 DEF Headed
<1>14. /\ p5.head = TRUE /\ p5.domains = <<>> /\ p5.copyright = d.copyright /\ p5.version = <<v[1], v[2]>>
       /\ p5.desc = <<>>
  <2>1. VersionThen(p4, b) = p4.version
    BY <1>10, ThenVersion DEF VersionLines
  <2>2. b.class \in {"blank"} \cup VersionLines
    BY <1>10
  <2>3. Headed(p4, b, p5)
    BY <1>8, <2>2, HeadThen
  <2> QED BY <1>13, <2>1, <2>3 DEF Headed
<1> QED BY <1>1, <1>2, <1>9, <1>14

(* The lines of a document, read from the start, give it back.             *)
LEMMA ReadDocument ==
  ASSUME NEW d, Text(d.copyright), d.version \in Nat \X Nat,
         NEW ds, IsSeq(ds), \A i \in 1 .. Len(ds) : DomainBack(ds[i]),
         NEW f, f = FlattenSeq([i \in 1 .. Len(ds) |-> DomainLines(ds[i])]), NoVersion(f),
         NEW p, Fresh(p), NEW q, q = ThenAll(p, HeaderLines(d) \o f)
  PROVE  q.copyright = d.copyright /\ q.version = d.version /\ q.domains = ds
<1>1. PICK h, r, ss : h = HeaderLines(d) /\ r = ThenAll(p, h) /\ ss = [i \in 1 .. Len(ds) |-> DomainLines(ds[i])]
  OBVIOUS
<1>2. /\ r.head = TRUE /\ r.copyright = d.copyright /\ r.version = d.version
      /\ r.domains = <<>> /\ r.desc = <<>> /\ IsSeq(h)
  BY <1>1, ReadHeader
<1>3. f = FlattenSeq(ss)
  BY <1>1
<1>4. IsSeq(f)
  BY DEF NoVersion
<1>5. q = ThenAll(r, f)
  <2>1. ThenAll(p, h \o f) = ThenAll(ThenAll(p, h), f)
    BY <1>2, <1>4, ThenJoined
  <2> QED BY <1>1, <2>1, Zenon
<1>6. q.domains = ds
  BY <1>1, <1>2, <1>3, <1>5, ReadDomains
<1>7. Below(r, q)
  BY <1>2, <1>5, ThenAllBelow
<1> QED BY <1>2, <1>6, <1>7 DEF Below

=============================================================================
