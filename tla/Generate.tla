------------------------------ MODULE Generate ------------------------------
(***************************************************************************)
(* From the protocol to the Go files (run, main.go; NewGoGenerator,        *)
(* gen/gogen.go): the domains are cleaned, then fixed, and then the files  *)
(* of the shared package, of the root package and of each domain are       *)
(* generated.  A reference that cannot be resolved makes the tool panic.   *)
(*                                                                         *)
(* Of a Go file the model keeps the declarations, and of a declaration     *)
(* the Go types that its members use.                                      *)
(***************************************************************************)
EXTENDS Reading

CONSTANT Protocols  \* the protocols, sequences of domains, that may be given

ASSUME GenerateConstants == \A p \in Protocols : WellFormed(p)

VARIABLES
  source,   \* the domains of the protocol
  step,     \* what run is doing
  at,       \* the domain it is doing it to
  domains,  \* the domains that are processed, as they are changed
  files     \* fileBuffers: the declarations in each file

vars == <<source, step, at, domains, files>>

Init ==
  /\ source \in Protocols
  /\ step = "clean"
  /\ at = 1
  /\ domains = <<>>
  /\ files = [p \in {} |-> <<>>]

-----------------------------------------------------------------------------
(* Names of Go types. *)

TypesOf(dom) ==
  LET i == SelectInSeq(domains, LAMBDA d : d.name = dom) IN IF i = 0 THEN <<>> ELSE domains[i].types

Shared == Filter(FlattenSeq(MapSeq(domains, LAMBDA d : d.types)), LAMBDA t : t.circular)

(* Faulty variant of ResolveRef: the domain in front of a name is ignored    *)
(* when there is a type of that name close by.                              *)
ResolveRefClose(ref, d) ==
  LET dtyp == IF SelectInSeq(TypesOf(d), LAMBDA j : j.raw = <<d, ref[2]>>) # 0 THEN d ELSE ref[1]
  IN  Filter(IF dtyp = "" THEN (IF d = "cdp" THEN Shared ELSE <<>>) ELSE TypesOf(dtyp),
                LAMBDA j : j.raw[2] = ref[2])

(* ResolveRef: the types that ref may mean in domain d, of which the first  *)
(* is taken.  In the shared package a plain name is a name of any domain.   *)
ResolveRef(ref, d) ==
  LET dtyp == IF ref[1] = "" THEN d ELSE ref[1]
  IN  Filter(IF dtyp = "cdp" THEN Shared ELSE TypesOf(dtyp),
                LAMBDA j : IF dtyp = "cdp" THEN j.raw[2] = ref[2] ELSE j.raw = <<dtyp, ref[2]>>)

(* Faulty variant of GoPackage: shared types stay with their domains inside *)
(* the shared package.                                                      *)
GoPackageApart(t, d) == IF t.circular /\ d # "cdp" THEN "cdp" ELSE t.raw[1]

(* Faulty variant of GoPackage: a shared type is local to its own domain.    *)
GoPackageOwn(t, d) == IF t.circular /\ d # t.raw[1] THEN "cdp" ELSE t.raw[1]

GoPackage(t, d) == IF t.circular THEN "cdp" ELSE t.raw[1]

GoTypeName(t) == t.name

(* ResolveType for the reference of a member f of an item of domain d.     *)
Use(f, d) ==
  LET t == ResolveRef(f.ref, d)[1]
  IN  [field |-> f.name, pkg |-> GoPackage(t, d), name |-> GoTypeName(t)]

Resolves(ref, d) == ref = <<>> \/ ResolveRef(ref, d) # <<>>

-----------------------------------------------------------------------------
(* Declarations. *)

(* GoTypeDef: the members of the struct that defines t in domain d.  An    *)
(* array type is defined by what its items are, not by their name.          *)
StructFields(t, d) ==
  IF ~t.array THEN IF t.kind = "type" /\ t.typ # "object" THEN <<>> ELSE t.fields
  ELSE IF t.ref = <<>> THEN <<>>
  ELSE LET o == ResolveRef(t.ref, d)[1] IN IF o.typ = "object" THEN o.fields ELSE <<>>

(* A type cannot be generated: ResolveRef panics. *)
Panics(t, d) ==
  \/ ~Resolves(t.ref, d)
  \/ \E f \in ToSet(StructFields(t, d) \o t.returns) : ~f.hidden /\ ~Resolves(f.ref, d)

Declare(t, name, fields, d) ==
  [name |-> name, raw |-> t.raw, kind |-> t.kind,
   uses |-> {Use(f, d) : f \in {g \in ToSet(fields) : ~g.hidden /\ g.ref # <<>>}}]

(* TypeTemplate for types and events. *)
TypeDecl(t, d) ==
  Declare(t, IF t.kind = "event" THEN <<"Event">> \o GoTypeName(t) ELSE GoTypeName(t),
          StructFields(t, d), d)

(* CommandTemplate: the parameters, the function, the returned values. *)
CommandDecls(c, d) ==
  <<Declare(c, GoTypeName(c) \o <<"Params">>, c.fields, d), Declare(c, GoTypeName(c), c.fields, d)>>
    \o (IF c.returns = <<>> THEN <<>> ELSE <<Declare(c, GoTypeName(c) \o <<"Returns">>, c.returns, d)>>)

TypeDecls(ts, d) == MapSeq(ts, LAMBDA t : TypeDecl(t, d))

(* fileBuffers.get, and what the templates stream into the buffer. *)
Streamed(fs, path, decls) ==
  [p \in DOMAIN fs \cup {path} |->
     (IF p \in DOMAIN fs THEN fs[p] ELSE <<>>) \o (IF p = path THEN decls ELSE <<>>)]

-----------------------------------------------------------------------------
(* The steps of run. *)

Goto(s) == step' = s /\ at' = 1

(* One domain of the loop that decides what to process. *)
CleanDomain ==
  /\ step = "clean"
  /\ domains' = IF source[at].deprecated THEN domains ELSE Append(domains, Cleaned(source[at]))
  /\ IF at < Len(source) THEN at' = at + 1 /\ UNCHANGED step ELSE Goto("fix")
  /\ UNCHANGED <<source, files>>

(* One domain of the loop of FixDomains. *)
FixDomain ==
  /\ step = "fix" /\ at <= Len(domains)
  /\ domains' = [domains EXCEPT ![at] = Fixed(domains[at])]
  /\ at' = at + 1
  /\ UNCHANGED <<source, step, files>>

(* generateSharedTypes. *)
GenerateSharedTypes ==
  /\ step = "fix" /\ at > Len(domains)
  /\ IF \E t \in ToSet(Shared) : Panics(t, "cdp")
       THEN Goto("panic") /\ UNCHANGED files
       ELSE /\ Goto("root")
            /\ files' = Streamed(files, <<"cdp", "types">>, TypeDecls(Shared, "cdp"))
  /\ UNCHANGED <<source, domains>>

(* generateRootPackage: the Message has the id of a session of Target. *)
RootType ==
  Item("cdproto", "type", <<"Message">>, "object", FALSE, <<>>, <<>>,
       <<Field("cdproto", <<"session", "Id">>, "", FALSE, <<"Target", <<"Session", "Id">>>>, <<>>)>>,
       <<>>)

GenerateRootPackage ==
  /\ step = "root"
  /\ IF Panics(RootType, "cdproto")
       THEN Goto("panic") /\ UNCHANGED files
       ELSE /\ Goto(IF domains = <<>> THEN "done" ELSE "domain")
            /\ files' = Streamed(files, <<"cdproto", "cdproto">>, <<TypeDecl(RootType, "cdproto")>>)
  /\ UNCHANGED <<source, domains>>

(* Faulty variant of OwnTypes: shared types are generated here as well. *)
AllTypes(ts) == ts

(* generateTypes leaves the shared types out. *)
OwnTypes(ts) == Filter(ts, LAMBDA t : ~t.circular)

(* The files of a domain. *)
Generated(d) ==
  LET cs == Streamed(files, <<d.name, d.name>>, FlattenSeq(MapSeq(d.commands, LAMBDA c : CommandDecls(c, d.name))))
      ts == IF d.types = <<>> THEN cs ELSE Streamed(cs, <<d.name, "types">>, TypeDecls(OwnTypes(d.types), d.name))
  IN  IF d.events = <<>> THEN ts ELSE Streamed(ts, <<d.name, "events">>, TypeDecls(OwnTypes(d.events), d.name))

(* One domain of the loop of NewGoGenerator. *)
GenerateDomain ==
  /\ step = "domain"
  /\ LET d == domains[at]
     IN  IF \E t \in ToSet(d.commands \o OwnTypes(d.types) \o OwnTypes(d.events)) : Panics(t, d.name)
           THEN Goto("panic") /\ UNCHANGED files
           ELSE /\ files' = Generated(d)
                /\ IF at < Len(domains) THEN at' = at + 1 /\ UNCHANGED step ELSE Goto("done")
  /\ UNCHANGED <<source, domains>>

Next ==
  CleanDomain \/ FixDomain \/ GenerateSharedTypes \/ GenerateRootPackage \/ GenerateDomain

Spec == Init /\ [][Next]_vars

-----------------------------------------------------------------------------
(* Properties. *)

Declarations == UNION {{[path |-> p, decl |-> files[p][i]] : i \in 1 .. Len(files[p])} : p \in DOMAIN files}

(* The types that a Go package declares under a name. *)
DeclaredAs(pkg, name) ==
  {x.decl : x \in {y \in Declarations : /\ y.path[1] = pkg
                                        /\ y.decl.name = name /\ y.decl.kind = "type"}}

(* The steps are in their order, and after FixDomains a member has either a *)
(* type or a reference, and no enum of its own.                             *)
TypeOK ==
  /\ step \in {"clean", "fix", "root", "domain", "done", "panic"}
  /\ at \in 1 .. Len(source) + 1
  /\ Len(domains) <= Len(source)
  /\ \A i \in 1 .. Len(domains) : step = "clean" \/ (step = "fix" /\ i >= at) \/
       \A t \in ToSet(domains[i].types \o domains[i].commands \o domains[i].events) :
         \A f \in ToSet(t.fields \o t.returns) :
           f.enum = <<>> /\ ~f.deprecated /\ (f.hidden \/ (f.typ = "" <=> f.ref # <<>>))

(* Something live refers to what is not there, or is deprecated.  The items *)
(* of an array type count with it, read in its domain (util.go:219).        *)
Dangling(p) ==
  \E t \in LiveItems(p) :
    \/ t.array /\ t.ref # <<>> /\ Targets(p, t, t.ref) = {}
    \/ \E u \in Holders(p, t) : \E f \in Members(u) :
         ~Rewritten(u, f) /\ f.ref # <<>> /\ Targets(p, t, f.ref) = {}

(* The tool itself refers to what is not there: the Message of the root     *)
(* package to Target.SessionID, or a member that FixDomains has rewritten   *)
(* to a type that its place in the protocol does not have.                  *)
InVain(p) ==
  \/ <<"Target", <<"Session", "Id">>>> \notin TypesThere(p)
  \/ \E t \in LiveItems(p) : \E u \in Holders(p, t) : \E f \in Members(u) :
       Rewritten(u, f) /\ LookedUp(u, f) # <<>> /\ Targets(p, t, LookedUp(u, f)) = {}

(* The tool panics (ResolveRef, gen/gotpl/util.go) exactly when a reference *)
(* of the protocol dangles, or one of those that FixDomains and the root    *)
(* package add is in vain: what cleaning, renaming and sharing have moved   *)
(* is always found.  That modifiers can be such a reference in vain is not  *)
(* what fixup.go promises: ModifiersOfInput.                                *)
PanicsOnDangling ==
  step \in {"done", "panic"} => (step = "panic" <=> Dangling(source) \/ InVain(source))

(* Every Go type that is used is declared in the package it is used from:   *)
(* the generated files find each other (gofmt and go build would not).      *)
Compiles ==
  step = "done" =>
    \A x \in Declarations : \A u \in x.decl.uses : DeclaredAs(u.pkg, u.name) # {}

(* Every type of the protocol is declared once, in the shared package if it *)
(* is one of the circular ones and in that of its domain otherwise.         *)
DeclaredOnce ==
  step = "done" =>
    \A r \in TypesThere(source) :
      LET in(p) == {i \in DOMAIN files[p] : files[p][i].raw = r /\ files[p][i].kind = "type"}
          ds == UNION {{<<p, i>> : i \in in(p)} : p \in DOMAIN files}
      IN  /\ Cardinality(ds) = 1
          /\ \A x \in ds : x[1][1] = IF r \in SharedThere(source) THEN "cdp" ELSE r[1]

(* Each member refers in Go to the type that the protocol, with what        *)
(* FixDomains promises, names there, through all renamings and moves.       *)
(* Left out are members called modifiers in other domains than Input, whose *)
(* promise is not kept: ModifiersOfInput.                                   *)
RefersAsWritten ==
  step = "done" =>
    \A t \in {u \in LiveItems(source) : ~u.array} : \A f \in {g \in Members(t) : Named(t, g) # <<>>} :
      (IsModifiers(f) => t.raw[1] = "Input") /\ Meaning(t, Named(t, f)) \in TypesThere(source) =>
        \E x \in Declarations : \E u \in x.decl.uses :
          /\ x.decl.raw = t.raw /\ u.field = f.name
          /\ \E e \in DeclaredAs(u.pkg, u.name) : e.raw = Meaning(t, Named(t, f))

(* The shared package uses no other, which all use it, as long as the types *)
(* of the list in pdl/dep.go only refer to each other.                      *)
SharedImportsNothing ==
  step = "done" /\ (\A t \in LiveItems(source) : IsShared(source, t) =>
                      \A ref \in Asked(source, t) : Meaning(t, ref) \in SharedThere(source)) =>
    \A x \in Declarations : x.path[1] = "cdp" => \A u \in x.decl.uses : u.pkg = "cdp"

(* The type made of enums has all the values of every member that uses it,  *)
(* and of the type that had its name, each once.                            *)
EnumsWhole ==
  step = "done" =>
    \A e \in Enums(source) : \E t \in ToSet(TypesOf(e.raw[1])) :
      /\ t.raw = e.raw
      /\ ToSet(t.enum[1]) = ValuesOf(source, e.raw)
      /\ Len(t.enum[1]) = Cardinality(ValuesOf(source, e.raw))

(* "change any object property named `modifiers` to type `Input.Modifier`"  *)
(* (fixup/fixup.go:17): in a protocol that has Input and Target, and in     *)
(* which nothing dangles, each of them is an Input.Modifier in Go.          *)
ModifiersOfInput ==
  /\ step \in {"done", "panic"} /\ ~Dangling(source)
  /\ {<<"Input", <<"Modifier">>>>, <<"Target", <<"Session", "Id">>>>} \subseteq TypesThere(source)
  => \A t \in LiveItems(source) : \A f \in {g \in Members(t) : IsModifiers(g)} :
       \E x \in Declarations : \E u \in x.decl.uses :
         /\ x.decl.raw = t.raw /\ u.field = f.name
         /\ \E e \in DeclaredAs(u.pkg, u.name) : e.raw = <<"Input", <<"Modifier">>>>

=============================================================================
