------------------------------- MODULE Fixup -------------------------------
(***************************************************************************)
(* What happens to a protocol between the parser and the generator: the    *)
(* removal of what is deprecated (cleanupTypes, main.go) and the changes   *)
(* of FixDomains (fixup/fixup.go), of which the extraction of enums into   *)
(* types of their own is the central one.                                  *)
(*                                                                         *)
(* A name is the sequence of its words: NodeId is <<"Node", "Id">>.  This   *)
(* is what snaker's conversions keep of a name and what prefixes are taken  *)
(* off; where the code compares without regard to case, one spelling stands *)
(* for all.  Descriptions, links, JSON tags and extra Go text are left out.    *)
(***************************************************************************)
EXTENDS Naturals, SequencesExt, Lists

CONSTANTS
  Words,         \* what names, types and the values of enums are written with
  CircularDeps,  \* circularDeps: the types that go to the shared package
  EnumRefMap     \* enumRefMap: names of enum types, by domain, item and member

Names == Seq(Words)

ASSUME FixupWords ==
  /\ {"", "DOM", "Node", "Type", "Element", "Text", "Modifier", "None", "Alt", "Detach", "Reason",
      "target_closed", "Parent", "Invalidated", "State", "Root", "Nodes", "Frame", "Id", "Computed",
      "Property", "Gesture", "integer", "string", "timestamp", "map"} \subseteq Words
  /\ \A x \in DOMAIN EnumRefMap : EnumRefMap[x] \in Names

(* A raw name: the domain and the name there. *)
IsCircularDep(raw) == raw \in CircularDeps

(* What parsing gives.  ref is <<>> or <<domain or "", name>>; enum is <<>>  *)
(* (nil) or a sequence with the values; array tells that typ and ref are    *)
(* those of the items; hidden members have Go text instead of a type.       *)
Field(dom, name, typ, array, ref, enum) ==
  [name |-> name, typ |-> typ, array |-> array, ref |-> ref, enum |-> enum,
   deprecated |-> FALSE, hidden |-> FALSE, circular |-> IsCircularDep(<<dom, name>>)]

Item(dom, kind, name, typ, array, ref, enum, fields, returns) ==
  [raw |-> <<dom, name>>, kind |-> kind, name |-> name, typ |-> typ, array |-> array,
   ref |-> ref, enum |-> enum, circular |-> IsCircularDep(<<dom, name>>),
   deprecated |-> FALSE, redirect |-> FALSE, fields |-> fields, returns |-> returns]

EnumType(dom, name, typ, values) ==
  Item(dom, "type", name, typ, FALSE, <<>>, <<values>>, <<>>, <<>>)

Flagged(t, circular) == [t EXCEPT !.circular = circular]

-----------------------------------------------------------------------------
(* cleanupTypes. *)

(* setDownloadBehavior gets AlwaysEmit before the cleaning. *)
AlwaysEmit(t) == t.raw = <<"Page", <<"set", "Download", "Behavior">>>> /\ t.kind = "command"

Live(t) == ~(t.deprecated \/ t.redirect) \/ AlwaysEmit(t)
LiveFields(fs) == Filter(fs, LAMBDA f : ~f.deprecated)

CleanupTypes(ts) ==
  MapSeq(Filter(ts, Live),
         LAMBDA t : [t EXCEPT !.fields = LiveFields(t.fields), !.returns = LiveFields(t.returns)])

Cleaned(d) ==
  [d EXCEPT !.types = CleanupTypes(d.types), !.events = CleanupTypes(d.events),
            !.commands = CleanupTypes(d.commands)]

-----------------------------------------------------------------------------
(* FixDomains, first part: the changes to particular domains. *)

NodeType == <<"Node", "Type">>
FrameId == <<"Frame", "Id">>
Hidden(name) ==
  [Field("", name, "", FALSE, <<>>, <<>>) EXCEPT !.hidden = TRUE]

(* Types that are added. *)
Added(dom) ==
  CASE dom = "DOM" ->
         <<Flagged(EnumType(dom, NodeType, "integer", <<"Element", "Text">>), TRUE)>>
    [] dom = "Input" ->
         <<Flagged(EnumType(dom, <<"Modifier">>, "integer", <<"None", "Alt">>), FALSE)>>
    [] dom = "Inspector" ->
         <<Flagged(EnumType(dom, <<"Detach", "Reason">>, "string", <<"target_closed">>), FALSE)>>
    [] OTHER -> <<>>

Timestamps == {<<"Input", <<"Time", "Since", "Epoch">>>>, <<"Network", <<"Time", "Since", "Epoch">>>>,
               <<"Network", <<"Monotonic", "Time">>>>, <<"Runtime", <<"Timestamp">>>>}

OfFrame(f) ==
  IF f.name \in {<<"id">>, <<"parent", "Id">>} THEN [f EXCEPT !.ref = <<"", FrameId>>, !.typ = ""] ELSE f

(* Types that are changed, by their raw names. *)
NewName(t) ==
  CASE t.raw = <<"CSS", <<"CSS", "Computed", "Style", "Property">>>> -> <<"Computed", "Property">>
    [] t.raw = <<"Input", <<"Gesture", "Source", "Type">>>> -> <<"Gesture", "Type">>
    [] OTHER -> t.name

NewType(t) ==
  CASE t.raw \in Timestamps -> "timestamp"
    [] t.raw = <<"Network", <<"Headers">>>> -> "map"
    [] OTHER -> t.typ

NewFields(t) ==
  CASE t.raw = <<"DOM", <<"Node">>>> ->
         t.fields \o <<Hidden(<<"Parent">>), Hidden(<<"Invalidated">>), Hidden(<<"State">>), Hidden(<<>>)>>
    [] t.raw = <<"Page", <<"Frame">>>> ->
         MapSeq(t.fields, OfFrame)
           \o <<Hidden(<<"State">>), Hidden(<<"Root">>), Hidden(<<"Nodes">>), Hidden(<<>>)>>
    [] OTHER -> t.fields

Changed(t) == [t EXCEPT !.name = NewName(t), !.typ = NewType(t), !.fields = NewFields(t)]

OfDetached(f) ==
  IF f.name = <<"reason">> THEN [f EXCEPT !.ref = <<"", <<"Detach", "Reason">>>>, !.typ = ""] ELSE f

ChangedEvent(e) ==
  IF e.raw = <<"Inspector", <<"detached">>>> THEN [e EXCEPT !.fields = MapSeq(@, OfDetached)] ELSE e

-----------------------------------------------------------------------------
(* FixDomains, second part: convertObjectProperties and addEnumValues. *)

(* fixupEnumParameter: the name of the type for the enum of f in t. *)
EnumName(t, f) ==
  LET fqname == <<t.raw[1], t.name, f.name>>
  IN  IF fqname \in DOMAIN EnumRefMap THEN EnumRefMap[fqname] ELSE t.name \o f.name

Extracted(f) == f.enum # <<>> /\ ~f.array

(* Faulty variant of Converted: the domain of NodeType is left out. *)
ConvertedHere(t, f) ==
  CASE f.array -> [f EXCEPT !.enum = <<>>]
    [] Extracted(f) ->
         [f EXCEPT !.typ = "", !.ref = <<"", EnumName(t, f)>>, !.enum = <<>>, !.circular = FALSE]
    [] ~f.array /\ ~Extracted(f) /\ f.name = <<"modifiers">> ->
         [f EXCEPT !.typ = "", !.ref = <<"", <<"Modifier">>>>]
    [] ~f.array /\ ~Extracted(f) /\ f.name = <<"node", "Type">> ->
         [f EXCEPT !.typ = "", !.ref = <<"", NodeType>>]
    [] OTHER -> f

(* Faulty variant of Converted: the enum stays with the member as well.      *)
ConvertedKept(t, f) ==
  CASE f.array -> [f EXCEPT !.enum = <<>>]
    [] Extracted(f) -> [f EXCEPT !.typ = "", !.ref = <<"", EnumName(t, f)>>, !.circular = FALSE]
    [] ~f.array /\ ~Extracted(f) /\ f.name = <<"modifiers">> ->
         [f EXCEPT !.typ = "", !.ref = <<"", <<"Modifier">>>>]
    [] ~f.array /\ ~Extracted(f) /\ f.name = <<"node", "Type">> ->
         [f EXCEPT !.typ = "", !.ref = <<"DOM", NodeType>>]
    [] OTHER -> f

(* A member as convertObjectProperties has it in the item t.  The literals  *)
(* of an array of enum hang on the array, and are lost with it.             *)
Converted(t, f) ==
  CASE f.array -> [f EXCEPT !.enum = <<>>]
    [] Extracted(f) ->
         [f EXCEPT !.typ = "", !.ref = <<"", EnumName(t, f)>>, !.enum = <<>>, !.circular = FALSE]
    [] ~f.array /\ ~Extracted(f) /\ f.name = <<"modifiers">> ->
         [f EXCEPT !.typ = "", !.ref = <<"", <<"Modifier">>>>]
    [] ~f.array /\ ~Extracted(f) /\ f.name = <<"node", "Type">> ->
         [f EXCEPT !.typ = "", !.ref = <<"DOM", NodeType>>]
    [] OTHER -> f

ConvertedItem(t) ==
  [t EXCEPT !.fields = MapSeq(@, LAMBDA f : Converted(t, f)),
            !.returns = MapSeq(@, LAMBDA f : Converted(t, f))]

(* The index of the first type with that raw name, or 0. *)
PlaceOf(raw, types) == SelectInSeq(types, LAMBDA t : t.raw = raw)

(* Faulty variant of AddEnumValues: the last enum of that name wins. *)
AddEnumValuesLast(types, e) ==
  LET i == PlaceOf(e.raw, types)
  IN  IF i = 0 THEN Append(types, e) ELSE [types EXCEPT ![i].enum = e.enum]

(* addEnumValues: the values of e join those of the type with its raw name. *)
AddEnumValues(types, e) ==
  LET i == PlaceOf(e.raw, types)
      all == (IF i = 0 \/ types[i].enum = <<>> THEN <<>> ELSE types[i].enum[1]) \o e.enum[1]
  IN  IF i = 0 THEN Append(types, [e EXCEPT !.enum = <<Distinct(all)>>])
      ELSE [types EXCEPT ![i].enum = <<Distinct(all)>>]

(* The enums of an item, as the types they are made into. *)
EnumsOf(t) ==
  MapSeq(Filter(t.fields \o t.returns, Extracted),
         LAMBDA f : Flagged(EnumType(t.raw[1], EnumName(t, f), "string", f.enum[1]), f.circular))

(* One enum after the other joins the types. *)
WithEnums(types, enums) ==
  LET upTo[n \in 0 .. Len(enums)] ==
        IF n = 0 THEN types ELSE AddEnumValues(upTo[n - 1], enums[n])
  IN  upTo[Len(enums)]

-----------------------------------------------------------------------------
(* FixDomains, third part: type stuttering. *)

WithoutPrefix(words, w) == IF words # <<>> /\ Head(words) = w THEN Tail(words) ELSE words

(* The name of a type without that of its domain, or without AX.  It is    *)
(* made from the raw name, so a renaming of the first part does not last.   *)
Unstuttered(t) ==
  LET name == WithoutPrefix(t.raw[2], IF t.raw[1] = "Accessibility" THEN "AX" ELSE t.raw[1])
  IN  IF t.circular \/ name = <<>> THEN t ELSE [t EXCEPT !.name = name]

(* What FixDomains makes of a domain. *)
Fixed(d) ==
  LET types == MapSeq(d.types \o Added(d.name), Changed)
      events == MapSeq(d.events, ChangedEvent)
      enums == FlattenSeq(MapSeq(types \o events \o d.commands, EnumsOf))
      all == WithEnums(MapSeq(types, ConvertedItem), enums)
  IN  [d EXCEPT !.types = MapSeq(all, Unstuttered), !.events = MapSeq(events, ConvertedItem),
                !.commands = MapSeq(d.commands, ConvertedItem)]

=============================================================================
