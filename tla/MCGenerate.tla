----------------------------- MODULE MCGenerate -----------------------------
(* Protocols for Generate: what is left of one protocol when some of its   *)
(* items are absent or deprecated.                                         *)
EXTENDS Generate, TLC

AllWords == STRING

(* The part of circularDeps that the protocol touches.                     *)
Circular ==
  {<<"DOM", <<"Node", "Id">>>>, <<"DOM", <<"Node">>>>, <<"DOM", <<"Node", "Type">>>>,
   <<"DOM", <<"Pseudo", "Type">>>>, <<"Page", <<"Frame", "Id">>>>, <<"Page", <<"Frame">>>>,
   <<"Network", <<"Monotonic", "Time">>>>}

EnumRefs ==
  [x \in {<<"CSS", <<"CSS", "Media">>, <<"source">>>>} |-> <<"Media", "Source">>]
    @@ [x \in {<<"Input", <<"dispatch">>, <<"button">>>>, <<"Input", <<"emulate">>, <<"button">>>>} |->
         <<"Button", "Type">>]

-----------------------------------------------------------------------------
Prim(dom, name, typ) == Field(dom, name, typ, FALSE, <<>>, <<>>)
RefTo(dom, name, ref) == Field(dom, name, "", FALSE, ref, <<>>)
ArrayOf(dom, name, ref) == Field(dom, name, "", TRUE, ref, <<>>)
EnumOf(dom, name, values) == Field(dom, name, "string", FALSE, <<>>, <<values>>)

Type(dom, name, typ) == Item(dom, "type", name, typ, FALSE, <<>>, <<>>, <<>>, <<>>)
Object(dom, name, fields) == Item(dom, "type", name, "object", FALSE, <<>>, <<>>, fields, <<>>)
Command(dom, name, fields, returns) ==
  Item(dom, "command", name, "", FALSE, <<>>, <<>>, fields, returns)
Event(dom, name, fields) == Item(dom, "event", name, "", FALSE, <<>>, <<>>, fields, <<>>)
Deprecated(t) == [t EXCEPT !.deprecated = TRUE]

(* The items of the protocol, by domain. *)
Accessibility ==
  <<Object("Accessibility", <<"AX", "Node">>,
      <<RefTo("Accessibility", <<"node">>, <<"DOM", <<"Node", "Id">>>>),
        Prim("Accessibility", <<"node", "Type">>, "integer")>>)>>

CSS ==
  <<Object("CSS", <<"CSS", "Media">>,
      <<EnumOf("CSS", <<"source">>, <<"inline", "linked">>), RefTo("CSS", <<"range">>, <<"", <<"CSS", "Range">>>>)>>),
    Item("CSS", "type", <<"CSS", "Computed", "Style", "Property">>, "object", FALSE, <<>>, <<>>,
      <<EnumOf("CSS", <<"kind">>, <<"a">>)>>, <<>>),
    Type("CSS", <<"CSS", "Range">>, "integer"),
    Item("CSS", "type", <<"Medias">>, "", TRUE, <<"", <<"CSS", "Media">>>>, <<>>, <<>>, <<>>)>>

DOM ==
  <<Type("DOM", <<"Node", "Id">>, "integer"),
    Object("DOM", <<"Node">>,
      <<RefTo("DOM", <<"node", "Id">>, <<"", <<"Node", "Id">>>>), Prim("DOM", <<"node", "Type">>, "integer"),
        RefTo("DOM", <<"frame", "Id">>, <<"Page", <<"Frame", "Id">>>>), ArrayOf("DOM", <<"children">>, <<"", <<"Node">>>>)>>),
    Object("DOM", <<"Rect">>, <<EnumOf("DOM", <<"Pseudo", "Type">>, <<"first">>)>>)>>

Input ==
  <<[Type("Input", <<"Gesture", "Source", "Type">>, "string") EXCEPT !.enum = <<<<"touch">>>>],
    [Type("Input", <<"Button", "Type">>, "string") EXCEPT !.enum = <<<<"none">>>>],
    Command("Input", <<"dispatch">>,
      <<EnumOf("Input", <<"button">>, <<"none", "left">>), Prim("Input", <<"modifiers">>, "integer"),
        RefTo("Input", <<"source">>, <<"", <<"Gesture", "Source", "Type">>>>)>>, <<>>),
    Command("Input", <<"emulate">>, <<EnumOf("Input", <<"button">>, <<"left", "right">>)>>,
      <<RefTo("Input", <<"rect">>, <<"Page", <<"Rect">>>>)>>)>>

Inspector == <<Event("Inspector", <<"detached">>, <<Prim("Inspector", <<"reason">>, "string")>>)>>

Network ==
  <<Type("Network", <<"Monotonic", "Time">>, "number"), Type("Network", <<"Headers">>, "object"),
    Event("Network", <<"sent">>,
      <<RefTo("Network", <<"time">>, <<"", <<"Monotonic", "Time">>>>), RefTo("Network", <<"headers">>, <<"", <<"Headers">>>>)>>)>>

Page ==
  <<Type("Page", <<"Frame", "Id">>, "string"),
    Object("Page", <<"Frame">>, <<Prim("Page", <<"id">>, "string"), Prim("Page", <<"name">>, "string")>>),
    Object("Page", <<"Rect">>, <<>>),
    Deprecated(Command("Page", <<"set", "Download", "Behavior">>,
      <<EnumOf("Page", <<"behavior">>, <<"deny", "allow">>)>>, <<>>)),
    Command("Page", <<"get", "Rects">>, <<RefTo("Page", <<"node">>, <<"DOM", <<"Node", "Id">>>>)>>,
      <<RefTo("Page", <<"dom">>, <<"DOM", <<"Rect">>>>), RefTo("Page", <<"own">>, <<"", <<"Rect">>>>)>>)>>

Target == <<Type("Target", <<"Session", "Id">>, "string")>>

Whole == <<Accessibility, CSS, DOM, Input, Inspector, Network, Page, Target>>
InOrder == <<"Accessibility", "CSS", "DOM", "Input", "Inspector", "Network", "Page", "Target">>

-----------------------------------------------------------------------------
AllItems == UNION {ToSet(Whole[i]) : i \in 1 .. Len(Whole)}

OfKind(ts, kind) == Filter(ts, LAMBDA t : t.kind = kind)

(* The protocol without the items in out, with those in old deprecated.     *)
Without(out, old) ==
  LET rest(i) == MapSeq(Filter(Whole[i], LAMBDA t : t \notin out),
                        LAMBDA t : IF t \in old THEN Deprecated(t) ELSE t)
  IN  [i \in 1 .. Len(Whole) |->
         [name |-> InOrder[i], deprecated |-> \E t \in old : t.raw[1] = InOrder[i] /\ ToSet(Whole[i]) \subseteq old,
          types |-> OfKind(rest(i), "type"), commands |-> OfKind(rest(i), "command"),
          events |-> OfKind(rest(i), "event")]]

(* At most two items are missing.                                           *)
Missing == {{}} \cup {{s, t} : s, t \in AllItems}

(* A member called modifiers outside Input, in a domain with and without a *)
(* Modifier of its own.                                                     *)
Tap == Command("Page", <<"tap">>, <<Prim("Page", <<"modifiers">>, "integer")>>, <<>>)

Tapped(types) ==
  LET whole == Without({}, {})
  IN  [whole EXCEPT ![7].commands = Append(@, Tap), ![7].types = @ \o types]

Strays == {Tapped(<<>>), Tapped(<<Type("Page", <<"Modifier">>, "integer")>>)}

GivenProtocols == {Without(out, {}) : out \in Missing} \cup {Without({}, old) : old \in Missing} \cup Strays

=============================================================================
