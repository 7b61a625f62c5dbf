----------------------------- MODULE StartTags -----------------------------
(***************************************************************************)
(* Start and end tags of a document's own text (crates/xeme/src/lib.rs,    *)
(* parse_start, parse_end and end_element): duplicate attributes, values   *)
(* with their entities, defaults from the declarations, namespace bindings *)
(* and their undo blocks, expanded names, and the stack of open elements.  *)
(* A start tag takes one of three ways: owned events, an adapter frame     *)
(* with the names as written, or an adapter frame with expanded names.     *)
(*                                                                         *)
(* Names, values and namespace URIs are sequences of atoms: an atom is a   *)
(* letter or a longer piece nothing looks into, ":" and the separator      *)
(* among them, and a reference in a value is one atom.  A size counts      *)
(* atoms.                                                                  *)
(***************************************************************************)
EXTENDS Integers, Sequences, SequencesExt, TLC

CONSTANTS
    NONE,           \* no value
    Settings,       \* configurations with what the DTD declares
    Tags,           \* start tags: [name, attributes, empty]
    EndNames,       \* names of end tags
    MaxDepth,       \* limits.max_depth
    MaxAttributes,  \* limits.max_attributes
    MaxEntityDepth, \* limits.max_entity_depth
    SmallList,      \* attributes compared one by one; more are hashed (8)
    MaxTokens       \* bound of the model: tags of a document

VARIABLES
    setting,     \* [separator, triplets, defaults, entities, declared, budget]
    namespaces,  \* the bindings in scope by prefix, <<>> for the default one
    scopes,      \* undo blocks of the open elements that declare namespaces
    stack,       \* open elements: [value, rawStart, expandedEnd, scope]
    expanded,    \* work charged to the shared budget
    closedRoot, error,
    delivered,   \* what the last call hands to the application
    token,       \* history: the last tag read
    open         \* history: the start tags of the open elements

vars == <<setting, namespaces, scopes, stack, expanded, closedRoot, error, delivered, token, open>>

The(S) == CHOOSE x \in S : TRUE

XmlUri == <<"XML">>
XmlnsUri == <<"XMLNS">>
Space == {" ", "TAB", "CR", "LF"}
Characters == [ref \in {"&#32;", "&#9;", "&lt;"} |->
                  CASE ref = "&#32;" -> " " [] ref = "&#9;" -> "TAB" [] ref = "&lt;" -> "<"]
UriCharacters == {"u", "v", "x", "y", "p", "a", ":"}

-----------------------------------------------------------------------------
(* Names.                                                                  *)

Has(name, atom) == \E i \in DOMAIN name : name[i] = atom
Colon(name) == CHOOSE i \in DOMAIN name : name[i] = ":" /\ \A j \in 1..(i - 1) : name[j] # ":"
Prefix(name) == SubSeq(name, 1, Colon(name) - 1)
Local(name) == IF Has(name, ":") THEN SubSeq(name, Colon(name) + 1, Len(name)) ELSE name
IsQName(name) ==
    Has(name, ":") =>
        Prefix(name) # <<>> /\ Local(name) # <<>> /\ ~Has(Local(name), ":")
Declares(name) == name = <<"xmlns">> \/ (Has(name, ":") /\ Prefix(name) = <<"xmlns">>)
Declared(name) == IF Has(name, ":") THEN Local(name) ELSE <<>>

Separating == setting.separator # NONE
Separator == IF setting.separator = "NUL" THEN <<>> ELSE <<setting.separator>>

(* An element's two names in one string: a raw name that ends the expanded *)
(* one is not stored again (struct ElementName).                           *)
Pack(name, raw) ==
    LET start == Len(name) - Len(raw)
        suffix == start >= 0 /\ SubSeq(name, start + 1, Len(name)) = raw
    IN [value |-> IF suffix THEN name ELSE name \o raw, expandedEnd |-> Len(name),
        rawStart |-> IF suffix THEN start ELSE Len(name)]
RawName(element) == SubSeq(element.value, element.rawStart + 1, Len(element.value))
EventName(element) == SubSeq(element.value, 1, element.expandedEnd)

-----------------------------------------------------------------------------
(* The work of one call: an error ends it, and what it did stays done.     *)

Begin ==
    [error |-> NONE, expanded |-> expanded, namespaces |-> namespaces, made |-> <<>>,
     attributes |-> <<>>, id |-> 0, bindings |-> <<>>, lengths |-> <<>>, keys |-> {},
     events |-> <<>>]

Failed(w, kind) == [w EXCEPT !.error = kind]
Made(w, name) == [w EXCEPT !.made = name]
Emit(w, event) == [w EXCEPT !.events = Append(@, event)]

Charge(w, size) ==
    CASE w.error # NONE -> w
      [] w.error = NONE /\ w.expanded + size <= setting.budget -> [w EXCEPT !.expanded = @ + size]
      [] OTHER -> Failed(w, "LimitExceeded")

Binding(bindings, prefix) == IF prefix \in DOMAIN bindings THEN bindings[prefix] ELSE NONE
(* Variant: a binding is replaced, but never removed.                      *)
Rebind(bindings, prefix, uri) ==
    IF uri = NONE THEN bindings ELSE (prefix :> uri) @@ bindings
Bind(bindings, prefix, uri) ==
    IF uri = NONE THEN [p \in DOMAIN bindings \ {prefix} |-> bindings[p]]
                  ELSE (prefix :> uri) @@ bindings

ExpandName(w, name, attribute, triplets) ==
    LET prefixed == Has(name, ":")
        prefix == IF prefixed THEN Prefix(name) ELSE <<>>
        uri == IF attribute /\ ~prefixed THEN NONE ELSE Binding(w.namespaces, prefix)
        triplet == IF triplets /\ prefixed /\ Separator # <<>>
                   THEN Separator \o prefix ELSE <<>>
    IN IF w.error # NONE THEN w
       ELSE IF ~Separating THEN Made(w, name)
       ELSE IF prefix = <<"xmlns">> THEN Failed(w, "ReservedPrefixXmlns")
       ELSE IF uri = NONE /\ prefixed THEN Failed(w, "UndefinedPrefix")
       ELSE IF uri = NONE THEN Made(w, name)
       ELSE Made(Charge(w, Len(uri)), uri \o Separator \o Local(name) \o triplet)

-----------------------------------------------------------------------------
(* Attribute values.                                                       *)

AppendSpace(text) ==
    IF text = <<>> \/ Last(text) = " " THEN text ELSE Append(text, " ")

References == DOMAIN Characters \cup DOMAIN setting.entities \cup {"&u;"}

NeedsNormalization(value) ==
    value # <<>> /\
    (\/ value[1] = " " \/ Last(value) = " "
     \/ \E i \in 1..(Len(value) - 1) : value[i] = " " /\ value[i + 1] = " "
     \/ \E i \in DOMAIN value : value[i] \in (Space \ {" "}) \cup References)

(* Undeclared names are left out only where they may be declared in a part *)
(* of the DTD that was not read.                                           *)
Missing(w) == IF setting.declared THEN Failed(w, "UndefinedEntity") ELSE w

RECURSIVE AppendValue(_, _, _, _)
AppendReference(w, ref, rest, frames, tokenized) ==
    LET frame == [rest |-> rest, ref |-> ref]
        known == ref \in DOMAIN setting.entities
        entity == setting.entities[ref]
    IN IF ref \in DOMAIN Characters
       THEN AppendValue(Made(w, IF tokenized /\ ref = "&#32;" THEN AppendSpace(w.made)
                                ELSE Append(w.made, Characters[ref])),
                        rest, frames, tokenized)
       ELSE IF \E i \in DOMAIN frames : frames[i].ref = ref
       THEN Failed(w, "RecursiveEntityReference")
       ELSE IF Len(frames) + 1 > MaxEntityDepth THEN Failed(w, "LimitExceeded")
       ELSE IF ~known THEN AppendValue(Missing(w), rest, frames, tokenized)
       ELSE IF entity.inParameter /\ setting.declared
       THEN Failed(w, "EntityDeclaredInParameterEntity")
       ELSE IF entity.value = NONE THEN Failed(w, "ExternalEntityInAttribute")
       ELSE AppendValue(Charge(w, Len(entity.value)), entity.value, Append(frames, frame), tokenized)

(* The line feed after a carriage return of the document's own text is     *)
(* part of the same line ending; replacement text has none left.           *)
LineEnding(rest, frames) ==
    IF frames = <<>> /\ Len(rest) > 1 /\ rest[1] = "CR" /\ rest[2] = "LF"
    THEN Tail(Tail(rest)) ELSE Tail(rest)

AppendValue(w, rest, frames, tokenized) ==
    CASE w.error # NONE -> w
      [] w.error = NONE /\ rest = <<>> ->
           IF frames = <<>> THEN w
           ELSE AppendValue(w, Last(frames).rest, Front(frames), tokenized)
      [] OTHER ->
           CASE rest[1] = "<" -> Failed(w, "InvalidToken")
             [] rest[1] \in References ->
                  AppendReference(w, rest[1], Tail(rest), frames, tokenized)
             [] rest[1] \in Space ->
                  AppendValue(Made(w, IF tokenized THEN AppendSpace(w.made)
                                                   ELSE Append(w.made, " ")),
                              LineEnding(rest, frames), frames, tokenized)
             [] OTHER -> AppendValue(Made(w, Append(w.made, rest[1])), Tail(rest), frames, tokenized)

Plain(value) == \A i \in DOMAIN value : value[i] \notin {"<", "TAB", "CR", "LF"} \cup References

Trimmed(w) == IF w.made # <<>> /\ Last(w.made) = " " THEN Made(w, Front(w.made)) ELSE w

ExpandValue(w, value, tokenized) ==
    IF Plain(value) /\ ~tokenized THEN Made(w, value)
    ELSE IF tokenized THEN Trimmed(AppendValue(Made(w, <<>>), value, <<>>, TRUE))
    ELSE AppendValue(Made(w, <<>>), value, <<>>, FALSE)

-----------------------------------------------------------------------------
(* The attributes of a tag: those written, then the defaults omitted.      *)

Declarations(element) ==
    IF element \in DOMAIN setting.defaults THEN setting.defaults[element] ELSE <<>>
TypeOf(element, name) ==
    LET all == Declarations(element)
        of == {i \in DOMAIN all : all[i].name = name}
    IN IF of = {} THEN NONE ELSE all[CHOOSE i \in of : TRUE].type

Seen(attributes, name) == \E i \in DOMAIN attributes : attributes[i].name = name
Attribute(name, value, specified) == [name |-> name, value |-> value, specified |-> specified]

Collect(w, attribute) ==
    IF w.error # NONE THEN w ELSE [w EXCEPT !.attributes = Append(@, attribute)]

RECURSIVE Specified(_, _, _)
Specify(w, tag, i) ==
    LET a == tag.attributes[i]
        type == TypeOf(tag.name, a.name)
        tokenized == type \notin {NONE, "CDATA"} /\ NeedsNormalization(a.value)
    IN IF Separating /\ ~IsQName(a.name) THEN Failed(w, "InvalidToken")
       ELSE IF Seen(w.attributes, a.name) THEN Failed(w, "DuplicateAttribute")
       ELSE The({Collect(x, Attribute(a.name, x.made, TRUE)) :
                   x \in {ExpandValue(w, a.value, tokenized)}})
Specified(w, tag, i) ==
    IF w.error # NONE \/ i > Len(tag.attributes) THEN w
    ELSE The({Specified(x, tag, i + 1) : x \in {Specify(w, tag, i)}})

RECURSIVE Defaulted(_, _, _)
(* Variant: a default is taken over without a charge.                      *)
DefaultForFree(w, declaration) ==
    IF declaration.value = NONE \/ Seen(w.attributes, declaration.name) THEN w
    ELSE Collect(w, Attribute(declaration.name, declaration.value, FALSE))
Default(w, declaration) ==
    IF declaration.value = NONE \/ Seen(w.attributes, declaration.name) THEN w
    ELSE IF Len(w.attributes) >= MaxAttributes THEN Failed(w, "LimitExceeded")
    ELSE The({Collect(x, Attribute(declaration.name, declaration.value, FALSE)) :
                x \in {Charge(Charge(w, Len(declaration.name)), Len(declaration.value))}})
Defaulted(w, tag, i) ==
    IF w.error # NONE \/ i > Len(Declarations(tag.name)) THEN w
    ELSE The({Defaulted(x, tag, i + 1) : x \in {Default(w, Declarations(tag.name)[i])}})

(* The attribute the application is told of as the ID.                     *)
WithId(w, tag) ==
    LET ids == {i \in DOMAIN w.attributes : TypeOf(tag.name, w.attributes[i].name) = "ID"}
    IN IF w.error # NONE THEN w
       ELSE [w EXCEPT !.id = IF ids = {} THEN 0 ELSE CHOOSE i \in ids : \A j \in ids : i <= j]

-----------------------------------------------------------------------------
(* Namespace declarations: each is checked, applied and reported in turn,  *)
(* and the previous binding kept in the element's undo block.              *)

Separates(uri) ==
    /\ Separator # <<>>
    /\ setting.separator \notin UriCharacters
    /\ Has(uri, setting.separator)

Forbidden(prefix, uri) ==
    IF prefix = <<"xmlns">> THEN "ReservedPrefixXmlns"
    ELSE IF prefix = <<"xml">> /\ uri # XmlUri THEN "ReservedPrefixXml"
    ELSE IF uri = XmlnsUri \/ (uri = XmlUri /\ prefix # <<"xml">>) THEN "ReservedNamespaceUri"
    ELSE IF prefix # <<>> /\ uri = <<>> THEN "UndeclaringPrefix"
    ELSE IF Separates(uri) THEN "Syntax"
    ELSE NONE

Bound(w, a) ==
    LET prefix == Declared(a.name)
        uri == IF a.value = <<>> THEN NONE ELSE a.value
        wrong == Forbidden(prefix, a.value)
        undo == [prefix |-> prefix, previous |-> Binding(w.namespaces, prefix)]
    IN IF wrong # NONE THEN Failed(w, wrong)
       ELSE Emit([w EXCEPT !.namespaces = Bind(@, prefix, uri), !.bindings = Append(@, undo)],
                 [is |-> "StartNamespace", prefix |-> prefix, uri |-> uri])

RECURSIVE WithBindings(_, _)
WithBindings(w, i) ==
    IF w.error # NONE \/ i > Len(w.attributes) THEN w
    ELSE IF ~Declares(w.attributes[i].name) THEN WithBindings(w, i + 1)
    ELSE The({WithBindings(x, i + 1) : x \in {Bound(w, w.attributes[i])}})

(* The declarations are no attributes of the event; the ID moves with it.  *)
WithoutDeclarations(w) ==
    LET kept == SelectSeq(w.attributes, LAMBDA a : ~Declares(a.name))
        ids == {i \in DOMAIN kept : w.id # 0 /\ kept[i].name = w.attributes[w.id].name}
    IN IF w.error # NONE THEN w
       ELSE [w EXCEPT !.attributes = kept, !.id = IF ids = {} THEN 0 ELSE CHOOSE i \in ids : TRUE]

-----------------------------------------------------------------------------
(* Expanded attribute names.  Short lists compare the part of each earlier *)
(* name that is its key; long ones expand twice and keep the keys apart.   *)

(* Variant: all of the earlier name is compared.                           *)
WholeName(attributes, lengths) ==
    {attributes[i].name : i \in {j \in DOMAIN lengths : lengths[j] # 0}}
PriorKeys(attributes, lengths) ==
    {SubSeq(attributes[i].name, 1, lengths[i]) : i \in {j \in DOMAIN lengths : lengths[j] # 0}}

ChargedTwice(w, name) ==
    Charge(w, Len(w.made) - Len(Local(name)) - Len(Separator))

ExpandSmall(w, name, prior) ==
    LET triplet == IF setting.triplets /\ Separator # <<>> THEN Separator \o Prefix(name) ELSE <<>>
        checked(x) == IF x.error = NONE /\ x.made \in prior THEN Failed(x, "DuplicateAttribute") ELSE x
        charged(x) == IF x.error # NONE THEN x
                      ELSE [ChargedTwice(x, name) EXCEPT !.lengths = Append(@, Len(x.made)),
                                                         !.made = @ \o triplet]
    IN The({charged(checked(x)) : x \in {ExpandName(w, name, TRUE, FALSE)}})

ExpandLarge(w, name) ==
    LET keyed(x) == IF x.error # NONE THEN x
                    ELSE IF x.made \in x.keys THEN Failed(x, "DuplicateAttribute")
                    ELSE [x EXCEPT !.keys = @ \cup {x.made}, !.lengths = Append(@, 0)]
    IN The({ExpandName(keyed(x), name, TRUE, setting.triplets) :
              x \in {ExpandName(w, name, TRUE, FALSE)}})

Renamed(w, i) == IF w.error # NONE THEN w ELSE [w EXCEPT !.attributes[i].name = w.made]

RECURSIVE WithExpandedNames(_, _)
ExpandAttribute(w, i) ==
    LET name == w.attributes[i].name
    IN IF ~Has(name, ":") THEN [w EXCEPT !.lengths = Append(@, 0)]
       ELSE IF Len(w.attributes) > SmallList THEN Renamed(ExpandLarge(w, name), i)
       ELSE Renamed(ExpandSmall(w, name, PriorKeys(w.attributes, w.lengths)), i)
WithExpandedNames(w, i) ==
    IF w.error # NONE \/ i > Len(w.attributes) THEN w
    ELSE The({WithExpandedNames(x, i + 1) : x \in {ExpandAttribute(w, i)}})

Expanded(w) ==
    IF Separating
    THEN The({WithExpandedNames(WithoutDeclarations(x), 1) : x \in {WithBindings(w, 1)}})
    ELSE w

-----------------------------------------------------------------------------
(* The three ways of a start tag.                                          *)

TagError(tag) ==
    IF Separating /\ ~IsQName(tag.name) THEN "InvalidToken"
    ELSE IF Len(tag.attributes) > MaxAttributes THEN "LimitExceeded"
    ELSE NONE

OwnedStart(tag) ==
    The({ExpandName(Expanded(x), tag.name, FALSE, setting.triplets) :
           x \in {WithId(Defaulted(Specified(Failed(Begin, TagError(tag)), tag, 1), tag, 1), tag)}})

(* Names that expansion leaves as they are (identity_frame_names).         *)
IdentityNames(tag) ==
    Separating =>
        /\ ~Has(tag.name, ":")
        /\ <<>> \notin DOMAIN namespaces
        /\ \A i \in DOMAIN tag.attributes :
              tag.attributes[i].name # <<"xmlns">> /\ ~Has(tag.attributes[i].name, ":")

(* Names whose bindings are in scope (expanded_names_fit_frame).           *)
Resolved(name) ==
    Has(name, ":") => /\ IsQName(name)
                      /\ Prefix(name) # <<"xmlns">>
                      /\ Prefix(name) \in DOMAIN namespaces
NamesResolved(tag) ==
    /\ Separating
    /\ Resolved(tag.name)
    /\ \A i \in DOMAIN tag.attributes :
          LET name == tag.attributes[i].name IN
          /\ name # <<"xmlns">>
          /\ Resolved(name)
          /\ Has(name, ":") => Len(tag.attributes) <= SmallList

Literal(w, tag) ==
    [w EXCEPT !.attributes = [i \in DOMAIN tag.attributes |->
                                 Attribute(tag.attributes[i].name, tag.attributes[i].value, TRUE)],
              !.error = IF Len(tag.attributes) > MaxAttributes THEN "LimitExceeded"
                        ELSE IF \E i, j \in DOMAIN tag.attributes :
                                  i < j /\ tag.attributes[i].name = tag.attributes[j].name
                        THEN "DuplicateAttribute" ELSE NONE]

IdentityFrame(tag) == Made(Literal(Begin, tag), tag.name)
ExpandedFrame(tag) ==
    ExpandName(WithExpandedNames(Literal(Begin, tag), 1), tag.name, FALSE, setting.triplets)

(* What the planner completes: values taken as they are, and no attribute  *)
(* declarations at all (lib.rs 2855).                                      *)
Planned(tag) ==
    /\ setting.defaults = <<>>
    /\ Len(tag.attributes) <= MaxAttributes
    /\ \A i \in DOMAIN tag.attributes :
          \A j \in DOMAIN tag.attributes[i].value :
             tag.attributes[i].value[j] \notin {"<", "TAB", "CR", "LF"} \cup References

(* `framed`: there is a frame, and the tag fits into it.                   *)
Started(tag, framed) ==
    CASE framed /\ IdentityNames(tag) -> IdentityFrame(tag)
      [] framed /\ ~IdentityNames(tag) /\ NamesResolved(tag) -> ExpandedFrame(tag)
      [] OTHER -> OwnedStart(tag)

-----------------------------------------------------------------------------
(* The handlers.                                                           *)

Init ==
    /\ setting \in Settings
    /\ namespaces = (<<"xml">> :> XmlUri)
    /\ scopes = <<>> /\ stack = <<>> /\ expanded = 0
    /\ closedRoot = FALSE /\ error = NONE
    /\ delivered = <<>> /\ token = [next |-> NONE, count |-> 0] /\ open = <<>>

(* end_element, with the stack of the element that ends.                   *)
RECURSIVE Restored(_, _)
Restored(bindings, undo) ==
    IF undo = <<>> THEN bindings
    ELSE Restored(Bind(bindings, Last(undo).prefix, Last(undo).previous), Front(undo))

UndoOf(element, blocks) == IF element.scope = 0 THEN <<>> ELSE Last(blocks)
EndEvents(element, undo) ==
    <<[is |-> "EndElement", name |-> EventName(element)]>>
        \o [i \in DOMAIN undo |-> [is |-> "EndNamespace", prefix |-> Reverse(undo)[i].prefix]]

EndElement(elements, blocks, bindings, before) ==
    LET element == Last(elements)
        undo == UndoOf(element, blocks)
    IN /\ stack' = Front(elements)
       /\ scopes' = IF element.scope = 0 THEN blocks ELSE Front(blocks)
       /\ namespaces' = Restored(bindings, undo)
       /\ delivered' = before \o EndEvents(element, undo)
       /\ closedRoot' = (Len(elements) = 1)

Fail(kind) ==
    /\ error' = kind /\ delivered' = <<>>
    /\ UNCHANGED <<namespaces, scopes, stack, expanded, closedRoot, open>>

(* The element and its undo block go on their stacks together.             *)
Opened(tag, w) ==
    LET event == [is |-> "StartElement", name |-> w.made, attributes |-> w.attributes, id |-> w.id]
        blocks == IF w.bindings = <<>> THEN scopes ELSE Append(scopes, w.bindings)
        element == Pack(w.made, tag.name) @@
                       [scope |-> IF w.bindings = <<>> THEN 0 ELSE Len(blocks)]
    IN IF tag.empty
       THEN /\ EndElement(Append(stack, element), blocks, w.namespaces, Append(w.events, event))
            /\ UNCHANGED open
       ELSE /\ stack' = Append(stack, element)
            /\ scopes' = blocks /\ namespaces' = w.namespaces
            /\ delivered' = Append(w.events, event)
            /\ open' = Append(open, tag)
            /\ UNCHANGED closedRoot

Lowered(tag, w) ==
    /\ error' = w.error /\ expanded' = w.expanded
    /\ IF w.error = NONE THEN Opened(tag, w)
       ELSE /\ namespaces' = w.namespaces /\ delivered' = w.events
            /\ UNCHANGED <<scopes, stack, closedRoot, open>>

Idle == error = NONE /\ token.count < MaxTokens
Read(next) ==
    /\ token' = [next |-> next, count |-> token.count + 1]
    /\ UNCHANGED setting

ParseStart(tag, framed) ==
    /\ Idle /\ Read(tag)
    /\ framed => Planned(tag)
    /\ CASE closedRoot -> Fail("JunkAfterDocumentElement")
         [] ~closedRoot /\ Len(stack) >= MaxDepth -> Fail("LimitExceeded")
         [] OTHER -> \E w \in {Started(tag, framed)} : Lowered(tag, w)

(* An end tag, and one found by its opening name, which needs no parsing:  *)
(* with a frame and no undo block only the name moves to the application.  *)
ParseEnd(name) ==
    /\ Idle /\ Read([name |-> name])
    /\ CASE stack = <<>> -> Fail("InvalidToken")
         [] stack # <<>> /\ RawName(Last(stack)) # name -> Fail("TagMismatch")
         [] OTHER -> /\ EndElement(stack, scopes, namespaces, <<>>)
                     /\ open' = Front(open) /\ UNCHANGED <<error, expanded>>

MatchedEnd(framed) ==
    /\ Idle /\ stack # <<>> /\ Read([name |-> RawName(Last(stack))])
    /\ IF framed /\ Last(stack).scope = 0
       THEN /\ stack' = Front(stack) /\ closedRoot' = (Len(stack) = 1)
            /\ delivered' = <<[is |-> "EndElement", name |-> EventName(Last(stack))]>>
            /\ UNCHANGED <<namespaces, scopes>>
       ELSE EndElement(stack, scopes, namespaces, <<>>)
    /\ open' = Front(open) /\ UNCHANGED <<error, expanded>>

Stopped == (error # NONE \/ token.count = MaxTokens) /\ UNCHANGED vars

Next ==
    \/ Stopped
    \/ \E tag \in Tags, framed \in BOOLEAN : ParseStart(tag, framed)
    \/ \E name \in EndNames : ParseEnd(name)
    \/ \E framed \in BOOLEAN : MatchedEnd(framed)

Spec == Init /\ [][Next]_vars
=============================================================================
