------------------------- MODULE StartTagsReference ------------------------
(***************************************************************************)
(* What the tags of a document mean, from the tags alone: the attributes   *)
(* an element has, the namespaces in scope at it, the names and events the *)
(* application is owed, and the errors a tag can be refused for.  Nothing  *)
(* here knows of frames, undo blocks or the order of the checks.           *)
(***************************************************************************)
EXTENDS StartTags, FiniteSets

RECURSIVE SumOf(_)
SumOf(sizes) == IF sizes = <<>> THEN 0 ELSE Head(sizes) + SumOf(Tail(sizes))

-----------------------------------------------------------------------------
(* Values, as the XML recommendation normalizes them (3.3.3).              *)

Internal == {e \in DOMAIN setting.entities : setting.entities[e].value # NONE}

RECURSIVE Flat(_, _)
Flat(value, depth) ==
    IF value = <<>> THEN <<>>
    ELSE LET a == value[1]
             joined == depth = 0 /\ a = "CR" /\ Len(value) > 1 /\ value[2] = "LF"
             text == CASE a \in DOMAIN Characters -> <<Characters[a]>>
                       [] a \in Internal /\ depth < MaxEntityDepth ->
                            Flat(setting.entities[a].value, depth + 1)
                       [] a \in Space -> <<" ">>
                       [] a \in References \ (DOMAIN Characters \cup Internal) -> <<>>
                       [] OTHER -> <<a>>
         IN text \o Flat(IF joined THEN Tail(Tail(value)) ELSE Tail(value), depth)

Collapsed(text) ==
    LET words == {i \in DOMAIN text : text[i] # " "}
        inner == {i \in DOMAIN text : text[i] = " " /\ i > 1 /\ text[i - 1] # " "
                                      /\ \E j \in words : j > i}
    IN [k \in 1..Cardinality(words \cup inner) |->
           text[CHOOSE i \in words \cup inner :
                  Cardinality({j \in words \cup inner : j <= i}) = k]]

(* The references in a value, and those in the entities they name.         *)
ReferencesIn(value) == {value[i] : i \in DOMAIN value} \cap (References \ DOMAIN Characters)
RECURSIVE Level(_, _)
Level(refs, depth) ==
    IF depth = 1 THEN refs
    ELSE Level(UNION {ReferencesIn(setting.entities[e].value) : e \in refs \cap Internal}, depth - 1)

(* What a value can be refused for.                                        *)
ValueErrors(value) ==
    LET refs == UNION {Level(ReferencesIn(value), d) : d \in 1..MaxEntityDepth}
        inner(e) == UNION {Level(ReferencesIn(setting.entities[e].value), d) : d \in 1..MaxEntityDepth}
        texts == {value} \cup {setting.entities[e].value : e \in refs \cap Internal}
        kinds ==
            [InvalidToken |-> \E text \in texts : Has(text, "<"),
             RecursiveEntityReference |-> \E e \in refs \cap Internal : e \in inner(e),
             LimitExceeded |-> Level(ReferencesIn(value), MaxEntityDepth + 1) # {},
             UndefinedEntity |-> setting.declared /\ "&u;" \in refs,
             ExternalEntityInAttribute |-> refs \ (Internal \cup {"&u;"}) # {},
             EntityDeclaredInParameterEntity |->
                setting.declared
                /\ \E e \in refs \cap DOMAIN setting.entities : setting.entities[e].inParameter]
    IN {kind \in DOMAIN kinds : kinds[kind]}

(* The replacement text a value copies, entities in entities included.     *)
RECURSIVE Copied(_, _)
Copied(value, depth) ==
    LET sizes == [i \in DOMAIN value |->
                    IF depth = 0 \/ value[i] \notin Internal THEN 0
                    ELSE Len(setting.entities[value[i]].value)
                           + Copied(setting.entities[value[i]].value, depth - 1)]
    IN SumOf(sizes)

NormalValue(tag, a) ==
    IF TypeOf(tag.name, a.name) \in {NONE, "CDATA"} THEN Flat(a.value, 0)
    ELSE Collapsed(Flat(a.value, 0))

-----------------------------------------------------------------------------
(* An element's attributes, and the namespaces in scope after some tags.   *)

AttributesOf(tag) ==
    LET own == [i \in DOMAIN tag.attributes |->
                   Attribute(tag.attributes[i].name, NormalValue(tag, tag.attributes[i]), TRUE)]
        omitted(d) == d.value # NONE /\ ~Seen(tag.attributes, d.name)
        missing == SelectSeq(Declarations(tag.name), omitted)
    IN own \o [i \in DOMAIN missing |-> Attribute(missing[i].name, missing[i].value, FALSE)]

DeclaredBy(tag) == LET isDeclaration(a) == Declares(a.name)
                   IN SelectSeq(AttributesOf(tag), isDeclaration)
PlainOf(tag) == LET isPlain(a) == ~Declares(a.name)
                IN SelectSeq(AttributesOf(tag), isPlain)

UriFor(prefix, tags) ==
    LET declaring == {i \in DOMAIN tags :
                        \E j \in DOMAIN DeclaredBy(tags[i]) :
                           Declared(DeclaredBy(tags[i])[j].name) = prefix}
        nearest == CHOOSE i \in declaring : \A k \in declaring : k <= i
        declarations == DeclaredBy(tags[nearest])
        uri == declarations[CHOOSE j \in DOMAIN declarations :
                              Declared(declarations[j].name) = prefix].value
    IN IF ~Separating \/ declaring = {} THEN IF prefix = <<"xml">> THEN XmlUri ELSE NONE
       ELSE IF uri = <<>> THEN NONE ELSE uri

UriOf(name, attribute, tags) ==
    IF Has(name, ":") THEN UriFor(Prefix(name), tags)
    ELSE IF attribute THEN NONE ELSE UriFor(<<>>, tags)

Spelled(name, attribute, tags) ==
    LET uri == UriOf(name, attribute, tags)
    IN IF ~Separating \/ uri = NONE THEN name
       ELSE uri \o Separator \o Local(name)
              \o (IF setting.triplets /\ Has(name, ":") /\ Separator # <<>>
                  THEN Separator \o Prefix(name) ELSE <<>>)

-----------------------------------------------------------------------------
(* The errors a tag can be refused for where `tags` are open, itself last, *)
(* and the work it stands for: each URI is copied, for a prefixed          *)
(* attribute twice, and so are entity values and defaults.                 *)

UriSize(name, attribute, tags) ==
    LET uri == UriOf(name, attribute, tags)
    IN IF ~Separating \/ uri = NONE THEN 0 ELSE Len(uri)

Cost(tag, tags) ==
    LET all == AttributesOf(tag)
        names == PlainOf(tag)
    IN UriSize(tag.name, FALSE, tags)
         + 2 * SumOf([i \in DOMAIN names |-> UriSize(names[i].name, TRUE, tags)])
         + SumOf([i \in DOMAIN tag.attributes |-> Copied(tag.attributes[i].value, MaxEntityDepth)])
         + SumOf([i \in DOMAIN all |->
                    IF all[i].specified THEN 0 ELSE Len(all[i].name) + Len(all[i].value)])

DeclarationErrors(prefix, uri) ==
    LET kinds == [ReservedPrefixXmlns |-> prefix = <<"xmlns">>,
                  ReservedPrefixXml |-> prefix = <<"xml">> /\ uri # XmlUri,
                  ReservedNamespaceUri |-> uri = XmlnsUri \/ (uri = XmlUri /\ prefix # <<"xml">>),
                  UndeclaringPrefix |-> prefix # <<>> /\ uri = <<>>,
                  Syntax |-> setting.separator = "|" /\ Has(uri, "|")]
    IN {kind \in DOMAIN kinds : kinds[kind]}

(* Two attributes are one if they have the same local name in the same     *)
(* namespace; a separator that can occur in names or URIs, or none, lets   *)
(* others look the same.                                                   *)
SameName(a, b, tags) ==
    LET uri == UriOf(a, TRUE, tags) other == UriOf(b, TRUE, tags) IN
    /\ Has(a, ":") /\ Has(b, ":") /\ uri # NONE /\ other # NONE
    /\ \/ uri = other /\ Local(a) = Local(b)
       \/ /\ setting.separator # "|"
          /\ uri \o Separator \o Local(a) = other \o Separator \o Local(b)

TagErrors(tag, tags) ==
    LET own == {tag.attributes[i].name : i \in DOMAIN tag.attributes}
        all == AttributesOf(tag)
        plain == PlainOf(tag)
        names == {plain[i].name : i \in DOMAIN plain}
        used == names \cup {tag.name}
        kinds ==
          [InvalidToken |-> Separating /\ \E name \in own \cup {tag.name} : ~IsQName(name),
           LimitExceeded |-> \/ Len(tag.attributes) > MaxAttributes \/ Len(all) > MaxAttributes
                             \/ Len(tags) > MaxDepth
                             \/ expanded + Cost(tag, tags) > setting.budget,
           DuplicateAttribute |->
              \/ \E i, j \in DOMAIN tag.attributes :
                    i < j /\ tag.attributes[i].name = tag.attributes[j].name
              \/ Separating /\ \E i, j \in DOMAIN plain :
                    i < j /\ SameName(plain[i].name, plain[j].name, tags),
           ReservedPrefixXmlns |-> Separating /\ Declares(tag.name) /\ Has(tag.name, ":"),
           UndefinedPrefix |-> Separating /\ \E name \in used :
                                 Has(name, ":") /\ UriOf(name, TRUE, tags) = NONE]
        values == UNION {ValueErrors(tag.attributes[i].value) : i \in DOMAIN tag.attributes}
        declared == DeclaredBy(tag)
        bindings == IF ~Separating THEN {}
                    ELSE UNION {DeclarationErrors(Declared(declared[i].name), declared[i].value) :
                                   i \in DOMAIN declared}
    IN {kind \in DOMAIN kinds : kinds[kind]} \cup bindings \cup values

-----------------------------------------------------------------------------
(* What a tag owes the application.                                        *)

StartEvents(tag) ==
    LET declared == DeclaredBy(tag)
        none(uri) == IF uri = <<>> THEN NONE ELSE uri
    IN IF ~Separating THEN <<>>
       ELSE [i \in DOMAIN declared |->
               [is |-> "StartNamespace", prefix |-> Declared(declared[i].name),
                uri |-> none(declared[i].value)]]

ReportedAttributes(tag, tags) ==
    LET kept == IF Separating THEN PlainOf(tag) ELSE AttributesOf(tag)
    IN [i \in DOMAIN kept |-> [kept[i] EXCEPT !.name = Spelled(kept[i].name, TRUE, tags)]]

IdOf(tag) ==
    LET kept == IF Separating THEN PlainOf(tag) ELSE AttributesOf(tag)
        ids == {i \in DOMAIN kept : TypeOf(tag.name, kept[i].name) = "ID"}
    IN IF ids = {} THEN 0 ELSE CHOOSE i \in ids : TRUE

StartOf(tag, tags) ==
    [is |-> "StartElement", name |-> Spelled(tag.name, FALSE, tags),
     attributes |-> ReportedAttributes(tag, tags), id |-> IdOf(tag)]

EndsOf(tag, tags) ==
    LET started == Reverse(StartEvents(tag))
    IN <<[is |-> "EndElement", name |-> Spelled(tag.name, FALSE, tags)]>>
         \o [i \in DOMAIN started |-> [is |-> "EndNamespace", prefix |-> started[i].prefix]]

StartAnswered(tag) ==
    LET tags == Append(open, tag)
        errors == TagErrors(tag, tags)
    IN IF open = <<>> /\ token.count > 0
       THEN error' = "JunkAfterDocumentElement" /\ delivered' = <<>>
       ELSE IF errors # {} THEN error' \in errors /\ IsPrefix(delivered', StartEvents(tag))
       ELSE /\ error' = NONE
            /\ delivered' = Append(StartEvents(tag), StartOf(tag, tags))
                               \o IF tag.empty THEN EndsOf(tag, tags) ELSE <<>>
            /\ expanded' = expanded + Cost(tag, tags)

EndAnswered(name) ==
    IF open = <<>> THEN error' = "InvalidToken" /\ delivered' = <<>>
    ELSE IF Last(open).name # name THEN error' = "TagMismatch" /\ delivered' = <<>>
    ELSE error' = NONE /\ delivered' = EndsOf(Last(open), open)

(* Every tag is answered with exactly the events, the names, the attribute *)
(* values, the defaults and the ID it means where it stands, or refused    *)
(* for an error it has, whichever of the three ways parse_start takes and  *)
(* whichever of the two an end tag takes; what it copies is charged.       *)
TagsExpected ==
    [][token' # token =>
         IF "attributes" \in DOMAIN token'.next THEN StartAnswered(token'.next)
                                                ELSE EndAnswered(token'.next.name)]_vars

(* The map that declarations change and undo blocks restore is the         *)
(* namespaces in scope at the open elements, and each element that         *)
(* declares has the undo block it thinks it has.                           *)
ScopesRestored ==
    error = NONE =>
      /\ \A i \in DOMAIN open :
            stack[i].scope = IF ~Separating \/ DeclaredBy(open[i]) = <<>> THEN 0
                             ELSE Cardinality({k \in 1..i : DeclaredBy(open[k]) # <<>>})
      /\ \A prefix \in DOMAIN namespaces : namespaces[prefix] = UriFor(prefix, open)
      /\ \A i \in DOMAIN open : \A j \in DOMAIN DeclaredBy(open[i]) :
            LET prefix == Declared(DeclaredBy(open[i])[j].name)
            IN Binding(namespaces, prefix) = UriFor(prefix, open)

(* No start tag hands out more than it was written with, but for what was  *)
(* charged before and two separators for each name: a short tag cannot     *)
(* make the application copy long URIs, defaults or entities for free.     *)
SizeOf(name, attributes) ==
    Len(name) + SumOf([i \in DOMAIN attributes |->
                         Len(attributes[i].name) + Len(attributes[i].value)])
WorkCharged ==
    [][\A i \in DOMAIN delivered' :
         delivered'[i].is = "StartElement" =>
           LET event == delivered'[i] tag == token'.next IN
           /\ expanded' <= setting.budget
           /\ SizeOf(event.name, event.attributes)
                <= SizeOf(tag.name, tag.attributes) + (expanded' - expanded)
                     + 2 * (1 + Len(event.attributes))]_vars
=============================================================================
