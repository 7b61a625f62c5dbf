------------------------- MODULE EntityValueReference -------------------------
(***************************************************************************)
(* What an entity value must be: the text of its literal with each          *)
(* parameter reference replaced where it stands, computed by one recursion  *)
(* over the documents and over what the application did with each request.  *)
(***************************************************************************)
EXTENDS EntityValue

(* The expansion so far: its text, the last skip recorded (or NONE), and    *)
(* how many requests it has made.                                          *)
Blank(known, standalone, asked, open) ==
    [text |-> <<>>, skip |-> NONE, standalone |-> standalone, asked |-> asked,
     told |-> <<>>, error |-> NONE, cut |-> FALSE, open |-> open, known |-> known]

Put(acc, items) ==
    IF Len(acc.text) + Len(items) > scenario.maxValue
    THEN [acc EXCEPT !.error = "LimitExceeded"] ELSE [acc EXCEPT !.text = @ \o items]
Skip(acc) == [acc EXCEPT !.skip = ~acc.standalone]

FirstDeclaration(doc) ==
    LET at == {k \in DOMAIN doc : Kind(doc[k]) = "x"}
    IN IF at = {} THEN 0 ELSE CHOOSE k \in at : \A j \in at : k <= j

(* A reference is unread when its own child was never given input.         *)
Asked(acc, name) ==
    [acc EXCEPT !.asked = @ + 1, !.told = Append(@, <<"request", name>>)]
HeardXml(acc, doc) ==
    LET k == FirstDeclaration(doc)
    IN IF k = 0 THEN acc
       ELSE [acc EXCEPT !.standalone = @ \/ doc[k][2] = "yes", !.told = Append(@, <<"xml", doc[k][2]>>)]

RECURSIVE Expanded(_, _, _, _, _, _, _)
Expanded(items, normalize, child, names, depth, acc, answered) ==
    IF items = <<>> \/ acc.error # NONE \/ acc.cut THEN acc ELSE
    LET i == Head(items)
        run == Lead(items)
        Rest(a) == Expanded(Tail(items), normalize, child, names, depth, a, answered)
        Truncated(a) == IF child THEN [a EXCEPT !.cut = TRUE] ELSE a
        name == i[2]
    IN IF run > 0
       THEN Expanded(Drop(items, run), normalize, child, names, depth,
                     Put(acc, Normalized(SubSeq(items, 1, run), normalize)), answered)
       ELSE IF Kind(i) = "c" THEN Rest(Put(acc, <<name>>))
       ELSE IF Kind(i) = "&" THEN Rest(Put(acc, <<i>>))
       ELSE IF Kind(i) = "bad" THEN [acc EXCEPT !.error = "InvalidToken"]
       ELSE IF name \in names \cup acc.open THEN [acc EXCEPT !.error = "RecursiveEntityReference"]
       ELSE IF name \notin DOMAIN acc.known THEN Rest(Truncated(Skip(acc)))
       ELSE IF depth > scenario.maxDepth THEN [acc EXCEPT !.error = "LimitExceeded"]
       ELSE IF acc.known[name].kind = "reserved" THEN Rest(Truncated(acc))
       ELSE IF acc.known[name].kind = "internal"
       THEN IF child /\ scenario.compatible
            THEN [acc EXCEPT !.open = @ \cup {name}, !.cut = TRUE]
            ELSE Rest(Expanded(acc.known[name].value, FALSE, child, names \cup {name},
                               depth + 1, acc, answered))
       ELSE LET asked == Asked(acc, name)
                answer == IF asked.asked \in DOMAIN answered THEN answered[asked.asked] ELSE "unread"
                doc == scenario.documents[name]
            IN Rest(CASE answer = "unread"   -> Skip(asked)
                      [] answer = "opened"   -> asked
                      [] answer = "declared" -> HeardXml(asked, doc)
                      [] answer = "expanded" ->
                            [Expanded(Drop(doc, FirstDeclaration(doc)), TRUE, TRUE, names \cup {name},
                                      depth + 1, HeardXml(asked, doc), answered)
                                EXCEPT !.error = NONE, !.cut = FALSE])

(* All declarations, one after the other.                                  *)
Start == [values |-> <<>>, known |-> scenario.entities, generals |-> {}, told |-> <<>>,
          skipping |-> FALSE, standalone |-> scenario.standalone, asked |-> 0, open |-> {},
          failed |-> FALSE]

ExpandedLiteral(s, d) ==
    LET own == IF d.parameter /\ d.name \notin DOMAIN s.known THEN {d.name} ELSE {}
    IN Expanded(d.items, d.normalize, FALSE, own \cup Range(d.parameters),
                scenario.depth + Len(d.parameters), Blank(s.known, s.standalone, s.asked, s.open), answers)

Declared(s, d, e) ==
    LET known == IF d.parameter THEN d.name \in DOMAIN s.known ELSE d.name \in s.generals
        waited == e.asked > s.asked
        full == ~known /\ Cardinality(DOMAIN s.known) + Cardinality(s.generals) >= scenario.maxEntities
        kept == [k \in DOMAIN e.text |-> e.text[k]]
        first == IF waited /\ scenario.defaults THEN <<<<IF known THEN "duplicate" ELSE "prefix", d.name>>>> ELSE <<>>
        last == CASE e.error # NONE -> <<<<"error", e.error>>>>
                  [] e.error = NONE /\ full -> <<<<"error", "LimitExceeded">>>>
                  [] OTHER -> IF known THEN IF scenario.defaults THEN <<<<"duplicate", d.name>>>> ELSE <<>>
                              ELSE <<<<"declared", d.name>>>>
        told == s.told \o first \o e.told \o last
    IN IF e.error # NONE \/ full
       THEN [s EXCEPT !.told = told, !.failed = TRUE, !.open = e.open]
       ELSE [s EXCEPT !.values = Append(@, [declared |-> ~known, text |-> kept]),
                      !.known = IF d.parameter /\ ~known
                                THEN @ @@ (d.name :> [kind |-> "internal", value |-> kept]) ELSE @,
                      !.generals = IF d.parameter THEN @ ELSE @ \cup {d.name},
                      !.told = told, !.asked = e.asked, !.open = e.open,
                      !.standalone = e.standalone,
                      !.skipping = IF e.skip = NONE THEN IF waited THEN FALSE ELSE @ ELSE e.skip,
                      !.failed = waited /\ d.suffix]

Following(s, d) ==
    IF s.failed THEN s
    ELSE IF s.skipping THEN [s EXCEPT !.values = Append(@, [declared |-> FALSE, text |-> <<>>])]
    ELSE Declared(s, d, ExpandedLiteral(s, d))

Reference == FoldLeft(Following, Start, scenario.literals)

-----------------------------------------------------------------------------
Bare(v) == [v EXCEPT !.text = [k \in DOMAIN v.text |-> v.text[k].item]]
Over == parsers[Root].stage = "failed" \/ Len(values) = Len(scenario.literals)

(* What an application that finishes its children in order is left with.   *)
OrderlyOutcome ==
    LET r == Reference
    IN /\ [k \in DOMAIN values |-> Bare(values[k])] = r.values
       /\ events = r.told /\ skipping = r.skipping /\ opened = r.open
       /\ entities = r.known /\ generals = r.generals
       /\ (parsers[Root].stage = "failed") = r.failed

(* What each parser wrote of a value, for any other application.           *)
WrittenBy(text, p) == LET own == SelectSeq(text, LAMBDA x : x.by = p)
                      IN [k \in DOMAIN own |-> own[k].item]
OwnText(p, d) ==
    IF p = Root
    THEN Expanded(d.items, d.normalize, FALSE, {}, 0, Blank(scenario.entities, FALSE, 0, {}), <<>>).text
    ELSE LET doc == Document(p)
         IN Expanded(Drop(doc, FirstDeclaration(doc)), TRUE, TRUE, {}, 0,
                     Blank(scenario.entities, FALSE, 0, {}), <<>>).text
PiecesKept(v, d) ==
    /\ v.declared => WrittenBy(v.text, Root) = OwnText(Root, d)
    /\ \A c \in Writers(v) : IsPrefix(WrittenBy(v.text, c), OwnText(c, NONE))

(* However the documents are cut, and whatever the application reads,       *)
(* leaves unread, gives up on or sees fail, the values declared, the later  *)
(* declarations that are skipped, the entities left open and everything     *)
(* the application was told are those of the recursion: the family's one    *)
(* read marker says of each reference what its own child did.  Where a      *)
(* parent goes on without waiting, children go on after it and calls meet   *)
(* on the output's lock, what each parser wrote of a value is what its own  *)
(* frames expand to, from the start and without gaps, all of it for the     *)
(* declaring parser.                                                       *)
ValuesExpected ==
    IF scenario.orderly THEN Over => OrderlyOutcome
    ELSE \A k \in DOMAIN values : PiecesKept(values[k], scenario.literals[k])
=============================================================================
