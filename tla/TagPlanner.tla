---------------------------- MODULE TagPlanner -----------------------------
(***************************************************************************)
(* The attributes of a start tag (struct AttributeScanner), scanned either *)
(* from a complete tag or from a tag still arriving, and the planner that  *)
(* finds the end and the attributes of a start tag in one pass over native *)
(* UTF-8 (struct TagScanner).  The planner answers only for tags that need *)
(* nothing more; all others, the erroneous among them, fall back to the    *)
(* boundary scan of TokenScanner and a second pass.                        *)
(***************************************************************************)
EXTENDS MarkupText

NewAttributes(offset) ==
    [phase |-> "Space", offset |-> offset, separated |-> FALSE, name |-> 0,
     nameEnd |-> 0, quote |-> NONE, value |-> 0, count |-> 0, literal |-> TRUE]

(* How the text is looked at: is all of it there, does it hold the end of  *)
(* the tag, are references allowed, how many attributes, and is literal    *)
(* text proved on the way.                                                 *)
PlannerView(limit) ==
    [final |-> FALSE, tagEnd |-> TRUE, refs |-> TRUE, limit |-> limit, literal |-> TRUE]
CompleteView(refs, limit) ==
    [final |-> TRUE, tagEnd |-> FALSE, refs |-> refs, limit |-> limit, literal |-> FALSE]

Step(is, scanner, result) == [is |-> is, scanner |-> scanner, result |-> result]
Go(scanner) == Step("Phase", scanner, NONE)
Fail(kind, at, scanner) == Step("Failure", scanner, [kind |-> kind, at |-> at])

(* A value that normalization leaves as it is (is_literal_value), and what *)
(* proves it of ASCII on the way (literal_value_end).                      *)
IsLiteral(value) == \A i \in DOMAIN value : value[i] \notin {"$", "@", "_", "^", "&"}
IsLiteralAscii(value) ==
    IsLiteral(value) /\ \A i \in DOMAIN value : value[i] \notin {"E", "~"}

(* Variant: what the pieces before held is forgotten.                      *)
ProvedAtHand(s, piece) == IsLiteralAscii(piece)
Proved(s, piece) == s.literal /\ IsLiteralAscii(piece)

InValue(s, t, v) ==
    LET end == FirstFrom(t, s.offset,
                         LAMBDA u : u = s.quote \/ (v.tagEnd /\ u = "<"))
        seen == [s EXCEPT !.literal = Proved(s, Slice(t, s.offset, end))]
        value == Slice(t, s.value, end)
        lt == FindPart(value, 0, <<"<">>)
        bad == IF lt # NONE \/ v.refs THEN lt ELSE FindPart(value, 0, <<"&">>)
    IN CASE end >= Len(t) /\ v.final -> Fail("UnclosedToken", s.value, seen)
         [] end >= Len(t) -> Step("Incomplete", [seen EXCEPT !.offset = Len(t)], NONE)
         [] At(t, end) = "<" -> Fail("InvalidToken", end, seen)
         [] ~v.literal /\ bad # NONE->
              Fail("InvalidToken", s.value + bad, seen)
         [] OTHER ->
              Step("Attribute",
                   [seen EXCEPT !.offset = end + 1, !.count = @ + 1, !.separated = FALSE,
                                !.phase = "Space"],
                   [name |-> s.name, nameEnd |-> s.nameEnd, value |-> s.value, valueEnd |-> end])

InQuote(s, t, v) ==
    LET at == SkipSpace(t, s.offset) IN
    CASE at >= Len(t) /\ ~v.final -> Step("Incomplete", [s EXCEPT !.offset = at], NONE)
      [] At(t, at) \notin Quotes -> Fail("InvalidToken", at, s)
      [] OTHER -> Go([s EXCEPT !.offset = at + 1, !.value = at + 1, !.literal = TRUE,
                               !.quote = At(t, at), !.phase = "Value"])

InEquals(s, t, v) ==
    LET at == SkipSpace(t, s.offset) IN
    CASE at >= Len(t) /\ ~v.final -> Step("Incomplete", [s EXCEPT !.offset = at], NONE)
      [] At(t, at) # "=" -> Fail("InvalidToken", at, s)
      [] OTHER -> Go([s EXCEPT !.offset = at + 1, !.phase = "Quote"])

InName(s, t, v) ==
    LET end == NameEnd(t, s.offset) IN
    CASE s.offset = s.name /\ At(t, s.offset) \notin NameStart -> Fail("InvalidToken", s.offset, s)
      [] end >= Len(t) /\ ~v.final -> Step("Incomplete", [s EXCEPT !.offset = end], NONE)
      [] OTHER -> Go([s EXCEPT !.offset = end, !.nameEnd = end, !.phase = "Equals"])

InSpace(s, t, v) ==
    LET at == SkipSpace(t, s.offset)
        moved == [s EXCEPT !.offset = at, !.separated = @ \/ at # s.offset]
        slash == v.tagEnd /\ At(t, at) = "/"
    IN CASE at >= Len(t) -> Step(IF v.final THEN "End" ELSE "Incomplete", moved, NONE)
         [] v.tagEnd /\ At(t, at) = ">" -> Step("TagEnd", moved, [end |-> at + 1, empty |-> FALSE])
         [] slash /\ At(t, at + 1) = ">" -> Step("TagEnd", moved, [end |-> at + 2, empty |-> TRUE])
         [] slash /\ at + 1 = Len(t) /\ ~v.final -> Step("Incomplete", moved, NONE)
         [] ~moved.separated -> Fail("InvalidToken", at, moved)
         [] moved.count >= v.limit -> Fail("LimitExceeded", at, moved)
         [] OTHER -> Go([moved EXCEPT !.name = at, !.phase = "Name"])

PhaseStep(s, t, v) ==
    CASE s.phase = "Space"  -> InSpace(s, t, v)
      [] s.phase = "Name"   -> InName(s, t, v)
      [] s.phase = "Equals" -> InEquals(s, t, v)
      [] s.phase = "Quote"  -> InQuote(s, t, v)
      [] s.phase = "Value"  -> InValue(s, t, v)

RECURSIVE NextAttribute(_, _, _)
NextAttribute(s, t, v) ==
    LET step == PhaseStep(s, t, v)
    IN IF step.is = "Phase" THEN NextAttribute(step.scanner, t, v) ELSE step

(* All attributes of a complete tag, without its delimiters                *)
(* (lib.rs parse_raw_attributes).                                          *)
RECURSIVE AttributesFrom(_, _, _, _)
AttributesAfter(step, t, v, sofar) ==
    CASE step.is = "Attribute" -> AttributesFrom(step.scanner, t, v, Append(sofar, step.result))
      [] step.is = "End" -> [attributes |-> sofar, failure |-> NONE]
      [] step.is = "Failure" -> [attributes |-> sofar, failure |-> step.result]

AttributesFrom(s, t, v, sofar) ==
    The({AttributesAfter(step, t, v, sofar) : step \in {NextAttribute(s, t, v)}})

RawAttributes(t, refs, limit) ==
    AttributesFrom(NewAttributes(0), t, CompleteView(refs, limit), <<>>)

-----------------------------------------------------------------------------
(* The planner.  `records` are attributes relative to the end of the name; *)
(* there is room for `room` of them and the planner never makes more.      *)

NewPlanner(source) ==
    [source |-> source, offset |-> 1, nameEnd |-> NONE, ascii |-> FALSE,
     attributes |-> NONE, disabled |-> FALSE, records |-> <<>>]

Plan(is, planner, end, bare) ==
    [is |-> is, planner |-> planner, end |-> end, bare |-> bare]
Incomplete(p) == Plan("Incomplete", p, NONE, FALSE)
Fallback(p)   == Plan("Fallback", p, NONE, FALSE)

Relative(attribute, nameEnd) == [field \in DOMAIN attribute |-> attribute[field] - nameEnd]

RECURSIVE PlanAttributes(_, _, _)
PlanStep(p, step, t, q) ==
    LET moved == [p EXCEPT !.attributes = step.scanner]
        a == step.result
    IN CASE step.is = "Attribute" ->
              IF Len(p.records) = q.room
                 \/ ~(step.scanner.literal \/ IsLiteral(Slice(t, a.value, a.valueEnd)))
              THEN Fallback(moved)
              ELSE PlanAttributes([moved EXCEPT !.records = Append(@, Relative(a, p.nameEnd))], t, q)
         [] step.is = "TagEnd" /\ a.end <= q.limit ->
              Plan("Complete", moved, a.end,
                   p.ascii /\ a.end - p.nameEnd = IF a.empty THEN 2 ELSE 1)
         [] step.is = "Incomplete" -> Incomplete(moved)
         [] OTHER -> Fallback(moved)

PlanAttributes(p, t, q) ==
    The({PlanStep(p, step, t, q) :
            step \in {NextAttribute(p.attributes, t, PlannerView(q.attributes))}})

IsAscii(piece) == \A i \in DOMAIN piece : piece[i] \notin {"E", "~"}

(* Variant: the letters of the pieces before are forgotten.                *)
AsciiAtHand(p, piece) == IsAscii(piece)
AsciiSoFar(p, piece) == (p.offset = 1 \/ p.ascii) /\ IsAscii(piece)

PlanName(p, t, q) ==
    LET end == NameEnd(t, p.offset)
        named == [p EXCEPT !.offset = end, !.ascii = AsciiSoFar(p, Slice(t, p.offset, end))]
    IN CASE p.offset = 1 /\ Len(t) < 2 -> Incomplete(p)
         [] p.offset = 1 /\ At(t, 1) \notin NameStart -> Fallback(p)
         [] end >= Len(t) -> Incomplete(named)
         [] OTHER -> PlanAttributes([named EXCEPT !.nameEnd = end,
                                                  !.attributes = NewAttributes(end)], t, q)

(* TagScanner::scan.  `source` is the offset of the tag in the input and   *)
(* q = [limit, attributes, room].                                          *)
Resumed(p, source) == IF p.source = source THEN p ELSE NewPlanner(source)

Advanced(p, t, q) ==
    CASE p.disabled -> Fallback(p)
      [] ~p.disabled /\ p.nameEnd = NONE -> PlanName(p, t, q)
      [] OTHER -> PlanAttributes(p, t, q)

Visible(t, q) == Prefix(t, FloorBoundary(t, q.limit + 1))

Judged(plan, t, q) ==
    LET overrun == plan.is = "Incomplete" /\ Len(t) > q.limit
    IN IF overrun \/ plan.is = "Fallback"
       THEN Fallback([plan.planner EXCEPT !.disabled = TRUE]) ELSE plan
=============================================================================
