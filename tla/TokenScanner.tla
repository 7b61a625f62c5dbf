---------------------------- MODULE TokenScanner ---------------------------
(***************************************************************************)
(* How the core parser finds the tokens of a document that arrives in      *)
(* pieces.  A scan that meets the end of what arrived keeps its progress   *)
(* (struct Scan) and goes on when more has come; it may be put off until   *)
(* enough has (reparse deferral).  Text, references, start tags and end    *)
(* tags also have a second, faster scanner each, used for plain native     *)
(* UTF-8 and giving way to the first when in doubt.                        *)
(*                                                                         *)
(* One document source; tokens are found and consumed, not interpreted:    *)
(* declarations are whole, and elements only opened and closed.  CDATA     *)
(* sections, entity sources and composed declarations are not here.        *)
(***************************************************************************)
EXTENDS TagPlanner

CONSTANTS
    Inputs,         \* records: see InputsAssumption
    LineCutoff      \* bytes after which text is no longer merged (65536)

(* An input: its text; Limits::max_token_bytes and max_attributes; how     *)
(* many attributes the planner has room for; whether deferral is on;       *)
(* whether the C adapter reads it, and whether start tags are planned      *)
(* (not when attributes have defaults).                                    *)
ASSUME InputsAssumption ==
    /\ LineCutoff \in Nat \ {0}
    /\ \A i \in Inputs :
          /\ DOMAIN i = {"text", "limit", "attributes", "room", "deferral", "adapter", "plans"}
          /\ i.limit > 0

VARIABLES
    input,          \* the input, constant
    parser,         \* the fields of Parser that reading tokens uses
    source,         \* struct Source: cursor, scan, deferred_size, position
    planner         \* Parser::tag_scanner and raw_attributes

vars == <<input, parser, source, planner>>

OpenComment  == <<"<", "!", "-", "-">>
CloseComment == <<"-", "-", ">">>
OpenPi       == <<"<", "?">>
ClosePi      == <<"?", ">">>
OpenEnd      == <<"<", "/">>
OpenDoctype  == <<"<", "!", "D", "O", "C", "T", "Y", "P", "E">>

-----------------------------------------------------------------------------
(* The resumable scans of Source.  Each gets the text from the token on    *)
(* and the progress kept, and finds the end of the token, an error, or     *)
(* that it needs more and from where.                                      *)

NewScan == [mode |-> NONE, checked |-> 0, quote |-> NONE, within |-> NONE]

Found(end)      == [is |-> "token", at |-> end, kind |-> NONE, scan |-> NewScan]
Failed(kind, i) == [is |-> "error", at |-> i, kind |-> kind, scan |-> NewScan]
(* Variant: the progress of a scan is lost.                                *)
MoreAnew(scan, i) == [is |-> "more", at |-> NONE, kind |-> NONE,
                      scan |-> [scan EXCEPT !.checked = 0]]
More(scan, i) == [is |-> "more", at |-> NONE, kind |-> NONE,
                  scan |-> [scan EXCEPT !.checked = i]]

Bounded(t, limit, more) == IF Len(t) > limit THEN Failed("LimitExceeded", limit) ELSE more

(* End tag: a name, white space, `>`.                                      *)
ScanEnd(t, scan, limit) ==
    LET start == Max({scan.checked, 2})
        afterName(i) == \E j \in (IF start > 2 THEN start - 1 ELSE start)..(i - 1) :
                            At(t, j) \in White
        over(i) == i + Width(t, i) > limit
        bad(i) == At(t, i) \notin White /\ (afterName(i) \/ At(t, i) \notin NameChar)
        stops == {i \in start..(Len(t) - 1) :
                     At(t, i) # "~" /\ (over(i) \/ At(t, i) = ">" \/ bad(i))}
    IN IF stops = {} THEN Bounded(t, limit, More(scan, Len(t)))
       ELSE LET i == Min(stops)
            IN CASE over(i) -> Failed("LimitExceeded", i)
                 [] At(t, i) = ">" -> Found(i + 1)
                 [] OTHER -> Failed("InvalidToken", i)

(* Start tag: to the `>` outside quotes (scan_element_tag).                *)
NextQuote(quote, u) ==
    IF quote = NONE THEN IF u \in Quotes THEN u ELSE NONE
    ELSE IF u = quote THEN NONE ELSE quote

RECURSIVE ScanElement(_, _, _, _)
ScanElement(t, scan, limit, i) ==
    CASE i >= Len(t) -> Bounded(t, limit, More(scan, i))
      [] At(t, i) = "<" -> Failed("InvalidToken", i)
      [] At(t, i) # "<" /\ i >= limit -> Failed("LimitExceeded", limit)
      [] At(t, i) = ">" /\ i < limit /\ scan.quote = NONE -> Found(i + 1)
      [] OTHER -> ScanElement(t, [scan EXCEPT !.quote = NextQuote(@, At(t, i))], limit, i + 1)

(* Comment or processing instruction: to its terminator, which may be cut. *)
ScanTo(t, scan, limit, start, terminator) ==
    LET at == FindPart(t, Max({scan.checked, start}), terminator)
        end == at + Len(terminator)
    IN CASE at = NONE ->
              Bounded(t, limit, More(scan, Max({Len(t) - (Len(terminator) - 1), 0})))
         [] at # NONE /\ end <= limit -> Found(end)
         [] OTHER -> Failed("LimitExceeded", limit)

(* Declarations: past literals, and in a DOCTYPE past comments and         *)
(* instructions, to `>`, to `[`, or to a `%` that starts a reference.      *)
Ending(within) == IF within = "comment" THEN CloseComment ELSE ClosePi

RECURSIVE ScanDeclaration(_, _, _, _)
WithinScan(t, scan, limit, i) ==
    LET end == Ending(scan.within)
    IN CASE Starts(t, i, end) ->
              ScanDeclaration(t, [scan EXCEPT !.within = NONE], limit, i + Len(end))
         [] At(t, i) = end[1] /\ Len(t) - i < Len(end) -> Bounded(t, limit, More(scan, i))
         [] OTHER -> ScanDeclaration(t, scan, limit, i + 1)

OpeningScan(t, scan, limit, i) ==
    LET into(within, n) ==
            ScanDeclaration(t, [scan EXCEPT !.within = within], limit, i + n)
    IN CASE Starts(t, i, OpenComment) -> into("comment", 4)
         [] Starts(t, i, OpenPi) -> into("pi", 2)
         [] At(t, i + 1) # "?" /\ Len(t) - i < 4 -> Bounded(t, limit, More(scan, i))
         [] OTHER -> ScanDeclaration(t, scan, limit, i + 1)

PlainScan(t, scan, limit, i) ==
    LET u == At(t, i)
        on(quote) == ScanDeclaration(t, [scan EXCEPT !.quote = quote], limit, i + 1)
        reference == u = "%" /\ scan.mode = "DtdDeclaration"
    IN CASE u \in Quotes -> on(u)
         [] reference /\ i + 1 = Len(t) -> Bounded(t, limit, More(scan, i))
         [] reference /\ i + 1 < Len(t) /\ At(t, i + 1) \notin White -> Found(i + 1)
         [] u = "[" /\ scan.mode = "Doctype" -> Found(i + 1)
         [] u = ">" -> Found(i + 1)
         [] OTHER -> on(NONE)

ScanDeclaration(t, scan, limit, i) ==
    IF i >= Len(t) THEN Bounded(t, limit, More(scan, i))
    ELSE IF i >= limit THEN Failed("LimitExceeded", limit)
    ELSE IF scan.within # NONE THEN WithinScan(t, scan, limit, i)
    ELSE IF scan.quote # NONE
         THEN ScanDeclaration(t, [scan EXCEPT !.quote = NextQuote(@, At(t, i))], limit, i + 1)
    ELSE IF scan.mode = "Doctype" /\ At(t, i) = "<" /\ i # 0
         THEN OpeningScan(t, scan, limit, i)
    ELSE PlainScan(t, scan, limit, i)

ScanBytes(t, scan, mode, limit) ==
    CASE mode = "Tag" /\ Starts(t, 0, OpenEnd) -> ScanEnd(t, scan, limit)
      [] mode = "Tag" /\ At(t, 0) = "<" /\ At(t, 1) \notin {"!", "/"} ->
           ScanElement(t, scan, limit, Max({scan.checked, 1}))
      [] mode = "Comment" -> ScanTo(t, scan, limit, 4, CloseComment)
      [] mode = "Pi" -> ScanTo(t, scan, limit, 2, ClosePi)
      [] OTHER -> ScanDeclaration(t, scan, limit, scan.checked)

ScanToken(t, scan, mode, limit) ==
    LET kept == IF scan.mode = mode THEN scan ELSE [NewScan EXCEPT !.mode = mode]
        result == ScanBytes(t, kept, mode, limit)
    IN IF result.kind = "LimitExceeded"
       THEN [result EXCEPT !.at = FloorBoundary(t, @)] ELSE result

(* A reference, to its `;`.                                                *)
Numeric(t) == Starts(t, 0, <<"&", "#">>)
Hexadecimal(t) == Numeric(t) /\ At(t, 2) = "x"
DigitsStart(t) == IF Hexadecimal(t) THEN 3 ELSE 2

ReferenceUnit(t, i, u) ==
    LET numeric == Numeric(t)
        hex == Hexadecimal(t)
    IN CASE i = 1 -> numeric \/ u \in NameStart
         [] i # 1 /\ numeric ->
              \/ i = 2 /\ u = "x"
              \/ u \in Digits
              \/ hex /\ u \in HexLetter
         [] OTHER -> u \in NameChar

ScanReference(t, scan, limit) ==
    LET start == Max({scan.checked, 1})
        empty == {1} \cup (IF Numeric(t) THEN {DigitsStart(t)} ELSE {})
        stops == {i \in start..(Len(t) - 1) : At(t, i) # "~" /\
                     (i >= limit \/ At(t, i) = ";" \/ ~ReferenceUnit(t, i, At(t, i)))}
    IN IF stops = {}
       THEN IF Len(t) > limit THEN Failed("LimitExceeded", 0) ELSE More(scan, Len(t))
       ELSE LET i == Min(stops)
            IN CASE i >= limit -> Failed("LimitExceeded", 0)
                 [] i < limit /\ At(t, i) = ";" /\ i \notin empty -> Found(i)
                 [] OTHER -> Failed("InvalidToken", i)

(* A quoted literal of the prolog; its closing quote is kept.              *)
ScanPrologLiteral(t, scan, limit) ==
    LET start == Max({scan.checked, 1})
        stops == {i \in start..(Len(t) - 1) : At(t, i) # "~" /\
                     (i >= limit \/ At(t, i) \in {"^", At(t, 0)})}
    IN IF stops = {}
       THEN IF Len(t) > limit THEN Failed("LimitExceeded", 0) ELSE More(scan, Len(t))
       ELSE LET i == Min(stops)
            IN CASE i >= limit -> Failed("LimitExceeded", 0)
                 [] i < limit /\ At(t, i) = "^" -> Failed("InvalidToken", i)
                 [] OTHER -> [Found(i + 1) EXCEPT !.scan = [scan EXCEPT !.checked = i]]

-----------------------------------------------------------------------------
(* The scans that answer at once or not at all.                            *)

(* ScalarReference::scan: the bytes of a complete scalar reference.        *)
ScalarReference(t, limit) ==
    LET end == FindPart(t, 0, <<";">>)
        name == Slice(t, 1, end)
        digits == From(name, IF At(name, 1) = "x" THEN 2 ELSE 1)
        isDigit(u) == u \in Digits \/ (At(name, 1) = "x" /\ u \in HexLetter)
    IN IF \/ end = NONE
          \/ end >= limit
          \/ name \notin Predefined /\
                \/ At(name, 0) # "#" \/ digits = <<>>
                \/ \E i \in DOMAIN digits : ~isDigit(digits[i])
          \/ CharacterReference(name).is # "scalar"
       THEN NONE ELSE end + 1

(* Parser::matching_root_end_tag                                           *)
MatchingEnd(t, name, limit) ==
    LET end == Len(name) + 3
    IN IF end <= limit /\ At(t, end - 1) = ">" /\ Starts(t, 0, OpenEnd)
          /\ Slice(t, 2, end - 1) = name
       THEN end ELSE NONE

(* TextPlan::scan.                                                         *)
Uncertain == {"@", "]", "^", "E", "~"}

PlanOf(t, end) ==
    LET lines == {i \in 0..(end - 1) : At(t, i) = "$"}
    IN [end |-> end, newlines |-> Cardinality(lines),
        trailing |-> end - (IF lines = {} THEN 0 ELSE Max(lines) + 1),
        leading |-> At(t, 0) = "$"]

TextPlan(t, coalesce) ==
    LET limit == Min({Len(t), LineCutoff})
        delimits(u) == u \in {"<", "&"} \/ (u = "$" /\ ~coalesce)
        end == FirstFrom(Prefix(t, limit), 0, LAMBDA u : delimits(u) \/ u \in Uncertain)
        cut == end = LineCutoff /\ Len(t) > LineCutoff
    IN CASE At(t, 0) = "$" /\ ~coalesce -> PlanOf(t, 1)
         [] end < limit /\ At(t, end) \in Uncertain -> NONE
         [] cut /\ ~delimits(At(t, end)) -> NONE
         [] OTHER -> PlanOf(t, end)

(* TextPlan::scan_outer_whitespace                                         *)
OuterPlan(t) ==
    LET end == FirstFrom(t, 0, LAMBDA u : u \notin {" ", "_"})
    IN IF end = 0 \/ (end < Len(t) /\ At(t, end) \notin {"<", "&", "@", "$"})
       THEN NONE ELSE PlanOf(t, end)

(* TextPlan::advance_position                                              *)
AdvanceByPlan(p, plan) ==
    IF plan.end = 0 THEN p
    ELSE [line |-> p.line + plan.newlines - (IF plan.leading /\ p.cr /\ plan.newlines > 0
                                             THEN 1 ELSE 0),
          column |-> IF plan.newlines = 0 THEN p.column + plan.end ELSE plan.trailing,
          cr |-> FALSE]

(* Parser::parse_text: where a text token ends when no plan says it.       *)
IsBreak(t, i) == At(t, i) \in {"$", "@"}
PastBreak(t, i) == IF At(t, i) = "@" /\ At(t, i + 1) = "$" THEN i + 2 ELSE i + 1

MergedTo(t, i) ==
    LET breaks == {j \in 0..(i - 1) : IsBreak(t, j)}
    IN IF breaks = {} THEN i ELSE Max({PastBreak(t, j) : j \in breaks})

ScalarTextEnd(t, coalesce) ==
    LET markup(i) == At(t, i) \in {"<", "&"}
        merged(i) == coalesce /\ \E j \in 0..(i - 1) : IsBreak(t, j)
        stops == {i \in 0..(Len(t) - 1) :
                     \/ markup(i)
                     \/ IsBreak(t, i) /\ (~coalesce \/ i >= LineCutoff)
                     \/ i >= LineCutoff /\ merged(i)}
        i == Min(stops)
    IN CASE stops = {} -> Len(t)
         [] stops # {} /\ i = 0 /\ IsBreak(t, 0) -> PastBreak(t, 0)
         [] stops # {} /\ ~markup(i) /\ merged(i) -> MergedTo(t, i)
         [] OTHER -> i

(* coalesced_text_end                                                      *)
CoalescedEnd(t) ==
    LET seen == Prefix(t, Min({Len(t), LineCutoff + 1}))
        end == FirstFrom(seen, 0, LAMBDA u : u \in {"<", "&"})
    IN IF end < Len(seen) THEN end ELSE IF Len(t) <= LineCutoff THEN Len(t) ELSE NONE

TextEnd(t, plan, coalesce) ==
    CASE plan # NONE -> plan.end
      [] plan = NONE /\ coalesce /\ CoalescedEnd(t) # NONE -> CoalescedEnd(t)
      [] OTHER -> ScalarTextEnd(t, coalesce)

(* What waits for more: a CR that may become CRLF, and brackets that may   *)
(* become `]]>`.                                                           *)
Brackets(t, end) ==
    LET kept == {i \in 0..end : \A j \in i..(end - 1) : j >= Len(t) - 2 /\ At(t, j) = "]"}
    IN Min(kept)

HeldBack(t, end, final) ==
    IF end < Len(t) \/ final THEN end
    ELSE Brackets(t, IF At(t, end - 1) = "@" THEN end - 1 ELSE end)
-----------------------------------------------------------------------------
(* One token at a time.                                                    *)

Rest == Slice(input.text, source.cursor, parser.fed)

Init ==
    /\ input \in Inputs
    /\ parser = [fed |-> 0, final |-> FALSE, feedStart |-> 0, subset |-> FALSE, seen |-> FALSE,
                 stack |-> <<>>, tokens |-> <<>>, status |-> "wait", error |-> NONE]
    /\ source = [cursor |-> 0, scan |-> NewScan, deferred |-> 0, place |-> StartPlace]
    /\ planner = NewPlanner(NONE)

(* Parser::feed_inner, here with the text already decoded.                 *)
Feed(n, final) ==
    /\ parser.status = "wait" /\ ~parser.final
    /\ parser.fed + n <= Len(input.text) /\ (n = 0 => final)
    /\ final => parser.fed + n = Len(input.text)
    /\ parser' = [parser EXCEPT !.fed = @ + n, !.final = final, !.feedStart = source.cursor,
                                !.status = "run"]
    /\ UNCHANGED <<source, planner>>

Stopped(kind, offset) ==
    [parser EXCEPT !.status = "end", !.error = [kind |-> kind, at |-> source.cursor + offset]]

Raise(kind, offset) ==
    /\ parser' = Stopped(kind, offset)
    /\ UNCHANGED source

Waits ==
    /\ parser' = [parser EXCEPT !.status = "wait"]
    /\ UNCHANGED source

(* A token needs more: with the last piece it is an error, and else the    *)
(* progress is kept.  If this piece brought only more of the same token,   *)
(* the next scan is put off until the text has doubled.                    *)
Keep(scan, marks) ==
    /\ parser' = [parser EXCEPT !.status = "wait"]
    /\ source' = [source EXCEPT !.scan = scan,
                     !.deferred = IF marks /\ source.cursor = parser.feedStart
                                  THEN Len(Rest) ELSE @]

Starve(scan, marks) ==
    IF parser.final THEN Raise("UnclosedToken", 0) ELSE Keep(scan, marks)

(* Variant: what was put off is scanned again only when a new token comes. *)
DefersForever == input.deferral /\ ~parser.final /\ source.deferred > 0

(* Source::should_defer                                                    *)
Defers ==
    /\ input.deferral /\ ~parser.final
    /\ source.deferred > 0
    /\ Len(Rest) < 2 * source.deferred /\ Len(Rest) <= input.limit

(* Source::consume, consume_ascii_tag and consume_text with finish_consume.*)
Consumed(n, place) ==
    [source EXCEPT !.cursor = @ + n, !.scan = NewScan, !.deferred = 0, !.place = place]
Consume(n) == source' = Consumed(n, AdvancePlace(source.place, Prefix(Rest, n)))
ConsumeAscii(n) == source' = Consumed(n, [source.place EXCEPT !.column = @ + n, !.cr = FALSE])
ConsumePlan(p) == source' = Consumed(p.end, AdvanceByPlan(source.place, p))

Token(kind, n, attributes) ==
    [kind |-> kind, start |-> source.cursor, end |-> source.cursor + n,
     attributes |-> attributes]
WithToken(kind, n, attributes) ==
    [parser EXCEPT !.tokens = Append(@, Token(kind, n, attributes))]

InContent == parser.status = "run" /\ Rest # <<>> /\ ~parser.subset
InSubset  == parser.status = "run" /\ Rest # <<>> /\ parser.subset
InRoot    == parser.stack # <<>>
ClosedRoot == parser.seen /\ ~InRoot

(* Which scan a `<` calls for, from as much of the text as there is.       *)
IsOpening(t, openings) == \E o \in openings : Len(t) < Len(o) /\ Starts(o, 0, t)

Mode(t) ==
    CASE Starts(t, 0, OpenComment) -> "Comment"
      [] Starts(t, 0, OpenPi) -> "Pi"
      [] Starts(t, 0, OpenDoctype) -> "Doctype"
      [] IsOpening(t, {OpenComment, OpenDoctype}) -> "Partial"
      [] Starts(t, 0, <<"<", "!">>) /\ ~IsOpening(t, {OpenComment, OpenDoctype})
           /\ ~Starts(t, 0, OpenComment) /\ ~Starts(t, 0, OpenDoctype) -> "Unknown"
      [] OTHER -> "Tag"

NameAt(t) == IF Starts(t, 0, OpenEnd) \/ Starts(t, 0, OpenPi) THEN 2 ELSE 1
BadName(t, mode) ==
    mode \in {"Tag", "Pi"} /\ Len(t) > NameAt(t) /\ At(t, NameAt(t)) \notin NameStart

PartialMarkup ==
    /\ InContent /\ At(Rest, 0) = "<" /\ Mode(Rest) = "Partial"
    /\ IF parser.final THEN Raise("UnclosedToken", 0) ELSE Waits

RefuseMarkup ==
    /\ InContent /\ At(Rest, 0) = "<"
    /\ \/ Mode(Rest) = "Unknown" /\ Raise("InvalidToken", 0)
       \/ BadName(Rest, Mode(Rest)) /\ Raise("InvalidToken", NameAt(Rest))

Markup(mode) ==
    InContent /\ At(Rest, 0) = "<" /\ Mode(Rest) = mode /\ ~BadName(Rest, mode)

IsMarkup == \E mode \in {"Comment", "Pi", "Doctype", "Tag"} : Markup(mode)

(* Not yet: the text has not doubled since the last scan.                  *)
DeferToken ==
    /\ \/ IsMarkup
       \/ InContent /\ At(Rest, 0) = "&" /\ InRoot
       \/ InSubset /\ At(Rest, 0) = "<"
    /\ Defers
    /\ Waits

(* A scan that did not find the token: an error, or more is needed.        *)
NotFound(result, marks) ==
    \/ result.is = "error" /\ Raise(result.kind, result.at)
    \/ result.is = "more" /\ Starve(result.scan, marks)

FirstInvalid(t) == FindPart(t, 0, <<"^">>)

(* The text of a complete comment.                                         *)
HyphensAt(t) ==
    LET text == Slice(t, 4, Len(t) - 3)
        at == FindPart(text, 0, <<"-", "-">>)
    IN CASE at # NONE -> 4 + at + 2
         [] at = NONE /\ text # <<>> /\ Last(text) = "-" -> 5 + Len(text)
         [] OTHER -> NONE

(* Comments, instructions and the opening of a DOCTYPE.                    *)
ReadMisc(mode) ==
    /\ Markup(mode) /\ mode # "Tag" /\ ~Defers
    /\ \E result \in {ScanToken(Rest, source.scan, mode, input.limit)} :
       IF result.is # "token" THEN NotFound(result, TRUE)
       ELSE \E token \in {Prefix(Rest, result.at)} :
            CASE FirstInvalid(token) # NONE -> Raise("InvalidToken", FirstInvalid(token))
              [] FirstInvalid(token) = NONE /\ mode = "Comment" /\ HyphensAt(token) # NONE ->
                   Raise("InvalidToken", HyphensAt(token))
              [] OTHER ->
                   /\ parser' = [WithToken(mode, result.at, <<>>) EXCEPT
                                    !.subset = mode = "Doctype" /\ Last(token) = "["]
                   /\ Consume(result.at)

(* A start tag, planned or scanned.                                        *)
Placed(attributes, offset) ==
    [i \in DOMAIN attributes |-> Relative(attributes[i], -offset)]

Opened(t, name, attributes) ==
    LET empty == At(t, Len(t) - 2) = "/"
    IN [WithToken("Start", Len(t), attributes) EXCEPT
           !.seen = TRUE, !.stack = IF empty THEN @ ELSE Append(@, name)]

OpenPlanned(plan) ==
    LET p == plan.planner IN
    /\ parser' = Opened(Prefix(Rest, plan.end), Slice(Rest, 1, p.nameEnd),
                        Placed(p.records, source.cursor + p.nameEnd))
    /\ IF plan.bare THEN ConsumeAscii(plan.end) ELSE Consume(plan.end)

OpenScanned(token) ==
    LET empty == At(token, Len(token) - 2) = "/"
        nameEnd == NameEnd(token, 1)
        body == Slice(token, nameEnd, Len(token) - (IF empty THEN 2 ELSE 1))
    IN \E read \in {RawAttributes(body, TRUE, input.attributes)} :
       IF read.failure # NONE
       THEN Raise(read.failure.kind, nameEnd + read.failure.at)
       ELSE /\ parser' = Opened(token, Slice(token, 1, nameEnd),
                                Placed(read.attributes, source.cursor + nameEnd))
            /\ Consume(Len(token))

ScannedStart ==
    \E result \in {ScanToken(Rest, source.scan, "Tag", input.limit)} :
       IF result.is # "token" THEN NotFound(result, TRUE)
       ELSE \E token \in {Prefix(Rest, result.at)} :
            CASE FirstInvalid(token) # NONE -> Raise("InvalidToken", FirstInvalid(token))
              [] FirstInvalid(token) = NONE /\ ClosedRoot -> Raise("JunkAfterDocumentElement", 0)
              [] OTHER -> OpenScanned(token)

Query == [limit |-> input.limit, attributes |-> input.attributes, room |-> input.room]

PlannedTag ==
    {Judged(plan, Rest, Query) :
        plan \in {Advanced(p, Visible(Rest, Query), Query) :
                     p \in {Resumed(planner, source.cursor)}}}

ReadStart ==
    /\ Markup("Tag") /\ ~Starts(Rest, 0, OpenEnd) /\ ~Defers
    /\ \E plan \in IF input.plans THEN PlannedTag ELSE {Fallback(planner)} :
       /\ planner' = plan.planner
       /\ CASE plan.is = "Incomplete" -> Starve(source.scan, TRUE)
            [] plan.is = "Fallback" -> ScannedStart
            [] plan.is = "Complete" /\ ClosedRoot -> Raise("JunkAfterDocumentElement", 0)
            [] plan.is = "Complete" /\ ~ClosedRoot -> OpenPlanned(plan)

(* An end tag, recognized by its name or scanned.                          *)
Closed(n) ==
    /\ parser' = [WithToken("End", n, <<>>) EXCEPT !.stack = Front(@)]
    /\ Consume(n)

ScannedEnd(n) ==
    LET name == Slice(Rest, 2, NameEnd(Rest, 2)) IN
    CASE ~InRoot -> Raise("InvalidToken", 1)
      [] InRoot /\ name # Last(parser.stack) -> Raise("TagMismatch", 2)
      [] OTHER -> Closed(n)

ReadEnd ==
    /\ Markup("Tag") /\ Starts(Rest, 0, OpenEnd) /\ ~Defers
    /\ \E matched \in {IF InRoot THEN MatchingEnd(Rest, Last(parser.stack), input.limit)
                       ELSE NONE} :
       IF matched # NONE THEN Closed(matched)
       ELSE \E result \in {ScanToken(Rest, source.scan, "Tag", input.limit)} :
            IF result.is # "token" THEN NotFound(result, TRUE) ELSE ScannedEnd(result.at)

(* A reference: at once for the adapter if it can be, or scanned.          *)
ReadScalar ==
    /\ InContent /\ At(Rest, 0) = "&" /\ InRoot /\ input.adapter /\ ~Defers
    /\ \E n \in {ScalarReference(Rest, input.limit)} :
       /\ n # NONE
       /\ parser' = WithToken("Reference", n, <<>>)
       /\ ConsumeAscii(n)

ReadReference ==
    /\ InContent /\ At(Rest, 0) = "&"
    /\ IF ~InRoot THEN Raise("InvalidToken", 0)
       ELSE /\ ~Defers
            /\ ~(input.adapter /\ ScalarReference(Rest, input.limit) # NONE)
            /\ \E result \in {ScanReference(Rest, source.scan, input.limit)} :
               CASE result.is # "token" -> NotFound(result, TRUE)
                 [] result.is = "token"
                      /\ CharacterReference(Slice(Rest, 1, result.at)).is = "error" ->
                      Raise("BadCharacterReference", 0)
                 [] OTHER -> /\ parser' = WithToken("Reference", result.at + 1, <<>>)
                             /\ Consume(result.at + 1)
-----------------------------------------------------------------------------
(* Text.                                                                   *)

PlainText == InContent /\ At(Rest, 0) \notin {"<", "&"}

(* The adapter's own path: next_native_character_data_for_c.               *)
NativePlan ==
    IF ~input.adapter \/ At(Rest, 0) \in {"]", "@"} THEN NONE
    ELSE TextPlan(Prefix(Rest, FloorBoundary(Rest, LineCutoff + 1)), FALSE)

Deliverable(plan) ==
    /\ plan # NONE
    /\ plan.end > 0 /\ plan.end <= LineCutoff

ReadNativeText ==
    /\ PlainText /\ InRoot
    /\ \E plan \in {NativePlan} : Deliverable(plan) /\ ConsumePlan(plan)
    /\ UNCHANGED parser

(* parse_text within the root.  Text before what is forbidden is taken     *)
(* first, `]]>` only with the lines before its own.                        *)
BeforeForbidden(t, end) ==
    LET invalid == FindPart(Prefix(t, end), 0, <<"^">>)
        closing == FindPart(Prefix(t, end), 0, <<"]", "]", ">">>)
        breaks == {j \in 0..(closing - 1) : IsBreak(t, j)}
        first == closing # NONE /\ (invalid = NONE \/ closing < invalid)
    IN CASE first /\ breaks = {} -> [end |-> 0, error |-> closing + 2]
         [] first /\ breaks # {} -> [end |-> Max(breaks) + 1, error |-> NONE]
         [] ~first /\ invalid # NONE -> [end |-> invalid, error |-> invalid]
         [] OTHER -> [end |-> end, error |-> NONE]

TakeText(n, plan) ==
    /\ IF plan # NONE /\ n = plan.end THEN ConsumePlan(plan) ELSE Consume(n)
    /\ UNCHANGED parser

ReadTextTo(t, plan, end) ==
    \E clean \in {IF plan = NONE THEN BeforeForbidden(t, end)
                  ELSE [end |-> end, error |-> NONE]} :
       CASE end = 0 -> Waits
         [] end > 0 /\ clean.end = 0 -> Raise("InvalidToken", clean.error)
         [] OTHER -> TakeText(clean.end, plan)

ReadText ==
    /\ PlainText /\ InRoot /\ ~Deliverable(NativePlan)
    /\ \E plan \in {TextPlan(Rest, ~input.adapter)} :
       ReadTextTo(Rest, plan, HeldBack(Rest, TextEnd(Rest, plan, ~input.adapter), parser.final))

(* Outside the root there is only white space (other text is not in the    *)
(* inputs), and before it perhaps a literal, an error once it is complete. *)
OuterPart(t) ==
    LET end == FirstFrom(t, 0, LAMBDA u : u \notin {" ", "_"})
    IN IF ~parser.seen /\ end > 0 /\ At(t, end) \in Quotes THEN Prefix(t, end) ELSE t

ReadOuterText ==
    /\ PlainText /\ ~InRoot /\ At(Rest, 0) \in White
    /\ \E part \in {OuterPart(Rest)} :
       \E plan \in {OuterPlan(part)} :
       \E end \in {HeldBack(part, TextEnd(part, plan, FALSE), parser.final \/ part # Rest)} :
       IF end = 0 THEN Waits ELSE TakeText(end, plan)

LiteralError(t, end) ==
    IF At(t, end) \in White \cup {">", "%", "[", NONE} THEN Raise("Syntax", 0)
    ELSE Raise("InvalidToken", end)

ReadPrologLiteral ==
    /\ \/ PlainText /\ ~parser.seen
       \/ InSubset
    /\ At(Rest, 0) \in Quotes
    /\ \E result \in {ScanPrologLiteral(Rest, source.scan, input.limit)} :
       CASE result.is = "token" /\ (Len(Rest) > result.at \/ parser.final) ->
              LiteralError(Rest, result.at)
         [] result.is = "token" /\ ~(Len(Rest) > result.at \/ parser.final) ->
              Keep(result.scan, FALSE)
         [] OTHER -> NotFound(result, FALSE)
-----------------------------------------------------------------------------
(* The internal subset (Parser::parse_dtd_step).                           *)

SkipWhite ==
    /\ InSubset /\ At(Rest, 0) \in White
    /\ Consume(SkipSpace(Rest, 0))
    /\ UNCHANGED parser

(* Parser::parse_parameter_reference, of an entity that nobody declared.   *)
ReadParameter ==
    /\ InSubset /\ At(Rest, 0) = "%"
    /\ \E result \in {ScanReference(Rest, source.scan, input.limit)} :
       IF result.is # "token" THEN NotFound(result, FALSE)
       ELSE /\ parser' = WithToken("Parameter", result.at + 1, <<>>)
            /\ Consume(result.at + 1)

CloseSubset ==
    /\ InSubset /\ At(Rest, 0) = "]"
    /\ \E result \in {ScanToken(Rest, source.scan, "Tag", input.limit)} :
       CASE result.is # "token" -> NotFound(result, FALSE)
         [] result.is = "token" /\ ~IsWhite(Slice(Rest, 1, result.at - 1)) -> Raise("Syntax", 0)
         [] OTHER -> /\ parser' = [WithToken("EndDoctype", result.at, <<>>) EXCEPT !.subset = FALSE]
                     /\ Consume(result.at)

SubsetMode(t) ==
    CASE Starts(t, 0, OpenComment) -> "Comment"
      [] Starts(t, 0, OpenPi) -> "Pi"
      [] OTHER -> "DtdDeclaration"

BadSubsetName(t) ==
    \/ Starts(t, 0, <<"<", "!">>) /\ Len(t) > 2 /\ At(t, 2) # "-" /\ At(t, 2) \notin NameStart
    \/ Starts(t, 0, OpenPi) /\ Len(t) > 2 /\ At(t, 2) \notin NameStart

RefuseSubset ==
    /\ InSubset /\ At(Rest, 0) \notin White \cup Quotes \cup {"%", "]"}
    /\ CASE At(Rest, 0) = "^" -> Raise("InvalidToken", 0)
         [] At(Rest, 0) = "<" /\ BadSubsetName(Rest) -> Raise("InvalidToken", 2)
         [] Rest \in {<<"<">>, <<"<", "!">>, <<"<", "!", "-">>} /\ ~parser.final -> Waits
         [] At(Rest, 0) = "<" /\ At(Rest, 1) \notin {"!", "?"}
              /\ (Rest = <<"<">> => parser.final) -> Raise("Syntax", 0)
         [] OTHER -> FALSE

(* A declaration that a `%` interrupts goes on as a composition.           *)
ReadDeclaration ==
    /\ InSubset /\ At(Rest, 0) = "<" /\ At(Rest, 1) \in {"!", "?"}
    /\ ~BadSubsetName(Rest)
    /\ Rest \in {<<"<", "!">>, <<"<", "!", "-">>} => parser.final
    /\ ~Defers
    /\ \E mode \in {SubsetMode(Rest)} :
       \E result \in {ScanToken(Rest, source.scan, mode, input.limit)} :
       IF result.is # "token" THEN NotFound(result, TRUE)
       ELSE \E token \in {Prefix(Rest, result.at)} :
            CASE Last(token) = "%" ->
                   /\ parser' = [WithToken("Composed", result.at, <<>>) EXCEPT !.status = "end"]
                   /\ UNCHANGED source
              [] Last(token) # "%" /\ FirstInvalid(token) # NONE ->
                   Raise("InvalidToken", FirstInvalid(token))
              [] OTHER -> /\ parser' = WithToken(mode, result.at, <<>>)
                          /\ Consume(result.at)

(* Nothing is left.                                                        *)
ReadEmpty ==
    /\ parser.status = "run" /\ Rest = <<>>
    /\ CASE ~parser.final -> Waits
         [] parser.final /\ (InRoot \/ parser.subset \/ ~parser.seen) -> Raise("NoElements", 0)
         [] OTHER -> /\ parser' = [parser EXCEPT !.status = "end"]
                     /\ UNCHANGED source

Ended == parser.status = "end" /\ UNCHANGED <<parser, source>>

Next ==
    \/ \E n \in 0..Len(input.text), final \in BOOLEAN : Feed(n, final) /\ UNCHANGED input
    \/ ReadStart /\ UNCHANGED input
    \/ DeferToken /\ UNCHANGED <<input, planner>>
    \/ PartialMarkup /\ UNCHANGED <<input, planner>>
    \/ RefuseMarkup /\ UNCHANGED <<input, planner>>
    \/ \E mode \in {"Comment", "Pi", "Doctype"} : ReadMisc(mode) /\ UNCHANGED <<input, planner>>
    \/ ReadEnd /\ UNCHANGED <<input, planner>>
    \/ ReadScalar /\ UNCHANGED <<input, planner>>
    \/ ReadReference /\ UNCHANGED <<input, planner>>
    \/ ReadNativeText /\ UNCHANGED <<input, planner>>
    \/ ReadText /\ UNCHANGED <<input, planner>>
    \/ ReadOuterText /\ UNCHANGED <<input, planner>>
    \/ ReadPrologLiteral /\ UNCHANGED <<input, planner>>
    \/ SkipWhite /\ UNCHANGED <<input, planner>>
    \/ ReadParameter /\ UNCHANGED <<input, planner>>
    \/ CloseSubset /\ UNCHANGED <<input, planner>>
    \/ RefuseSubset /\ UNCHANGED <<input, planner>>
    \/ ReadDeclaration /\ UNCHANGED <<input, planner>>
    \/ ReadEmpty /\ UNCHANGED <<input, planner>>
    \/ Ended /\ UNCHANGED <<input, planner>>

Spec == Init /\ [][Next]_vars
=============================================================================
