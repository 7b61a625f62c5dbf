--------------------------- MODULE TokenReference --------------------------
(***************************************************************************)
(* The tokens of a whole document: each found where it stands, by the      *)
(* shape it has, with all of the text at hand.  What a scan does with the  *)
(* pieces of the document is compared with this.                           *)
(***************************************************************************)
EXTENDS TokenScanner

CONSTANT Expected       \* what each input comes to: see ExpectedAssumption

FoundAt(end)   == [is |-> "token", at |-> end, kind |-> NONE]
Wrong(kind, i) == [is |-> "error", at |-> i, kind |-> kind]

Unclosed(t, limit) ==
    IF Len(t) > limit THEN Wrong("LimitExceeded", FloorBoundary(t, limit))
    ELSE Wrong("UnclosedToken", 0)

EndWithin(t, end, limit) ==
    CASE end = NONE -> Unclosed(t, limit)
      [] end # NONE /\ end <= limit -> FoundAt(end)
      [] OTHER -> Wrong("LimitExceeded", FloorBoundary(t, limit))

(* A start tag is quoted values and what is between them; `<` is in none.  *)
RECURSIVE TagStop(_, _)
TagStop(t, i) ==
    LET at == FirstFrom(t, i, LAMBDA u : u \in {"<", ">"} \cup Quotes)
        close == FirstFrom(t, at + 1, LAMBDA u : u \in {"<", At(t, at)})
    IN IF At(t, at) \notin Quotes THEN at
       ELSE IF At(t, close) = At(t, at) THEN TagStop(t, close + 1) ELSE close

WholeStart(t, limit) ==
    LET stop == TagStop(t, 1)
    IN CASE stop >= Len(t) -> Unclosed(t, limit)
         [] stop < Len(t) /\ At(t, stop) = "<" /\ stop <= limit -> Wrong("InvalidToken", stop)
         [] stop < Len(t) /\ At(t, stop) = "<" /\ stop > limit -> EndWithin(t, stop, limit)
         [] OTHER -> EndWithin(t, stop + 1, limit)

(* An end tag is a name, white space and `>`; the first character that is  *)
(* neither, or is over the limit, is the error.                            *)
WholeEnd(t, limit) ==
    LET end == SkipSpace(t, NameEnd(t, 2))
        over == {i \in 2..(Len(t) - 1) : At(t, i) # "~" /\ i + Width(t, i) > limit}
        first == IF over = {} THEN Len(t) + 1 ELSE Min(over)
    IN CASE first <= Min({end, Len(t) - 1}) -> Wrong("LimitExceeded", first)
         [] first > end /\ At(t, end) = ">" -> FoundAt(end + 1)
         [] end >= Len(t) -> Unclosed(t, limit)
         [] OTHER -> Wrong("InvalidToken", end)

(* A declaration skips literals, and a DOCTYPE comments and instructions.  *)
PastPart(t, i, end) ==
    LET at == FindPart(t, i, end) IN IF at = NONE THEN Len(t) ELSE at + Len(end)

RECURSIVE DeclarationStop(_, _, _)
DeclarationStop(t, mode, i) ==
    LET on(j) == DeclarationStop(t, mode, j)
        u == At(t, i)
        opens == mode = "Doctype" /\ u = "<" /\ i # 0
    IN IF i >= Len(t) THEN NONE
       ELSE CASE opens /\ Starts(t, i, OpenComment) -> on(PastPart(t, i + 4, CloseComment))
              [] opens /\ Starts(t, i, OpenPi) -> on(PastPart(t, i + 2, ClosePi))
              [] opens /\ At(t, i + 1) # "?" /\ Len(t) - i < 4 -> NONE
              [] u \in Quotes -> on(PastPart(t, i + 1, <<u>>))
              [] u = "%" /\ mode = "DtdDeclaration" /\ i + 1 < Len(t)
                   /\ At(t, i + 1) \notin White -> i + 1
              [] u = ">" \/ (u = "[" /\ mode = "Doctype") -> i + 1
              [] OTHER -> on(i + 1)

Terminated(t, start, end) ==
    LET at == FindPart(t, start, end) IN IF at = NONE THEN NONE ELSE at + Len(end)

Whole(t, mode, limit) ==
    CASE mode = "Comment" -> EndWithin(t, Terminated(t, 4, CloseComment), limit)
      [] mode = "Pi" -> EndWithin(t, Terminated(t, 2, ClosePi), limit)
      [] mode = "Tag" /\ Starts(t, 0, OpenEnd) -> WholeEnd(t, limit)
      [] mode = "Tag" /\ At(t, 0) = "<" /\ ~Starts(t, 0, OpenEnd) -> WholeStart(t, limit)
      [] OTHER -> EndWithin(t, DeclarationStop(t, mode, 0), limit)

OfScan(result, t) ==
    IF result.is = "more" THEN Wrong("UnclosedToken", 0) ELSE result

-----------------------------------------------------------------------------
(* What follows from a document: its tokens and how it ends.  A reading is *)
(* as far as it came.                                                      *)

Reading == [at |-> 0, subset |-> FALSE, seen |-> FALSE, stack |-> <<>>, tokens |-> <<>>,
            error |-> NONE, over |-> FALSE]

Bad(r, kind, i) == [r EXCEPT !.error = [kind |-> kind, at |-> r.at + i], !.over = TRUE]
Past(r, n)      == [r EXCEPT !.at = @ + n]
Has(r, kind, n, attributes) ==
    [Past(r, n) EXCEPT !.tokens = Append(@, [kind |-> kind, start |-> r.at, end |-> r.at + n,
                                             attributes |-> attributes])]

WithAttributes(r, token, nameEnd, empty, read) ==
    IF read.failure # NONE THEN Bad(r, read.failure.kind, nameEnd + read.failure.at)
    ELSE [Has(r, "Start", Len(token), Placed(read.attributes, r.at + nameEnd)) EXCEPT
             !.seen = TRUE,
             !.stack = IF empty THEN @ ELSE Append(@, Slice(token, 1, nameEnd))]

StartRead(r, token, limit) ==
    LET empty == At(token, Len(token) - 2) = "/"
        nameEnd == NameEnd(token, 1)
        body == Slice(token, nameEnd, Len(token) - (IF empty THEN 2 ELSE 1))
    IN The({WithAttributes(r, token, nameEnd, empty, read) :
               read \in {RawAttributes(body, TRUE, limit)}})

EndRead(r, token) ==
    CASE r.stack = <<>> -> Bad(r, "InvalidToken", 1)
      [] r.stack # <<>> /\ Last(r.stack) # Slice(token, 2, NameEnd(token, 2)) ->
           Bad(r, "TagMismatch", 2)
      [] OTHER -> [Has(r, "End", Len(token), <<>>) EXCEPT !.stack = Front(@)]

CommentRead(r, token) ==
    IF HyphensAt(token) # NONE THEN Bad(r, "InvalidToken", HyphensAt(token))
    ELSE Has(r, "Comment", Len(token), <<>>)

TokenRead(r, token, mode, limit) ==
    CASE mode = "Tag" /\ Starts(token, 0, <<"]">>) ->
           IF IsWhite(Slice(token, 1, Len(token) - 1))
           THEN [Has(r, "EndDoctype", Len(token), <<>>) EXCEPT !.subset = FALSE]
           ELSE Bad(r, "Syntax", 0)
      [] mode = "DtdDeclaration" /\ Last(token) = "%" ->
           [Has(r, "Composed", Len(token), <<>>) EXCEPT !.over = TRUE]
      [] FirstInvalid(token) # NONE /\ At(token, 0) = "<" /\ Last(token) # "%" ->
           Bad(r, "InvalidToken", FirstInvalid(token))
      [] mode = "Tag" /\ At(token, 0) = "<" /\ FirstInvalid(token) = NONE ->
           IF Starts(token, 0, OpenEnd) THEN EndRead(r, token)
           ELSE IF r.seen /\ r.stack = <<>> THEN Bad(r, "JunkAfterDocumentElement", 0)
           ELSE StartRead(r, token, limit)
      [] mode = "Comment" /\ FirstInvalid(token) = NONE /\ ~r.subset -> CommentRead(r, token)
      [] OTHER -> [Has(r, mode, Len(token), <<>>) EXCEPT
                      !.subset = r.subset \/ (mode = "Doctype" /\ Last(token) = "[")]

AsScanned(r, i, t, mode, result) ==
    IF result.is = "error" THEN Bad(r, result.kind, result.at)
    ELSE The({TokenRead(r, token, mode, i.attributes) : token \in {Prefix(t, result.at)}})

Scanned(r, i, t, scanMode) ==
    The({The({AsScanned(r, i, t, mode, result) : result \in {Whole(t, mode, i.limit)}}) :
            mode \in {scanMode}})

ReferenceRead(r, i, t, kind) ==
    LET result == OfScan(ScanReference(t, NewScan, i.limit), t)
    IN CASE result.is = "error" -> Bad(r, result.kind, result.at)
         [] result.is # "error" /\ kind = "Reference"
              /\ CharacterReference(Slice(t, 1, result.at)).is = "error" ->
              Bad(r, "BadCharacterReference", 0)
         [] OTHER -> Has(r, kind, result.at + 1, <<>>)

LiteralRead(r, i, t) ==
    LET result == OfScan(ScanPrologLiteral(t, NewScan, i.limit), t)
    IN CASE result.is = "error" -> Bad(r, result.kind, result.at)
         [] result.is # "error" /\ At(t, result.at) \in White \cup {">", "%", "[", NONE} ->
              Bad(r, "Syntax", 0)
         [] OTHER -> Bad(r, "InvalidToken", result.at)

(* Text runs to the next markup; `]]>` and forbidden characters end it.    *)
TextRead(r, t) ==
    LET end == FirstFrom(t, 0, LAMBDA u : u \in {"<", "&"})
        invalid == FindPart(Prefix(t, end), 0, <<"^">>)
        closing == FindPart(Prefix(t, end), 0, <<"]", "]", ">">>)
    IN CASE invalid # NONE /\ (closing = NONE \/ invalid < closing) ->
              Bad(r, "InvalidToken", invalid)
         [] closing # NONE /\ (invalid = NONE \/ closing < invalid) ->
              Bad(r, "InvalidToken", closing + 2)
         [] OTHER -> Past(r, end)

ContentRead(r, i, t) ==
    LET u == At(t, 0)
        outside == r.stack = <<>>
    IN CASE u = "<" /\ Mode(t) = "Partial" -> Bad(r, "UnclosedToken", 0)
         [] u = "<" /\ Mode(t) = "Unknown" -> Bad(r, "InvalidToken", 0)
         [] u = "<" /\ BadName(t, Mode(t)) -> Bad(r, "InvalidToken", NameAt(t))
         [] u = "<" /\ Mode(t) \notin {"Partial", "Unknown"} /\ ~BadName(t, Mode(t)) ->
              Scanned(r, i, t, Mode(t))
         [] u = "&" /\ outside -> Bad(r, "InvalidToken", 0)
         [] u = "&" /\ ~outside -> ReferenceRead(r, i, t, "Reference")
         [] u \in White /\ outside -> Past(r, SkipSpace(t, 0))
         [] u \in Quotes /\ ~r.seen -> LiteralRead(r, i, t)
         [] u \notin {"<", "&"} /\ ~outside -> TextRead(r, t)

SubsetRead(r, i, t) ==
    LET u == At(t, 0)
    IN CASE u \in White -> Past(r, SkipSpace(t, 0))
         [] u = "%" -> ReferenceRead(r, i, t, "Parameter")
         [] u \in Quotes -> LiteralRead(r, i, t)
         [] u = "^" -> Bad(r, "InvalidToken", 0)
         [] u = "<" /\ BadSubsetName(t) -> Bad(r, "InvalidToken", 2)
         [] u = "<" /\ At(t, 1) \notin {"!", "?"} -> Bad(r, "Syntax", 0)
         [] u = "]" \/ (u = "<" /\ ~BadSubsetName(t) /\ At(t, 1) \in {"!", "?"}) ->
              Scanned(r, i, t, IF u = "]" THEN "Tag" ELSE SubsetMode(t))

AtEnd(r) ==
    IF r.stack # <<>> \/ r.subset \/ ~r.seen THEN Bad(r, "NoElements", 0)
    ELSE [r EXCEPT !.over = TRUE]

ReadNext(r, i) ==
    CASE r.at = Len(i.text) -> AtEnd(r)
      [] r.at # Len(i.text) /\ r.subset ->
           The({SubsetRead(r, i, t) : t \in {From(i.text, r.at)}})
      [] OTHER -> The({ContentRead(r, i, t) : t \in {From(i.text, r.at)}})

RECURSIVE ReadFrom(_, _)
ReadFrom(r, i) ==
    IF r.over THEN r ELSE The({ReadFrom(next, i) : next \in {ReadNext(r, i)}})

ASSUME ExpectedAssumption == \A i \in Inputs : Expected[i] = ReadFrom(Reading, i)

-----------------------------------------------------------------------------
(* Properties.                                                             *)

(* However a document is cut, its tokens are those of the whole document,  *)
(* each with the same bounds and the same attributes, and so is the error  *)
(* that ends it: a scan that goes on after more came, a start tag planned  *)
(* while it came, an end tag recognized by its name and a reference read   *)
(* at once all find what one scan of the whole text finds                  *)
(* (Source::scan_token, scan_reference, scan_prolog_literal,               *)
(* TagScanner::scan, matching_root_end_tag, ScalarReference::scan).        *)
TokensExpected ==
    \E expected \in {Expected[input]} :
       /\ IsPrefix(parser.tokens, expected.tokens)
       /\ parser.status = "end" =>
             /\ parser.tokens = expected.tokens
             /\ parser.error = expected.error

(* What a token must see beyond its end: a `%` may be followed by white    *)
(* space, and a `<` in a DOCTYPE may open a comment.                       *)
Lookahead(kind) == CASE kind = "Composed" -> 1 [] kind = "Doctype" -> 3 [] OTHER -> 0

(* A token whose text has come is delivered, unless deferral puts it off   *)
(* and the text has not doubled since; and a limit that is exceeded is     *)
(* reported without waiting for more (docs/security.md: token-limit errors *)
(* are not postponed because a token is deferred).                         *)
DeliveredPromptly ==
    parser.status = "wait" =>
       /\ \E expected \in {Expected[input]} :
          \E next \in {Len(parser.tokens) + 1} :
          next \in DOMAIN expected.tokens =>
             \/ expected.tokens[next].end + Lookahead(expected.tokens[next].kind) > parser.fed
             \/ input.deferral /\ Len(Rest) < 2 * source.deferred
       /\ At(Rest, 0) \in {"<", "&"} /\ (parser.subset \/ Mode(Rest) # "Partial") =>
             Len(Rest) <= input.limit

(* The next scan of an unfinished token begins where the last one stopped, *)
(* or at most a cut delimiter before: nothing but what came since is read  *)
(* again (docs/security.md: scanner progress is kept across chunks).       *)
Progress ==
    CASE planner.source # source.cursor \/ planner.disabled -> source.scan.checked
      [] planner.source = source.cursor /\ ~planner.disabled ->
           IF planner.attributes = NONE THEN planner.offset ELSE planner.attributes.offset

ProgressKept ==
    parser.status = "wait" /\ At(Rest, 0) \in {"<", "&", "%", "]"} \cup Quotes
        /\ (parser.subset \/ At(Rest, 0) = "&"
            \/ (At(Rest, 0) = "<" /\ Mode(Rest) # "Partial") \/ (At(Rest, 0) \in Quotes /\ ~InRoot))
        /\ Rest \notin {<<"<">>, <<"<", "!">>, <<"<", "!", "-">>}
    => Progress >= (IF Defers THEN source.deferred ELSE Len(Rest)) - 3

(* The position of the next token is the one counted from the start of the *)
(* document, whether tokens were consumed character by character, as       *)
(* plain ASCII or by what a text plan counted (Source::consume,            *)
(* consume_ascii_tag, TextPlan::advance_position).                         *)
PlacesExpected ==
    source.place = AdvancePlace(StartPlace, Prefix(input.text, source.cursor))
=============================================================================
