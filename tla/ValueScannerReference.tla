------------------------ MODULE ValueScannerReference ------------------------
(***************************************************************************)
(* The tokens of an external entity value, as a grammar: where a token that  *)
(* starts at an offset ends, or what is wrong with it, from the whole text.  *)
(***************************************************************************)
EXTENDS ValueScanner

Has(t, i)      == i < Len(t)
Char(t, i)     == IF Has(t, i) THEN t[i + 1] ELSE NONE
MinOf(S)       == CHOOSE x \in S : \A y \in S : x <= y

(* The end of the run of characters of a class that starts at i.           *)
RunEnd(t, i, S)  == MinOf({j \in i..Len(t) : j = Len(t) \/ t[j + 1] \notin S})
FirstOf(t, i, S) == MinOf({j \in i..Len(t) : j = Len(t) \/ t[j + 1] \in S})

(* A token is [end, need, error]: its end, "complete" when the end of the   *)
(* value may follow, "unclosed" when the text ends inside it.              *)
Token(end)  == [end |-> end, error |-> NONE]
Error(kind) == [end |-> 0, error |-> kind]

(* Cut off: unclosed, unless something is wrong already.                   *)
Followed(t, end, S) == IF ~Has(t, end) \/ Char(t, end) \in S THEN Token(end) ELSE Error("InvalidToken")

LiteralAt(t, i) ==
    LET j == FirstOf(t, i + 1, {t[i + 1], "~"})
    IN CASE ~Has(t, j) -> Error("UnclosedToken")
         [] Char(t, j) = "~" -> Error("InvalidToken")
         [] OTHER -> Followed(t, j + 1, {" ", ">", "%", "["})

NameAt(t, i) ==
    LET end == RunEnd(t, i, AnyNameChars)
        colons == {k \in i..(end - 1) : namespaces /\ Char(t, k) = ":"}
        named == NameStart(t[i + 1])
        local == IF colons = {} THEN end ELSE MinOf(colons) + 1
        open == named /\ Cardinality(colons) = 1 /\ local = end
        repeats == named /\ (colons = {} \/ (Cardinality(colons) = 1 /\ ~open))
    IN CASE open /\ ~Has(t, end) -> Error("UnclosedToken")
         [] repeats /\ Char(t, end) \in {"*", "+", "?"} -> Token(end + 1)
         [] OTHER -> Followed(t, end, {" ", ">", ")", ",", "|", "[", "%"})

PoundAt(t, i) ==
    CASE ~Has(t, i + 1) -> Error("UnclosedToken")
      [] Has(t, i + 1) /\ NameStart(Char(t, i + 1)) ->
            Followed(t, RunEnd(t, i + 1, NameChars), {" ", ">", ")", "%", "|"})
      [] OTHER -> Error("InvalidToken")

PercentAt(t, i) ==
    LET end == RunEnd(t, i + 1, NameChars)
    IN CASE ~Has(t, i + 1) -> Error("UnclosedToken")
         [] Char(t, i + 1) \in {" ", "%"} -> Token(i + 1)
         [] Has(t, i + 1) /\ NameStart(Char(t, i + 1)) ->
               CASE ~Has(t, end) -> Error("UnclosedToken")
                 [] Char(t, end) = ";" -> Token(end + 1)
                 [] OTHER -> Error("InvalidToken")
         [] OTHER -> Error("InvalidToken")

ParenAt(t, i) == IF Char(t, i + 1) \in {"*", "+", "?"} THEN Token(i + 2)
                 ELSE Followed(t, i + 1, {" ", ">", ",", "|", ")"})

CommentAt(t, i) ==
    LET dashes == {k \in (i + 4)..Len(t) : Char(t, k) = "-" /\ Char(t, k + 1) = "-"}
        stop == FirstOf(t, i + 4, {"~"})
        end == IF dashes = {} THEN Len(t) ELSE MinOf(dashes)
    IN CASE Char(t, i + 3) \notin {"-", NONE} -> Error("InvalidToken")
         [] ~Has(t, i + 3) -> Error("UnclosedToken")
         [] stop < end + 2 /\ Has(t, stop) -> Error("InvalidToken")
         [] dashes = {} \/ ~Has(t, end + 2) -> Error("UnclosedToken")
         [] Char(t, end + 2) = ">" -> Token(end + 3)
         [] OTHER -> Error("InvalidToken")

KeywordAt(t, i) ==
    LET end == RunEnd(t, i + 2, NameStarts \ {"w"})
        after == Char(t, end)
    IN CASE after = NONE \/ (after = "%" /\ ~Has(t, end + 1)) -> Error("UnclosedToken")
         [] after = " " \/ (after = "%" /\ Char(t, end + 1) \notin {" ", "%", "~"}) -> Token(end)
         [] after = "%" /\ Char(t, end + 1) = "~" -> Error("InvalidToken")
         [] OTHER -> Error("InvalidToken")

PiAt(t, i) ==
    LET end == RunEnd(t, i + 2, NameChars)
        closes == {k \in (end + 1)..Len(t) : Char(t, k) = "?" /\ Char(t, k + 1) = ">"}
        close == IF closes = {} THEN Len(t) ELSE MinOf(closes)
        stop == FirstOf(t, end, {"~"})
    IN CASE ~Has(t, i + 2) -> Error("UnclosedToken")
         [] Has(t, i + 2) /\ ~NameStart(Char(t, i + 2)) -> Error("InvalidToken")
         [] ~Has(t, end) -> Error("UnclosedToken")
         [] SubSeq(t, i + 3, end) = <<"M">> -> Error("InvalidToken")
         [] Char(t, end) = " " ->
               CASE Has(t, stop) /\ stop < close -> Error("InvalidToken")
                 [] close = Len(t) -> Error("UnclosedToken")
                 [] OTHER -> Token(close + 2)
         [] Char(t, end) = "?" ->
               CASE ~Has(t, end + 1) -> Error("UnclosedToken")
                 [] Char(t, end + 1) = ">" -> Token(end + 2)
                 [] OTHER -> Error("InvalidToken")
         [] OTHER -> Error("InvalidToken")

MarkupAt(t, i) ==
    LET c == Char(t, i + 1)  d == Char(t, i + 2)
    IN CASE c = NONE \/ (c = "!" /\ d = NONE) -> Error("UnclosedToken")
         [] c = "!" /\ d = "-" -> CommentAt(t, i)
         [] c = "!" /\ d = "[" -> Token(i + 3)
         [] c = "!" /\ d \notin {NONE, "-", "["} ->
               IF DeclarationName(d) THEN KeywordAt(t, i) ELSE Error("InvalidToken")
         [] c = "?" -> PiAt(t, i)
         [] c \notin {NONE, "!", "?"} -> Error(IF NameStart(c) THEN "Syntax" ELSE "InvalidToken")

TokenAt(t, i) ==
    LET c == t[i + 1]
    IN CASE c \in {" ", ",", "[", "(", "|", ">", "]"} -> Token(i + 1)
         [] c \in {"'", "\""} -> LiteralAt(t, i)
         [] c = "<" -> MarkupAt(t, i)
         [] c = "%" -> PercentAt(t, i)
         [] c = "#" -> PoundAt(t, i)
         [] c = ")" -> ParenAt(t, i)
         [] c \in AnyNameChars -> NameAt(t, i)
         [] OTHER -> Error("InvalidToken")

(* Two brackets that the end of the value follows would end a section.     *)
OpenBrackets(t) == Len(t) >= 2 /\ t[Len(t)] = "]" /\ t[Len(t) - 1] = "]"

IsXml(t, i, end) == /\ Char(t, i) = "<" /\ Char(t, i + 1) = "?"
                    /\ SubSeq(t, i + 3, RunEnd(t, i + 2, NameChars)) = <<"m">>

RECURSIVE TokensFrom(_, _, _)
TokensFrom(t, i, found) ==
    IF ~Has(t, i) THEN [result |-> "Complete", at |-> 0, found |-> found]
    ELSE IF OpenBrackets(t) /\ i = Len(t) - 2
    THEN [result |-> "UnclosedToken", at |-> i, found |-> found]
    ELSE LET token == TokenAt(t, i)
         IN IF token.error # NONE THEN [result |-> token.error, at |-> i, found |-> found]
            ELSE TokensFrom(t, token.end,
                    IF found = {} /\ IsXml(t, i, token.end) THEN {<<i, token.end>>} ELSE found)
Tokens(t) == TokensFrom(t, 0, {})

(* Whatever the pieces the text arrives in, the scanner's answer, the place *)
(* of its error and the XML declaration it reports are those of the grammar  *)
(* on the whole text; and it asks for more only while nothing is wrong with *)
(* what has arrived.                                                        *)
ScanExpected ==
    LET whole == Tokens(full)
        sofar == Tokens(SubSeq(full, 1, arrived))
    IN /\ outcome.result \notin {"NeedMore", "XmlDeclaration"} =>
            outcome.result = whole.result /\ outcome.at = whole.at /\ reported = whole.found
       /\ outcome.result = "NeedMore" =>
            sofar.result \in {"Complete", "UnclosedToken"} /\ reported = sofar.found

(* Input that arrives one character at a time is not scanned again: each    *)
(* character is looked at twice at most.                                    *)
LinearWork == scanner.steps <= 2 * arrived
=============================================================================
