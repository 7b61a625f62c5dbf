----------------------------- MODULE ValueScanner -----------------------------
(***************************************************************************)
(* The lexical scanner of external entity values                            *)
(* (crates/xeme/src/value_lexer.rs): a state machine over an append-only    *)
(* text.  It is called whenever more text arrived, keeps its place, reports *)
(* the first XML declaration once and errors at the start of their token.   *)
(*                                                                         *)
(* Characters: "n" a letter, "m" a letter of the target xml and "M" the     *)
(* same letter in another case (a target is "xml" when it is <<"m">>),      *)
(* "w" a letter outside ASCII, "0" a name character that starts no name,    *)
(* "~" no XML character, " " white space, and punctuation                   *)
(* as itself ("&" has no place outside literals and comments).              *)
(***************************************************************************)
EXTENDS Naturals, Sequences, FiniteSets

CONSTANTS Texts, NONE

VARIABLES full,         \* the text that will arrive
          namespaces,   \* whether names are read with namespaces
          arrived,      \* how much of it is in the buffer
          final,        \* whether the buffer is complete
          scanner,      \* the ValueScanner
          outcome,      \* what the last call returned
          reported      \* the XML declarations returned so far

svars == <<full, namespaces, arrived, final, scanner, outcome, reported>>

NewScanner == [cursor |-> 0, start |-> 0, state |-> "Token", dashes |-> 0, quote |-> NONE,
               kind |-> "Name", declaration |-> FALSE, question |-> FALSE, seen |-> FALSE,
               steps |-> 0]

More == [result |-> "NeedMore", at |-> 0, to |-> 0]
Complete == [result |-> "Complete", at |-> 0, to |-> 0]
Wrong(kind, at) == [result |-> kind, at |-> at, to |-> 0]

Space(c) == c = " "
NameStarts == {"n", "m", "M", "w"} \cup IF namespaces THEN {} ELSE {":"}
NameChars == NameStarts \cup {"0"}
AnyNameChars == NameChars \cup {":"}
NameStart(c) == c \in NameStarts
NameChar(c) == c \in NameChars
DeclarationName(c) == c \in NameStarts \ {"w"}

(* One character: the scanner after it, and an outcome when the call ends.  *)
(* To consumes the character, Again looks at it once more in a new state.   *)
To(s, state) == [s |-> [s EXCEPT !.state = state, !.cursor = @ + 1], out |-> NONE]
Again(s, state) == [s |-> [s EXCEPT !.state = state], out |-> NONE]
Stays(s) == To(s, s.state)
Invalid(s) == [s |-> s, out |-> Wrong("InvalidToken", s.start)]

OnToken(s, c) ==
    CASE Space(c) -> To(s, "Token")
      [] c = "<" -> To(s, "LessThan")
      [] c \in {"'", "\""} -> To([s EXCEPT !.quote = c], "Literal")
      [] c = "%" -> To(s, "PercentStart")
      [] c = "#" -> To(s, "PoundStart")
      [] c = ")" -> To(s, "RightParen")
      [] c = "]" -> To(s, "RightBracket")
      [] c \in {",", "[", "(", "|", ">"} -> To(s, "Token")
      [] c \in AnyNameChars -> To([s EXCEPT !.kind = IF NameStart(c) THEN "Name" ELSE "Token"], "Name")
      [] OTHER -> Invalid(s)

OnLessThan(s, c) ==
    CASE c = "!" -> To(s, "DeclarationStart")
      [] c = "?" -> To(s, "PiStart")
      [] NameStart(c) \/ c = "w" -> [s |-> s, out |-> Wrong("Syntax", s.start)]
      [] OTHER -> Invalid(s)

OnDeclarationStart(s, c) ==
    CASE c = "-" -> To(s, "CommentOpen")
      [] c = "[" -> To(s, "Token")
      [] DeclarationName(c) -> To(s, "DeclarationName")
      [] OTHER -> Invalid(s)
OnDeclarationName(s, c) ==
    CASE Space(c) -> Again(s, "Token")
      [] c = "%" -> To(s, "DeclarationPercent")
      [] DeclarationName(c) -> Stays(s)
      [] OTHER -> Invalid(s)
(* The percent sign was looked at only as the keyword's separator.         *)
OnDeclarationPercentLate(s, c) ==
    IF Space(c) \/ c = "%" THEN Invalid(s)
    ELSE Again([s EXCEPT !.start = s.cursor], "PercentStart")
OnDeclarationPercent(s, c) ==
    IF Space(c) \/ c = "%" THEN Invalid(s)
    ELSE Again([s EXCEPT !.start = s.cursor - 1], "PercentStart")

OnCommentOpen(s, c) == IF c = "-" THEN To([s EXCEPT !.dashes = 0], "Comment") ELSE Invalid(s)
OnComment(s, c) ==
    CASE s.dashes = 2 /\ c = ">" -> To(s, "Token")
      [] s.dashes = 2 /\ c # ">" -> Invalid(s)
      [] s.dashes < 2 /\ c = "-" -> Stays([s EXCEPT !.dashes = @ + 1])
      [] OTHER -> Stays([s EXCEPT !.dashes = 0])

OnPiStart(s, c) == IF NameStart(c) THEN To(s, "PiName") ELSE Invalid(s)
OnPiName(s, c, text) ==
    LET target == SubSeq(text, s.start + 3, s.cursor)
        named == [s EXCEPT !.declaration = (target = <<"m">>), !.question = FALSE]
    IN CASE NameChar(c) -> Stays(s)
         [] ~NameChar(c) /\ target = <<"M">> -> Invalid(s)
         [] Space(c) -> To(named, "PiBody")
         [] c = "?" -> To(named, "PiClose")
         [] OTHER -> Invalid(s)
(* The first XML declaration ends the call, with its place.                *)
PiEnd(s) ==
    LET ended == To([s EXCEPT !.seen = @ \/ s.declaration], "Token")
    IN IF s.declaration /\ ~s.seen
       THEN [ended EXCEPT !.out = [result |-> "XmlDeclaration", at |-> s.start, to |-> s.cursor + 1]]
       ELSE ended
OnPiBody(s, c) == IF s.question /\ c = ">" THEN PiEnd(s) ELSE Stays([s EXCEPT !.question = (c = "?")])
OnPiClose(s, c) == IF c = ">" THEN PiEnd(s) ELSE Invalid(s)

OnLiteral(s, c) == IF c = s.quote THEN To(s, "AfterLiteral") ELSE Stays(s)
OnAfterLiteral(s, c) == IF Space(c) \/ c \in {">", "%", "["} THEN Again(s, "Token") ELSE Invalid(s)

OnPercentStart(s, c) ==
    CASE Space(c) \/ c = "%" -> Again(s, "Token")
      [] NameStart(c) -> To(s, "PercentName")
      [] OTHER -> Invalid(s)
OnPercentName(s, c) ==
    CASE c = ";" -> To(s, "Token")
      [] NameChar(c) -> Stays(s)
      [] OTHER -> Invalid(s)
OnPoundStart(s, c) == IF NameStart(c) THEN To(s, "PoundName") ELSE Invalid(s)
OnPoundName(s, c) ==
    CASE Space(c) \/ c \in {")", ">", "%", "|"} -> Again(s, "Token")
      [] NameChar(c) -> Stays(s)
      [] OTHER -> Invalid(s)

(* A name, a prefixed name or a name token; a colon starts a local part.   *)
OnName(s, c) ==
    LET kind == IF s.kind # "AfterColon" THEN s.kind
                ELSE IF NameChar(c) THEN "Prefixed" ELSE "Token"
        known == [s EXCEPT !.kind = kind]
    IN CASE namespaces /\ c = ":" ->
              Stays([s EXCEPT !.kind = IF kind = "Name" THEN "AfterColon" ELSE "Token"])
         [] NameChar(c) -> Stays(known)
         [] Space(c) \/ c \in {">", ")", ",", "|", "[", "%"} -> Again(known, "Token")
         [] c \in {"+", "*", "?"} /\ kind # "Token" -> To(known, "Token")
         [] OTHER -> Invalid(known)

OnRightParen(s, c) ==
    CASE c \in {"*", "?", "+"} -> To(s, "Token")
      [] Space(c) \/ c \in {">", ",", "|", ")"} -> Again(s, "Token")
      [] OTHER -> Invalid(s)
OnRightBracket(s, c) == IF c = "]" THEN To(s, "DoubleBracket") ELSE Again(s, "Token")
OnDoubleBracket(s, c) ==
    CASE c = ">" -> To(s, "Token")
      [] c = "]" -> Stays([s EXCEPT !.start = @ + 1])
      [] OTHER -> Again(s, "Token")

(* A character that is no XML character closes brackets before it is wrong. *)
OnForbidden(s) == IF s.state \in {"RightBracket", "DoubleBracket"} THEN Again(s, "Token") ELSE Invalid(s)

Step(s, text) ==
    LET c == text[s.cursor + 1]
        t == [s EXCEPT !.steps = @ + 1, !.start = IF s.state = "Token" THEN s.cursor ELSE @]
    IN CASE c = "~" -> OnForbidden(t)
         [] c # "~" /\ s.state = "Token" -> OnToken(t, c)
         [] c # "~" /\ s.state = "LessThan" -> OnLessThan(t, c)
         [] c # "~" /\ s.state = "DeclarationStart" -> OnDeclarationStart(t, c)
         [] c # "~" /\ s.state = "DeclarationName" -> OnDeclarationName(t, c)
         [] c # "~" /\ s.state = "DeclarationPercent" -> OnDeclarationPercent(t, c)
         [] c # "~" /\ s.state = "CommentOpen" -> OnCommentOpen(t, c)
         [] c # "~" /\ s.state = "Comment" -> OnComment(t, c)
         [] c # "~" /\ s.state = "PiStart" -> OnPiStart(t, c)
         [] c # "~" /\ s.state = "PiName" -> OnPiName(t, c, text)
         [] c # "~" /\ s.state = "PiBody" -> OnPiBody(t, c)
         [] c # "~" /\ s.state = "PiClose" -> OnPiClose(t, c)
         [] c # "~" /\ s.state = "Literal" -> OnLiteral(t, c)
         [] c # "~" /\ s.state = "AfterLiteral" -> OnAfterLiteral(t, c)
         [] c # "~" /\ s.state = "PercentStart" -> OnPercentStart(t, c)
         [] c # "~" /\ s.state = "PercentName" -> OnPercentName(t, c)
         [] c # "~" /\ s.state = "PoundStart" -> OnPoundStart(t, c)
         [] c # "~" /\ s.state = "PoundName" -> OnPoundName(t, c)
         [] c # "~" /\ s.state = "Name" -> OnName(t, c)
         [] c # "~" /\ s.state = "RightParen" -> OnRightParen(t, c)
         [] c # "~" /\ s.state = "RightBracket" -> OnRightBracket(t, c)
         [] c # "~" /\ s.state = "DoubleBracket" -> OnDoubleBracket(t, c)

(* At the end of the buffer: a token that the end of the value completes.  *)
Ended(s, last) ==
    CASE ~last -> More
      [] s.state \in {"Token", "AfterLiteral", "PoundName", "RightParen", "RightBracket"} -> Complete
      [] s.state = "Name" /\ s.kind # "AfterColon" -> Complete
      [] OTHER -> Wrong("UnclosedToken", s.start)

RECURSIVE Scan(_, _, _)
Scan(s, text, last) ==
    IF s.cursor = Len(text) THEN [s |-> s, out |-> Ended(s, last)]
    ELSE LET r == Step(s, text) IN IF r.out # NONE THEN r ELSE Scan(r.s, text, last)

-----------------------------------------------------------------------------
Init ==
    /\ full \in Texts /\ namespaces \in BOOLEAN
    /\ arrived = 0 /\ final = FALSE
    /\ scanner = NewScanner /\ outcome = More /\ reported = {}

(* continue_value calls the scanner when more has arrived, the end may      *)
(* arrive by itself, and calls it again after an XML declaration.           *)
Called(r) ==
    /\ scanner' = r.s /\ outcome' = r.out
    /\ reported' = IF r.out.result = "XmlDeclaration"
                   THEN reported \cup {<<r.out.at, r.out.to>>} ELSE reported

Arrive ==
    /\ outcome.result = "NeedMore"
    /\ \E n \in arrived..Len(full) : \E last \in {FALSE, n = Len(full)} :
          /\ n > arrived \/ last
          /\ arrived' = n /\ final' = last
          /\ Called(Scan(scanner, SubSeq(full, 1, n), last))
    /\ UNCHANGED <<full, namespaces>>

CallAgain ==
    /\ outcome.result = "XmlDeclaration"
    /\ Called(Scan(scanner, SubSeq(full, 1, arrived), final))
    /\ UNCHANGED <<full, namespaces, arrived, final>>

Returned == outcome.result \notin {"NeedMore", "XmlDeclaration"} /\ UNCHANGED svars

Next == Arrive \/ CallAgain \/ Returned
Spec == Init /\ [][Next]_svars
=============================================================================
