---------------------------- MODULE MarkupText -----------------------------
(***************************************************************************)
(* Decoded UTF-8 text as the lexical scanners see it: a sequence of units, *)
(* one per byte, indexed by byte offsets from 0 as in the code.  "E~" is a *)
(* letter of two bytes, "$", "@" and "_" are line feed, carriage return    *)
(* and tab, and "^" is a character that XML forbids; the rest are          *)
(* themselves.                                                             *)
(***************************************************************************)
EXTENDS Integers, Sequences, SequencesExt, FiniteSetsExt

CONSTANT NONE           \* the absent value

White     == {" ", "$", "@", "_"}
Quotes    == {"'", "\""}
Digits    == {"0", "1", "2", "3", "4", "5", "6", "7", "8", "9"}
HexLetter == {"a", "b", "c", "d", "e", "f"}
NameStart == {"a", "b", "c", "d", "e", "f", "g", "l", "m", "o", "p", "q", "s", "t",
              "u", "x", "C", "D", "E", "O", "P", "T", "Y"}
NameChar  == NameStart \cup Digits \cup {"-", "~"}

(* The only member of a set, which names a value on the way.               *)
The(S) == CHOOSE x \in S : TRUE

At(t, i)        == IF i < Len(t) THEN t[i + 1] ELSE NONE
From(t, i)      == SubSeq(t, i + 1, Len(t))
Prefix(t, n)    == SubSeq(t, 1, n)
Slice(t, i, j)  == SubSeq(t, i + 1, j)
Starts(t, i, p) == i + Len(p) <= Len(t) /\ SubSeq(t, i + 1, i + Len(p)) = p
Width(t, i)     == IF At(t, i) = "E" THEN 2 ELSE 1

(* The first offset from i on whose unit satisfies the test, or the end.   *)
FirstFrom(t, i, Test(_)) ==
    Min({j \in i..(Len(t) - 1) : Test(t[j + 1])} \cup {Max({i, Len(t)})})

(* Where a part next occurs, or NONE.                                      *)
FindPart(t, i, part) ==
    LET at == {j \in i..(Len(t) - Len(part)) : Starts(t, j, part)}
    IN IF at = {} THEN NONE ELSE Min(at)

SkipSpace(t, i) == FirstFrom(t, i, LAMBDA u : u \notin White)
NameEnd(t, i)   == FirstFrom(t, i, LAMBDA u : u \notin NameChar)
IsWhite(t)      == \A i \in DOMAIN t : t[i] \in White
IsName(t)       == t # <<>> /\ t[1] \in NameStart /\ \A i \in DOMAIN t : t[i] \in NameChar

(* str::floor_char_boundary                                                *)
FloorBoundary(t, n) ==
    IF n >= Len(t) THEN Len(t) ELSE IF At(t, n) = "~" THEN n - 1 ELSE n

(* Lines and columns: CR, LF and CRLF end a line once, also when a CRLF    *)
(* is consumed in two parts (encoding.rs advance_position).                *)
StartPlace == [line |-> 1, column |-> 0, cr |-> FALSE]

AdvanceUnit(p, u) ==
    CASE u = "@" -> [line |-> p.line + 1, column |-> 0, cr |-> TRUE]
      [] u = "$" -> [line |-> IF p.cr THEN p.line ELSE p.line + 1, column |-> 0, cr |-> FALSE]
      [] u = "~" -> p
      [] OTHER -> [p EXCEPT !.column = @ + 1, !.cr = FALSE]

AdvancePlace(p, t) == FoldLeft(AdvanceUnit, p, t)

(* The scalar a character reference names, between `&` and `;`: a value,   *)
(* an error [error, at], or NONE for a general entity                      *)
(* (lib.rs character_reference).                                           *)
DigitValue == [u \in Digits \cup HexLetter |->
    CHOOSE n \in 0..15 :
        u = <<"0","1","2","3","4","5","6","7","8","9","a","b","c","d","e","f">>[n + 1]]
Predefined == {<<"l","t">>, <<"g","t">>, <<"a","m","p">>, <<"a","p","o","s">>,
               <<"q","u","o","t">>}
IsScalar(value) == value \in {9, 10, 13} \/ value >= 32

CharacterReference(name) ==
    LET hex == At(name, 1) = "x"
        digits == From(name, IF hex THEN 2 ELSE 1)
        value == FoldLeft(LAMBDA v, u : v * (IF hex THEN 16 ELSE 10) + DigitValue[u],
                          0, digits)
    IN CASE name \in Predefined -> [is |-> "scalar", value |-> name]
         [] At(name, 0) = "#" /\ IsScalar(value) -> [is |-> "scalar", value |-> value]
         [] At(name, 0) = "#" -> [is |-> "error", value |-> "BadCharacterReference"]
         [] OTHER -> [is |-> "entity", value |-> name]
=============================================================================
