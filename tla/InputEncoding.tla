--------------------------- MODULE InputEncoding ----------------------------
(***************************************************************************)
(* Bytes, encodings and characters of the core crate's decoder: how the    *)
(* next character is taken from pending bytes under each encoding, and how *)
(* an encoding is detected from the bytes seen so far                      *)
(* (Detection::detect).  No state: InputDecoder uses these operators.      *)
(*                                                                         *)
(* A byte is its number, and a cell of decoded text the byte of UTF-8 or   *)
(* ASCII, or 1000 and the code of another character.  One byte, 120,       *)
(* stands for `?xml` and the white space after it, and one byte of         *)
(* NameBytes for the encoding pseudo-attribute of a declaration.           *)
(***************************************************************************)
EXTENDS Integers, Sequences, SequencesExt, FiniteSetsExt

CONSTANTS
    MaxToken,       \* Limits::max_token_bytes, as it bounds a declaration
    NONE            \* the absent value

(* Bytes and characters.                                                   *)

Opening == <<60, 120>>              \* `<?xml` and white space
Closing == <<63, 62>>               \* `?>`
Bom8    == <<239, 187, 191>>
NameBytes == 16..21
NameOf(b) == CASE b = 16 -> "UTF-16"
               [] b = 17 -> "ISO-8859-1"
               [] b = 18 -> "X"
               [] b = 19 -> "not a name"
               [] b = 20 -> "X in a malformed declaration"
               [] b = 21 -> "UTF-8"

IsAscii(b) == b < 128
Continues(b) == b \in 128..191
Cell(code) == IF IsAscii(code) THEN code ELSE 1000 + code

Utf8Width(b) == CASE b < 128 -> 1
                  [] b \in 194..223 -> 2
                  [] b \in 224..239 -> 3
                  [] OTHER -> 0

(* The cell that stands in the text for a character converted from several *)
(* bytes: never one that could be taken for markup.                        *)
Representative(scalar) == Cell(IF IsAscii(scalar) THEN 57344 ELSE scalar)

Named(name) == CASE name = "UTF-8" -> "Utf8"
                 [] name = "UTF-16LE" -> "Utf16Le"
                 [] name = "UTF-16BE" -> "Utf16Be"
                 [] name = "ISO-8859-1" -> "Latin1"
                 [] name = "US-ASCII" -> "Ascii"
                 [] OTHER -> NONE

Utf16 == {"Utf16Le", "Utf16Be"}

RawWidth(encoding, cell) ==
    IF encoding \in Utf16 THEN IF cell >= Cell(65536) THEN 4 ELSE 2 ELSE 1

SumOf(s) == FoldLeft(LAMBDA a, b : a + b, 0, s)
From(s, offset) == SubSeq(s, offset + 1, Len(s))
Prefix(s, n) == SubSeq(s, 1, n)

(* Where a sequence first occurs at or after an offset, or -1.             *)
FindFrom(s, part, offset) ==
    LET at == {i \in offset..(Len(s) - Len(part)) :
                   SubSeq(s, i + 1, i + Len(part)) = part}
    IN IF at = {} THEN -1 ELSE Min(at)

(* The next character of pending bytes under an encoding: how many bytes   *)
(* it takes and the cells it becomes, or why there is none.                *)
Character(width, cells, scalar) ==
    [is |-> "char", width |-> width, cells |-> cells, scalar |-> scalar]
Stop(why) == [is |-> why, width |-> 0, cells |-> <<>>, scalar |-> NONE]

Utf8At(b) ==
    LET w == Utf8Width(b[1]) IN
    IF w = 0 \/ \E i \in 2..Min({w, Len(b)}) : ~Continues(b[i]) THEN Stop("invalid")
    ELSE IF Len(b) < w THEN Stop("wait")
    ELSE Character(w, Prefix(b, w), NONE)

Utf16At(encoding, b) ==
    LET high(i) == IF encoding = "Utf16Be" THEN b[i] ELSE b[i + 1]
        low(i)  == IF encoding = "Utf16Be" THEN b[i + 1] ELSE b[i]
        unit(i) == 256 * high(i) + low(i)
        lead(u) == u \in 55296..56319
        tail(u) == u \in 56320..57343
    IN IF Len(b) < 2 THEN Stop("wait")
       ELSE IF tail(unit(1)) THEN Stop("invalid")
       ELSE IF ~lead(unit(1)) THEN Character(2, <<Cell(unit(1))>>, NONE)
       ELSE IF Len(b) < 4 THEN Stop("wait")
       ELSE IF ~tail(unit(3)) THEN Stop("invalid")
       ELSE Character(4, <<Cell(65536 + 1024 * (unit(1) - 55296) + unit(3) - 56320)>>, NONE)

ByteAt(encoding, b) ==
    IF IsAscii(b[1]) \/ encoding = "Latin1" THEN Character(1, <<Cell(b[1])>>, NONE)
    ELSE Stop("invalid")

(* A byte whose character differs from its number keeps its spelling.      *)
MappedAt(map, b) ==
    LET value == map[b[1]] IN
    CASE value = -2 -> IF Len(b) < 2 THEN Stop("wait") ELSE Stop("convert")
      [] value = -1 -> Stop("invalid")
      [] value = b[1] -> Character(1, <<Cell(value)>>, NONE)
      [] OTHER -> Character(1, <<Cell(value)>>, Cell(value))

CharacterAt(encoding, map, b) ==
    CASE encoding = "Utf8" -> Utf8At(b)
      [] encoding \in Utf16 -> Utf16At(encoding, b)
      [] encoding \in {"Latin1", "Ascii"} -> ByteAt(encoding, b)
      [] OTHER -> MappedAt(map, b)

RECURSIVE ValidUtf8(_)
ValidUtf8(b) == b = <<>> \/ \E next \in {Utf8At(b)} :
                               next.is = "char" /\ ValidUtf8(From(b, next.width))

(* The last character boundary of UTF-8 cells at or before an offset.      *)
FloorBoundary(cells, offset) ==
    Max({i \in 0..offset : i = Len(cells) \/ i = 0 \/ ~Continues(cells[i + 1])})

-----------------------------------------------------------------------------
(* Detection::detect over the bytes seen so far.  `d` gives the protocol's *)
(* encoding name and how far a declaration was searched for its end.       *)

Wait(d) == [is |-> "wait", encoding |-> NONE, skip |-> 0, error |-> NONE,
                  checked |-> d.checked, unknown |-> d.unknown]
Chosen(d, e, skip) == [Wait(d) EXCEPT !.is = "chosen", !.encoding = e, !.skip = skip]
Refused(d, error) == [Wait(d) EXCEPT !.is = "error", !.error = error]

(* The encoding the protocol names; UTF-16 is big-endian until a signature *)
(* says otherwise.                                                         *)
RequestedEncoding(name) == IF name = "UTF-16" THEN "Utf16Be" ELSE Named(name)

(* The signature at the start of the input: an encoding (or NONE) and the  *)
(* bytes of a byte order mark to skip.                                     *)
Signature(bytes, requested, external) ==
    LET first(b) == Len(bytes) >= 1 /\ bytes[1] = b
        second(b) == Len(bytes) >= 2 /\ bytes[2] = b
        latin == external /\ requested = "Latin1"
        wide  == external /\ requested \in Utf16
    IN CASE IsPrefix(Bom8, bytes) /\ ~latin /\ ~wide -> <<"Utf8", 3>>
         [] first(255) /\ second(254) /\ ~latin -> <<"Utf16Le", 2>>
         [] first(254) /\ second(255) /\ ~latin -> <<"Utf16Be", 2>>
         [] /\ first(0) /\ Len(bytes) >= 2
            /\ ~(external /\ requested = "Utf16Le") -> <<"Utf16Be", 0>>
         [] /\ second(0)
            /\ external => (bytes[1] = 60 /\ requested # "Utf16Be") -> <<"Utf16Le", 0>>
         [] OTHER -> <<NONE, 0>>

(* What the encoding pseudo-attribute of a complete declaration selects.   *)
DeclaredEncoding(d, declaration, skip) ==
    LET names == SelectSeq(declaration, LAMBDA b : b \in NameBytes)
        name == NameOf(names[1])
    IN CASE names = <<>> \/ ~ValidUtf8(declaration) -> Chosen(d, "Utf8", skip)
         [] names # <<>> /\ name = "not a name" -> Chosen(d, "Utf8", skip)
         [] names # <<>> /\ name = "X in a malformed declaration" -> Chosen(d, "Utf8", skip)
         [] OTHER ->
              CASE name = "UTF-16" \/ (skip = 3 /\ Named(name) # "Utf8") ->
                     Refused(d, "IncorrectEncoding")
                [] Named(name) = NONE ->
                     [Refused(d, "UnknownEncoding") EXCEPT !.unknown = name]
                [] OTHER -> Chosen(d, Named(name), skip)

(* Variant: the search resumes at the end of what was seen.                *)
DetectDeclaredFromEnd(d, content, skip, final) ==
    LET end == FindFrom(content, Closing, Min({d.checked, Len(content)}))
        searched == [d EXCEPT !.checked = Len(content)]
    IN IF end = -1 THEN IF final THEN Chosen(searched, "Utf8", skip) ELSE Wait(searched)
       ELSE DeclaredEncoding(searched, Prefix(content, end), skip)

(* The search for the end of the declaration resumes where it stopped, one *)
(* byte early so that a `?>` in two pieces is found.                       *)
DetectDeclared(d, content, skip, final) ==
    LET end == FindFrom(content, Closing, Min({d.checked, Len(content)}))
        length == IF end = -1 THEN Len(content) ELSE end + 2
        searched == [d EXCEPT !.checked = Max({Len(content) - 1, 0})]
    IN CASE length > MaxToken -> Refused(searched, "LimitExceeded")
         [] length <= MaxToken /\ end = -1 ->
              IF final THEN Chosen(searched, "Utf8", skip) ELSE Wait(searched)
         [] OTHER -> DeclaredEncoding(searched, Prefix(content, end), skip)

(* Without a protocol's encoding, a signature of UTF-16 or a declaration.  *)
DetectContent(d, encoding, skip, content, final) ==
    CASE encoding \in Utf16 -> Chosen(d, encoding, skip)
      [] encoding \notin Utf16 /\ IsPrefix(Opening, content) ->
           DetectDeclared(d, content, skip, final)
      [] encoding \notin Utf16 /\ IsPrefix(content, Opening) /\ content # Opening /\ ~final ->
           Wait(d)
      [] OTHER -> Chosen(d, "Utf8", skip)

DetectSigned(d, bytes, final, requested, signature) ==
    IF requested # NONE
    THEN Chosen(d, IF signature[1] = NONE THEN requested ELSE signature[1], signature[2])
    ELSE DetectContent(d, signature[1], signature[2], From(bytes, signature[2]), final)

Detect(d, bytes, final, external) ==
    LET requested == RequestedEncoding(d.requested)
        ordinary(i) == IsAscii(bytes[i]) /\ bytes[i] # 0
    IN IF external /\ Named(d.requested) = "Latin1" /\ bytes # <<>> /\ bytes[1] \notin {0, 60}
         THEN Chosen(d, "Latin1", 0)
       ELSE IF Len(bytes) < 4 /\ ~final /\ ~(Len(bytes) >= 2 /\ ordinary(1) /\ ordinary(2))
         THEN Wait(d)
       ELSE IF d.requested # NONE /\ requested = NONE
         THEN [Refused(d, "UnknownEncoding") EXCEPT !.unknown = d.requested]
       ELSE DetectSigned(d, bytes, final, requested,
                         Signature(bytes, requested, external))
=============================================================================
