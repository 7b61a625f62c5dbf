--------------------------- MODULE InputReference ---------------------------
(***************************************************************************)
(* What reading a document comes to, whatever the pieces it arrives in:    *)
(* its encoding is decided once, from all of its bytes, and its bytes are  *)
(* decoded once, from first to last.                                       *)
(***************************************************************************)
EXTENDS InputDecoder

(* The cells that bytes become, each with the characters it stands for and *)
(* the original bytes it takes, and the error that ends them.              *)
Decoded(cells, error) == [cells |-> cells, error |-> error]

Spelled(next) ==
    [i \in DOMAIN next.cells |->
        [cell |-> next.cells[i],
         meaning |-> IF next.scalar = NONE THEN <<next.cells[i], "raw">>
                     ELSE <<next.scalar, "converted">>,
         width |-> IF Len(next.cells) = 1 THEN next.width ELSE 1]]

ConvertedCell(value) ==
    <<[cell |-> Representative(value), meaning |-> <<Cell(value), "converted">>, width |-> 2]>>

RECURSIVE DecodedFrom(_, _, _, _), DecodedNext(_, _, _, _, _)
DecodedFrom(d, encoding, bytes, sofar) ==
    IF bytes = <<>> THEN Decoded(sofar, NONE)
    ELSE DecodedNext(d, encoding, bytes, sofar, CharacterAt(encoding, d.map, bytes))
DecodedNext(d, encoding, bytes, sofar, next) ==
    CASE next.is = "char" ->
           DecodedFrom(d, encoding, From(bytes, next.width), sofar \o Spelled(next))
      [] next.is = "convert" ->
           LET value == d.pairs[Prefix(bytes, 2)]
           IN IF value = -1 THEN Decoded(sofar, "InvalidToken")
              ELSE DecodedFrom(d, encoding, From(bytes, 2), sofar \o ConvertedCell(value))
      [] next.is = "invalid" -> Decoded(sofar, "InvalidToken")
      [] OTHER -> Decoded(sofar, IF encoding \in Utf16 /\ Len(bytes) = 1
                                 THEN "UnclosedToken" ELSE "PartialCharacter")

(* The encoding of the document: [encoding, skip, error].                  *)
Unread(d) == [encoding |-> NONE, requested |-> d.requested, checked |-> 0,
              unknown |-> NONE, pending |-> d.bytes]

KnownMap(d) == d.map # NONE /\ Accepts(Unread(d), d.map)

Chose(encoding, skip, error, unknown) ==
    [encoding |-> encoding, skip |-> skip, error |-> error, unknown |-> unknown]

EncodingAs(d, choice) ==
    IF choice.error = "UnknownEncoding" /\ KnownMap(d)
    THEN Chose(MapEncoding(d.map), IF IsPrefix(Bom8, d.bytes) THEN 3 ELSE 0, NONE,
               choice.unknown)
    ELSE Chose(choice.encoding, choice.skip, choice.error, choice.unknown)

WholeEncoding(d) ==
    IF d.inherits THEN Chose("SingleByte", 0, NONE, d.requested)
    ELSE EncodingAs(d, Detect(Unread(d), d.bytes, TRUE, d.external))

(* The declaration, if there is one, must agree with the encoding.         *)
DeclarationError(d, whole, decoded, cells, end) ==
    LET opens == IsPrefix(Opening, cells)
        names == SelectSeq(Prefix(cells, end), LAMBDA b : b \in NameBytes)
        undeclared == d.requested = NONE /\ whole.skip = 0 /\ whole.encoding \in Utf16
    IN CASE opens /\ end = -1 ->
              IF decoded.error = NONE THEN "UnclosedToken" ELSE decoded.error
         [] opens /\ end # -1 /\ names # <<>> ->
              DeclarationRefused([encoding |-> whole.encoding, unknown |-> whole.unknown,
                                  requested |-> d.requested], names)
         [] OTHER -> IF undeclared THEN "IncorrectEncoding" ELSE NONE

CellsOf(cells) == [i \in DOMAIN cells |-> cells[i].cell]

Finish(whole, decoded, refused) ==
    [cells |-> decoded.cells, skip |-> whole.skip,
     error |-> IF refused # NONE THEN refused ELSE decoded.error]

ExpectedDecoded(d, whole, decoded) ==
    Finish(whole, decoded,
           DeclarationError(d, whole, decoded, CellsOf(decoded.cells),
                            FindFrom(CellsOf(decoded.cells), Closing, 0)))

ExpectedAs(d, whole) ==
    IF whole.error # NONE THEN [cells |-> <<>>, skip |-> 0, error |-> whole.error]
    ELSE ExpectedDecoded(d, whole,
                         DecodedFrom(d, whole.encoding, From(d.bytes, whole.skip), <<>>))

WholeDocument(d) == ExpectedAs(d, WholeEncoding(d))

-----------------------------------------------------------------------------
(* Properties.                                                             *)

MeaningsOf(cells) == [i \in DOMAIN cells |-> cells[i].meaning]

(* What is read and what can be read is, at any time, the start of what    *)
(* the whole document says; and when nothing is left to do, the error is   *)
(* the whole document's and, without one, so is the text.  Wherever the    *)
(* bytes were cut, whether they were held for detection in the source or   *)
(* beside it, and whenever a map or a conversion was supplied: nothing is  *)
(* lost, repeated or taken for markup (Decoder::feed, InputContext,        *)
(* install_encoding_map, resolve_encoding_conversion).                     *)
DecodedExpected ==
    \E expected \in {WholeDocument(doc)} : \E sofar \in {parser.taken \o Meanings(source)} :
       /\ IsPrefix(sofar, MeaningsOf(expected.cells))
       /\ (Done /\ parser.error # "NoMemory") =>
             /\ parser.error = expected.error
             /\ expected.error = NONE => sofar = MeaningsOf(expected.cells)

(* The input context is the original input from its start to what was fed, *)
(* and holds every byte a pending event, the current event's raw text or   *)
(* the next token can refer to; the current event's raw text is the bytes  *)
(* it was read from.  Also after a piece that is not UTF-8 moved the       *)
(* context away from the source (InputContext::preserve, separate).        *)
ContextKept ==
    doc.context =>
        LET view == View(context, source)
            start == context.start
        IN /\ view = SubSeq(doc.bytes, start + 1, parser.received)
           /\ start <= ContextIndex
           /\ parser.held # NONE => start <= parser.held
           /\ parser.range # NONE => start <= parser.range.start
           /\ parser.range # NONE =>
                 /\ parser.range.start + parser.range.count <= start + Len(view)
                 /\ IsSuffix(SubSeq(view, parser.range.start - start + 1,
                                    parser.range.start - start + parser.range.count),
                             [i \in DOMAIN parser.taken |-> parser.taken[i][1]])

(* The position of the next token, and of the end of what was decoded, is  *)
(* the one found by counting from the start of the document: bytes as they *)
(* were encoded, and lines over CR, LF and CRLF also when consumption, a   *)
(* conversion or the dropping of consumed text came in between             *)
(* (Source::consume, end_position, push_custom).                           *)
PositionsExpected ==
    \E expected \in {WholeDocument(doc)} :
    LET start == [StartPosition EXCEPT !.column = IF expected.skip = 0 THEN 0 ELSE 1]
        at(n) == [byte |-> expected.skip
                             + SumOf([i \in 1..n |-> expected.cells[i].width]),
                  at |-> AdvancePosition(start, [i \in 1..n |-> expected.cells[i].cell])]
    IN decoder.encoding # NONE /\ expected.cells # <<>> =>
           /\ PositionAt(source, 0) = at(Len(parser.taken))
           /\ EndPosition(source) = at(Len(parser.taken) + Len(Remaining(source)))

(* Input is charged to the document once: bytes recognized as a byte order *)
(* mark before the encoding is known are the bytes the encoding then skips,*)
(* never some that are later read as text (Decoder::bom_len and            *)
(* Detection::detect decide alike).                                        *)
MarkChargedOnce ==
    decoder.encoding # NONE => source.accounted <= source.raw
=============================================================================
