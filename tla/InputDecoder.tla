---------------------------- MODULE InputDecoder ----------------------------
(***************************************************************************)
(* The input side of one parser of the core crate: bytes arrive in pieces  *)
(* (Parser::feed), the decoder decides the encoding (Detection::detect),   *)
(* holds what it cannot decode yet, and appends characters to the document *)
(* source, from which the parser takes tokens.  An adapter that enabled    *)
(* the input context can also see the original bytes: while the document   *)
(* is UTF-8 they are the source's own text ("native"), and from the first  *)
(* piece that is not, they are kept separately.                            *)
(*                                                                         *)
(* Bytes are those of InputEncoding.  The text of a source is a sequence   *)
(* of cells: the bytes of UTF-8, or one cell for a character of another    *)
(* encoding.  An ASCII character that the application converted from       *)
(* several bytes is stored as a stand-in cell, and `conversions` says what *)
(* stands where.                                                           *)
(***************************************************************************)
EXTENDS InputEncoding

CONSTANTS
    Documents,      \* the inputs: records, see below
    History,        \* bytes of context kept before what events refer to
    CompactAt,      \* consumed text after which a source drops it (64 KiB)
    DrainAt         \* consumed pending bytes after which they go (64 KiB)

(* A document: its bytes, the encoding the protocol names, whether it is   *)
(* external content, whether the adapter wants its context, whether a map  *)
(* is inherited from the parent, and what the application knows of an      *)
(* unknown encoding: `map` (a character, -1, or -2 for the first byte of a *)
(* pair), or NONE, and `pairs`: the fields bytes, requested, external,     *)
(* context, inherits, map and pairs.                                       *)
VARIABLES
    doc,            \* the document being parsed, constant
    decoder,        \* struct Decoder with its Detection
    source,         \* struct Source, of the document itself
    context,        \* struct InputContext
    parser          \* the fields of Parser that the input side uses

vars == <<doc, decoder, source, context, parser>>


-----------------------------------------------------------------------------
(* Positions.  Lines count CR, LF and CRLF once; a CRLF may be split.      *)

StartPosition == [line |-> 1, column |-> 0, cr |-> FALSE]

AdvanceCell(p, cell) ==
    CASE cell = 13 -> [line |-> p.line + 1, column |-> 0, cr |-> TRUE]
      [] cell = 10 -> [line |-> IF p.cr THEN p.line ELSE p.line + 1,
                       column |-> 0, cr |-> FALSE]
      [] Continues(cell) -> p
      [] OTHER -> [p EXCEPT !.column = p.column + 1, !.cr = FALSE]

(* encoding.rs advance_position                                            *)
AdvancePosition(p, cells) == FoldLeft(AdvanceCell, p, cells)

-----------------------------------------------------------------------------
(* Source.                                                                 *)

Remaining(s) == From(s.text, s.cursor)

(* Original bytes of the first n cells that remain.                        *)
RawLen(s, n) ==
    IF s.encoding = "MultiByte"
    THEN SumOf(SubSeq(s.widths, s.cursor + 1, s.cursor + n))
    ELSE SumOf([i \in 1..n |-> RawWidth(s.encoding, s.text[s.cursor + i])])

(* Source::position_at without the count.                                  *)
PositionAt(s, n) == [byte |-> s.raw + RawLen(s, n),
                     at |-> AdvancePosition(s.at, Prefix(Remaining(s), n))]

(* Source::end_position: kept while decoding pairs, computed otherwise.    *)
EndPosition(s) == IF s.encoding = "MultiByte" THEN s.end
                  ELSE PositionAt(s, Len(Remaining(s)))

(* Append one decoded character, with its spelling if it was converted.    *)
Push(s, width, cells, scalar) ==
    LET conversion == IF scalar = NONE THEN <<>>
                      ELSE <<[offset |-> Len(s.text), scalar |-> scalar]>>
        pushed == [s EXCEPT !.text = @ \o cells, !.conversions = @ \o conversion]
    IN IF s.encoding # "MultiByte" THEN pushed
       ELSE [pushed EXCEPT !.widths = Append(@, width),
                           !.end = [byte |-> @.byte + width,
                                    at |-> AdvancePosition(@.at, cells)]]

(* lexical::Buffer::discard_prefix: what stands where is rebased.          *)
DiscardPrefix(s, n) ==
    [s EXCEPT !.text = From(@, n),
              !.conversions = LET kept == SelectSeq(@, LAMBDA c : c.offset >= n)
                              IN [i \in DOMAIN kept |->
                                     [kept[i] EXCEPT !.offset = @ - n]]]

(* Variant: the widths of dropped text stay.                               *)
CompactTextOnly(s) ==
    IF ~s.retain /\ s.cursor >= CompactAt /\ 2 * s.cursor >= Len(s.text)
    THEN [DiscardPrefix(s, s.cursor) EXCEPT !.cursor = 0]
    ELSE s

(* Source::finish_consume: drop the consumed text if it is long.           *)
Compact(s) ==
    IF ~s.retain /\ s.cursor >= CompactAt /\ 2 * s.cursor >= Len(s.text)
    THEN [DiscardPrefix(s, s.cursor) EXCEPT
             !.widths = IF s.encoding = "MultiByte" THEN From(@, s.cursor) ELSE @,
             !.cursor = 0]
    ELSE s

(* Source::consume.                                                        *)
Consume(s, n) ==
    Compact([s EXCEPT !.raw = @ + RawLen(s, n),
                      !.at = AdvancePosition(@, Prefix(Remaining(s), n)),
                      !.cursor = @ + n])

(* The characters the text stands for (Slice::decoded_chars): a converted  *)
(* one is its scalar and no syntax, any other is itself.                   *)
Meaning(s, cells, offset) ==
    [i \in DOMAIN cells |->
        LET at == {j \in DOMAIN s.conversions : s.conversions[j].offset = offset + i - 1}
        IN IF at = {} THEN <<cells[i], "raw">>
           ELSE <<s.conversions[CHOOSE j \in at : TRUE].scalar, "converted">>]

Meanings(s) == Meaning(s, Remaining(s), s.cursor)

-----------------------------------------------------------------------------
(* Decoder::feed.  A state is [d, s, error].                               *)

State(d, s, error) == [d |-> d, s |-> s, error |-> error]

(* The decoding loop: characters up to the first that is not complete, is  *)
(* not valid or is the application's to convert.                           *)
RECURSIVE DecodePending(_, _, _), DecodeNext(_, _, _, _)
DecodePending(d, s, i) ==
    IF i = Len(d.pending) THEN [i |-> i, s |-> s, is |-> "wait"]
    ELSE DecodeNext(d, s, i, CharacterAt(d.encoding, d.map, From(d.pending, i)))
DecodeNext(d, s, i, next) ==
    IF next.is = "char"
    THEN DecodePending(d, Push(s, next.width, next.cells, next.scalar), i + next.width)
    ELSE [i |-> i, s |-> s, is |-> next.is]

(* Decoded bytes leave `pending` at once, or under a multibyte map only    *)
(* when all of them or many were decoded.                                  *)
Drain(d, i) ==
    IF d.encoding # "MultiByte" \/ i = Len(d.pending)
         \/ (i >= DrainAt /\ 2 * i >= Len(d.pending))
    THEN [d EXCEPT !.pending = From(@, i), !.pendingCursor = 0]
    ELSE [d EXCEPT !.pendingCursor = i]

(* An error leaves `pending` as it is; a pair waits for the application.   *)
Drained(d, run) ==
    CASE run.is = "invalid" -> d
      [] run.is = "convert" ->
           [Drain(d, run.i) EXCEPT !.conversion = SubSeq(d.pending, run.i + 1, run.i + 2)]
      [] OTHER -> Drain(d, run.i)

Judged(d, run, final) ==
    State(d, run.s,
          CASE run.is = "invalid" -> "InvalidToken"
            [] run.is = "wait" /\ final /\ d.pendingCursor < Len(d.pending) ->
                 IF d.encoding \in Utf16 /\ Len(d.pending) = 1
                 THEN "UnclosedToken" ELSE "PartialCharacter"
            [] OTHER -> NONE)

AfterRun(d, run, final) == Judged(Drained(d, run), run, final)

DecodeKnown(d, s, final) == AfterRun(d, DecodePending(d, s, d.pendingCursor), final)

(* Decoder::set_detected_encoding and what its callers do to the source.   *)
DetectedDecoder(d, choice) ==
    [d EXCEPT !.encoding = choice.encoding, !.checked = choice.checked,
              !.requires = /\ d.requested = NONE
                           /\ choice.skip = 0
                           /\ choice.encoding \in Utf16]
DetectedSource(s, choice) ==
    [s EXCEPT !.encoding = choice.encoding, !.raw = choice.skip,
              !.at = [@ EXCEPT !.column = IF choice.skip = 0 THEN 0 ELSE 1]]

Undecided(d, choice) == [d EXCEPT !.checked = choice.checked, !.unknown = choice.unknown]

(* The encoding is known, or still not: decode what is pending.            *)
DecodeDetected(d, s, choice, final) ==
    IF choice.is = "chosen"
    THEN DecodeKnown([DetectedDecoder(d, choice) EXCEPT !.pending = From(@, choice.skip)],
                     DetectedSource(s, choice), final)
    ELSE State(Undecided(d, choice), s, choice.error)

DecodeFed(d, s, final) ==
    CASE d.conversion # <<>> -> State(d, s, NONE)
      [] d.conversion = <<>> /\ d.encoding # NONE -> DecodeKnown(d, s, final)
      [] OTHER -> DecodeDetected(d, s, Detect(d, d.pending, final, doc.external), final)

DecoderFeed(d, s, bytes, final) ==
    DecodeFed([d EXCEPT !.pending = @ \o bytes], s, final)

-----------------------------------------------------------------------------
(* InputContext.                                                           *)

View(c, s) == IF c.native THEN From(s.text, c.start - c.physical) ELSE c.raw

(* InputContext::separate: the original bytes get an owner of their own,   *)
(* and the decoder gets those it has not decoded.                          *)
Separate(c, d, s, bytes) ==
    [c |-> [c EXCEPT !.raw = View(c, s) \o bytes, !.native = FALSE],
     d |-> IF d.encoding = NONE THEN [d EXCEPT !.pending = @ \o s.text] ELSE d,
     s |-> IF d.encoding = NONE
           THEN [s EXCEPT !.text = <<>>, !.cursor = 0, !.retain = FALSE]
           ELSE [s EXCEPT !.retain = FALSE],
     native |-> FALSE]

(* What InputContext::preserve does first: forget what is not needed.      *)
ForgetTo(c, s, start, physical) ==
    IF c.native
    THEN [c |-> [c EXCEPT !.start = start, !.physical = @ + physical],
          s |-> [DiscardPrefix(s, physical) EXCEPT !.cursor = @ - physical]]
    ELSE [c |-> [c EXCEPT !.start = start, !.raw = From(@, start - c.start)], s |-> s]

Forget(c, s, retainFrom) ==
    LET discard == Min({Max({retainFrom - c.start, 0}), Len(View(c, s))})
        start == c.start + discard
    IN ForgetTo(c, s, start,
                IF c.native THEN FloorBoundary(s.text, start - c.physical) ELSE 0)

(* ... and then take the new bytes, into the source while they are UTF-8.  *)
PreserveIn(c, d, s, bytes) ==
    LET grown == [s EXCEPT !.text = @ \o bytes]
    IN CASE c.native /\ ValidUtf8(bytes) ->
              [c |-> c, d |-> d, native |-> TRUE,
               s |-> IF d.encoding = NONE
                     THEN [grown EXCEPT !.cursor = Len(grown.text)] ELSE grown]
         [] c.native /\ ~ValidUtf8(bytes) -> Separate(c, d, s, bytes)
         [] OTHER -> [c |-> [c EXCEPT !.raw = @ \o bytes], d |-> d, s |-> s,
                      native |-> FALSE]

PreserveAfter(kept, d, bytes) == PreserveIn(kept.c, d, kept.s, bytes)
Preserve(c, d, s, bytes, retainFrom) == PreserveAfter(Forget(c, s, retainFrom), d, bytes)

(* InputContext::decode: the bytes are in the source already, and become   *)
(* visible, or move out of it, when the encoding is known.                 *)
DecodeApart(apart, choice, final) ==
    DecodeDetected(apart.d, apart.s, choice, final) @@ [c |-> apart.c]

DecodeNativeAs(c, d, s, choice, final) ==
    CASE choice.is = "wait" -> State(Undecided(d, choice), s, NONE) @@ [c |-> c]
      [] choice.is = "chosen" /\ choice.encoding = "Utf8" ->
           State(DetectedDecoder(d, choice),
                 [DetectedSource(s, choice) EXCEPT !.cursor = choice.skip], NONE) @@ [c |-> c]
      [] OTHER -> DecodeApart(Separate(c, d, s, <<>>), choice, final)

DecodeNative(c, d, s, final) ==
    IF d.encoding = "Utf8" THEN State(d, s, NONE) @@ [c |-> c]
    ELSE DecodeNativeAs(c, d, s, Detect(d, s.text, final, doc.external), final)

-----------------------------------------------------------------------------
(* Parser: feeding.                                                        *)

(* Decoder::bom_len: a byte order mark is a token as soon as it is seen,   *)
(* unless its bytes may still be data or be refused.                       *)
BomLen(d, bytes) ==
    LET requested == RequestedEncoding(d.requested)
    IN IF \/ d.encoding # NONE
          \/ d.requested # NONE /\ requested = NONE
          \/ doc.external /\ Named(d.requested) = "Latin1" THEN 0
       ELSE IF IsPrefix(Bom8, bytes)
         THEN IF doc.external /\ requested \in Utf16 THEN 0 ELSE 3
       ELSE IF IsPrefix(<<255, 254>>, bytes) \/ IsPrefix(<<254, 255>>, bytes) THEN 2
       ELSE 0

(* Variant: only the next token needs its bytes.                           *)
ContextIndexOfSource == source.raw

(* Parser::input_context_byte_index: the first original byte that anything *)
(* pending can still refer to.                                             *)
ContextIndex == Min({source.raw}
                    \cup (IF parser.held = NONE THEN {} ELSE {parser.held})
                    \cup (IF parser.range = NONE THEN {} ELSE {parser.range.start}))

Chunk(k) == SubSeq(doc.bytes, parser.received + 1, parser.received + k)

Preserved(k) ==
    IF doc.context
    THEN Preserve(context, decoder, source, Chunk(k), Max({ContextIndex - History, 0}))
    ELSE [c |-> context, d |-> decoder, s |-> source, native |-> FALSE]

(* What is done with the bytes once they are preserved: after a decoding   *)
(* error they are only kept.                                               *)
Fed(p, k, last) ==
    CASE parser.decodingError # NONE ->
           State([p.d EXCEPT !.pending = @ \o Chunk(k)], p.s, parser.decodingError)
             @@ [c |-> p.c]
      [] parser.decodingError = NONE /\ p.native -> DecodeNative(p.c, p.d, p.s, last)
      [] OTHER -> DecoderFeed(p.d, p.s, Chunk(k), last) @@ [c |-> p.c]

Staged(fed) == IF fed.c.native THEN fed.s.text ELSE fed.d.pending

(* Parser::feed_with_input_context and feed_inner, for the next k bytes.   *)
Feed(k, last) ==
    /\ parser.error = NONE
    /\ ~parser.final
    /\ parser.received + k <= Len(doc.bytes)
    /\ k > 0 \/ last
    /\ last => parser.received + k = Len(doc.bytes)
    /\ \E p \in {Preserved(k)} : \E fed \in {Fed(p, k, last)} :
          /\ decoder' = fed.d
          /\ context' = fed.c
          /\ source' = [fed.s EXCEPT !.accounted = Max({@, BomLen(fed.d, Staged(fed))})]
          /\ parser' = [parser EXCEPT !.received = @ + k, !.final = last,
                                      !.decodingError = fed.error]
    /\ UNCHANGED doc

(* The context could not take the bytes: what it forgot is forgotten, and  *)
(* nothing else has changed.                                               *)
FeedFails(k) ==
    /\ doc.context /\ k > 0
    /\ parser.error = NONE
    /\ ~parser.final
    /\ parser.received + k <= Len(doc.bytes)
    /\ \E kept \in {Forget(context, source, Max({ContextIndex - History, 0}))} :
          context' = kept.c /\ source' = kept.s
    /\ parser' = [parser EXCEPT !.error = "NoMemory"]
    /\ UNCHANGED <<doc, decoder>>

-----------------------------------------------------------------------------
(* Parser: reading.                                                        *)

Opens == parser.taken = <<>> /\ IsPrefix(Opening, Remaining(source))
MayOpen == /\ parser.taken = <<>>
           /\ Remaining(source) # Opening
           /\ IsPrefix(Remaining(source), Opening)
           /\ ~parser.final
ClosingAt == FindFrom(Remaining(source), Closing, 0)

(* Decoder::check_declaration: the error, or NONE.                         *)
CheckDeclaration(d, name) ==
    CASE d.encoding \in {"SingleByte", "MultiByte"} /\ d.unknown = name -> NONE
      [] d.requested # NONE -> NONE
      [] name = "UTF-16" /\ d.encoding \in Utf16 -> NONE
      [] Named(name) = NONE -> "UnknownEncoding"
      [] Named(name) # d.encoding -> "IncorrectEncoding"
      [] OTHER -> NONE

(* A declaration without an encoding passes, one with no name for it does  *)
(* not.                                                                    *)
DeclarationRefused(d, names) ==
    CASE names = <<>> -> NONE
      [] names # <<>> /\ NameOf(names[1]) \notin {"UTF-8", "UTF-16", "ISO-8859-1", "X"} ->
           "Syntax"
      [] OTHER -> CheckDeclaration(d, NameOf(names[1]))

(* What an event that takes n cells leaves behind: it is delivered at once *)
(* and shows its raw text, in the context if that is the source's own      *)
(* text, or it stays queued, anchored where it began.                      *)
Reading(n, queued) ==
    LET range == IF doc.context /\ source.encoding = "Utf8" /\ source.conversions = <<>>
                 THEN [start |-> source.raw, count |-> n] ELSE NONE
        cells == Prefix(Remaining(source), n)
    IN /\ \E s \in {Consume(source, n)} :
             source' = [s EXCEPT !.accounted = Max({@, s.raw})]
       /\ parser' = [parser EXCEPT
                        !.taken = @ \o Meaning(source, cells, source.cursor),
                        !.held = IF queued THEN source.raw ELSE @,
                        !.range = IF queued THEN NONE ELSE range]
       /\ UNCHANGED <<doc, context>>

ReadDeclaration ==
    /\ parser.error = NONE
    /\ Opens /\ ClosingAt # -1
    /\ \E names \in {SelectSeq(Prefix(Remaining(source), ClosingAt),
                                LAMBDA b : b \in NameBytes)} :
       \E error \in {DeclarationRefused(decoder, names)} :
          IF error # NONE
          THEN /\ parser' = [parser EXCEPT !.error = error]
               /\ UNCHANGED <<doc, decoder, source, context>>
          ELSE /\ Reading(ClosingAt + 2, FALSE)
               /\ decoder' = IF names = <<>> THEN decoder
                             ELSE [decoder EXCEPT !.requires = FALSE]

(* One character, or everything that can be seen.                          *)
Read(n, queued) ==
    /\ parser.error = NONE
    /\ ~decoder.requires /\ ~Opens
    /\ MayOpen => parser.decodingError # NONE
    /\ n > 0 /\ FloorBoundary(Remaining(source), n) = n
    /\ n = Len(Remaining(source))
         \/ \A m \in 1..(n - 1) : FloorBoundary(Remaining(source), m) # m
    /\ queued => parser.held = NONE
    /\ Reading(n, queued)
    /\ UNCHANGED decoder

(* The queued event is delivered.                                          *)
Deliver ==
    /\ parser.held # NONE
    /\ parser' = [parser EXCEPT !.held = NONE, !.range = NONE]
    /\ UNCHANGED <<doc, decoder, source, context>>

(* next_event_inner: UTF-16 needs a mark, a declaration or a protocol.     *)
RefuseUndeclared ==
    /\ parser.error = NONE
    /\ decoder.requires /\ ~MayOpen /\ ~IsPrefix(Opening, Remaining(source))
    /\ parser' = [parser EXCEPT !.error = "IncorrectEncoding"]
    /\ UNCHANGED <<doc, decoder, source, context>>

(* A declaration that will not be closed.  What could not be decoded has   *)
(* precedence (finish_event_error).                                        *)
UnclosedDeclaration ==
    /\ parser.error = NONE
    /\ Opens /\ ClosingAt = -1
    /\ parser.final \/ parser.decodingError # NONE
    /\ parser' = [parser EXCEPT !.error =
                     IF parser.decodingError # NONE THEN parser.decodingError
                     ELSE "UnclosedToken"]
    /\ UNCHANGED <<doc, decoder, source, context>>

(* A decoding error is reported when all that precedes it has been read.   *)
Publish ==
    /\ parser.error = NONE
    /\ parser.decodingError # NONE
    /\ Remaining(source) = <<>>
    /\ ~decoder.requires
    /\ parser' = [parser EXCEPT !.error = parser.decodingError]
    /\ UNCHANGED <<doc, decoder, source, context>>

-----------------------------------------------------------------------------
(* The application answers.                                                *)

(* required_ascii: what a map may not change.                              *)
RequiredAscii(value) ==
    value \in {9, 10, 13} \/ value \in (32..126) \ {36, 64, 92, 94, 96, 123, 125, 126}

(* Decoder::install_map, when it accepts the map.                          *)
Accepts(d, map) ==
    /\ \A b \in DOMAIN map : RequiredAscii(b) => map[b] = b
    /\ \A b \in DOMAIN map : RequiredAscii(map[b]) => map[b] = b
    /\ ~(d.requested # NONE /\ IsPrefix(Bom8, d.pending))

MapEncoding(map) == IF \E b \in DOMAIN map : map[b] < -1 THEN "MultiByte" ELSE "SingleByte"

InstalledDecoder(d, map) ==
    [d EXCEPT !.encoding = MapEncoding(map), !.map = map,
              !.pending = IF IsPrefix(Bom8, @) THEN From(@, 3) ELSE @]
MarkedSource(s, encoding, marked) ==
    [s EXCEPT !.encoding = encoding,
              !.raw = IF marked THEN 3 ELSE @,
              !.at = IF marked THEN [@ EXCEPT !.column = 1] ELSE @]
StartEnd(s) == IF s.encoding = "MultiByte"
               THEN [s EXCEPT !.end = [byte |-> s.raw, at |-> s.at]] ELSE s
InstalledSource(d, s, map) ==
    StartEnd(MarkedSource(s, MapEncoding(map), IsPrefix(Bom8, d.pending)))

(* Parser::install_encoding_map, also after the error was reported: what   *)
(* was held back is decoded now.                                           *)
InstallMap ==
    /\ parser.decodingError = "UnknownEncoding"
    /\ parser.error \in {NONE, "UnknownEncoding"}
    /\ doc.map # NONE /\ Accepts(decoder, doc.map)
    /\ \E fed \in {DecoderFeed(InstalledDecoder(decoder, doc.map),
                                InstalledSource(decoder, source, doc.map), <<>>,
                                parser.final)} :
          /\ decoder' = fed.d /\ source' = fed.s
          /\ parser' = [parser EXCEPT !.error = NONE, !.decodingError = fed.error]
    /\ UNCHANGED <<doc, context>>

Answered(d) == [d EXCEPT !.pendingCursor = @ + 2, !.conversion = <<>>]
Converted(s, value) == Push(s, 2, <<Representative(value)>>, Cell(value))

(* Parser::resolve_encoding_conversion, when the events before it are read.*)
ResolveConversion ==
    /\ parser.error = NONE /\ parser.decodingError = NONE
    /\ decoder.conversion # <<>>
    /\ Remaining(source) = <<>>
    /\ \E value \in {doc.pairs[decoder.conversion]} :
          IF value = -1
          THEN /\ parser' = [parser EXCEPT !.error = "InvalidToken"]
               /\ UNCHANGED <<decoder, source>>
          ELSE \E fed \in {DecoderFeed(Answered(decoder), Converted(source, value), <<>>,
                                       parser.final)} :
                  /\ decoder' = fed.d /\ source' = fed.s
                  /\ parser' = [parser EXCEPT !.decodingError = fed.error]
    /\ UNCHANGED <<doc, context>>

-----------------------------------------------------------------------------
(* Nothing is left to do: an error the application cannot answer, or all   *)
(* of the document read.                                                   *)
Answerable == /\ parser.decodingError = "UnknownEncoding"
              /\ parser.error \in {NONE, "UnknownEncoding"}
              /\ doc.map # NONE /\ Accepts(decoder, doc.map)

Done == /\ parser.held = NONE
        /\ \/ parser.error # NONE /\ ~Answerable
           \/ /\ parser.error = NONE /\ parser.decodingError = NONE
              /\ parser.final /\ decoder.conversion = <<>>
              /\ Remaining(source) = <<>> /\ ~decoder.requires

Stay == Done /\ UNCHANGED vars

Init ==
    /\ doc \in Documents
    /\ LET inherited == IF doc.inherits THEN "SingleByte" ELSE NONE
       IN decoder = [encoding |-> inherited, requested |-> doc.requested,
                     requires |-> FALSE, checked |-> 0,
                     unknown |-> IF doc.inherits THEN doc.requested ELSE NONE,
                     pending |-> <<>>, pendingCursor |-> 0,
                     map |-> IF doc.inherits THEN doc.map ELSE NONE,
                     conversion |-> <<>>]
    /\ context = [raw |-> <<>>, start |-> 0, physical |-> 0,
                  native |-> doc.context /\ ~doc.inherits]
    /\ source = [text |-> <<>>, conversions |-> <<>>, widths |-> <<>>, cursor |-> 0,
                 raw |-> 0, at |-> StartPosition, accounted |-> 0,
                 encoding |-> IF doc.inherits THEN "SingleByte" ELSE "Utf8",
                 end |-> [byte |-> 0, at |-> StartPosition],
                 retain |-> doc.context /\ ~doc.inherits]
    /\ parser = [received |-> 0, final |-> FALSE, decodingError |-> NONE, error |-> NONE,
                 taken |-> <<>>, held |-> NONE, range |-> NONE]

Next ==
    \/ \E k \in 0..Len(doc.bytes), last \in BOOLEAN : Feed(k, last)
    \/ \E k \in 1..Len(doc.bytes) : FeedFails(k)
    \/ ReadDeclaration
    \/ \E n \in 1..Len(Remaining(source)), queued \in BOOLEAN : Read(n, queued)
    \/ Deliver
    \/ RefuseUndeclared
    \/ UnclosedDeclaration
    \/ Publish
    \/ InstallMap
    \/ ResolveConversion
    \/ Stay

Spec == Init /\ [][Next]_vars
=============================================================================
