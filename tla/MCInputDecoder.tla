--------------------------- MODULE MCInputDecoder ---------------------------
(***************************************************************************)
(* Documents for TLC: each brings one case of detection, decoding or       *)
(* conversion to be cut at every place.                                    *)
(***************************************************************************)
EXTENDS Integers, TLC

CONSTANT NONE

Plain(bytes) ==
    [bytes |-> bytes, requested |-> NONE, external |-> FALSE, context |-> TRUE,
     inherits |-> FALSE, map |-> NONE, pairs |-> <<>>]
Named2(bytes, requested) == [Plain(bytes) EXCEPT !.requested = requested]
Beside(d) == [d EXCEPT !.context = FALSE]
Outside(d) == [d EXCEPT !.external = TRUE]
Mapped(d, map) == [d EXCEPT !.map = map]

AsciiMap == [b \in 0..127 |-> b]
SingleMap == AsciiMap @@ (200 :> 233) @@ (201 :> -1) @@ (36 :> 163)
                 @@ (239 :> 8364) @@ (187 :> 187) @@ (191 :> 191)
PairMap == AsciiMap @@ (200 :> -2) @@ (201 :> -1) @@ (202 :> 233)
Pairs == (<<200, 65>> :> 60) @@ (<<200, 13>> :> 233) @@ (<<200, 66>> :> -1)
Paired(d) == [d EXCEPT !.map = PairMap, !.pairs = Pairs]

MCDocuments ==
    {\* UTF-8, cut inside a character and inside CRLF; a byte that is none
     Plain(<<97, 195, 169, 13, 10, 97>>), Beside(Plain(<<195, 169, 13, 10, 97>>)),
     Plain(<<97, 98, 169, 99>>), Plain(<<97, 98, 195>>), Plain(<<239, 187, 191, 97, 195, 169>>),
     \* declarations
     Plain(<<60, 120, 17, 63, 62, 233, 97>>), Plain(<<60, 120, 21, 63, 62, 195, 169>>),
     Plain(<<60, 120, 16, 63, 62, 97>>), Plain(<<60, 120, 19, 63, 62, 97>>),
     Plain(<<60, 120, 97, 97, 97, 97, 97, 63, 62>>), Plain(<<60, 120, 97, 63, 97>>),
     Plain(<<239, 187, 191, 60, 120, 17, 63, 62>>),
     \* UTF-16 with and without a mark or a declaration
     Plain(<<254, 255, 0, 97, 216, 0, 220, 0, 0>>), Plain(<<255, 254, 97, 0, 0, 216, 97, 0>>),
     Plain(<<0, 97, 0, 98>>), Plain(<<0, 60, 0, 120, 0, 16, 0, 63, 0, 62, 0, 97>>),
     Plain(<<60, 0, 120, 0, 21, 0, 63, 0, 62, 0>>),
     \* a protocol encoding, of a document and of external content
     Named2(<<97, 233, 98>>, "ISO-8859-1"), Named2(<<97, 233, 98>>, "US-ASCII"),
     Named2(<<255, 254, 97, 0>>, "ISO-8859-1"),
     Outside(Named2(<<255, 254, 97>>, "ISO-8859-1")),
     Outside(Named2(<<239, 187, 191, 97, 0>>, "UTF-16")),
     Outside(Named2(<<60, 0, 97, 0>>, "UTF-16")),
     \* unknown encodings, with a map, late, refused or inherited
     Plain(<<60, 120, 18, 63, 62, 200, 97>>),
     Mapped(Plain(<<60, 120, 18, 63, 62, 200, 201, 97>>), SingleMap),
     Mapped(Named2(<<200, 97, 13, 10, 201>>, "X"), SingleMap),
     Mapped(Named2(<<239, 187, 191, 97>>, "X"), SingleMap),
     Paired(Named2(<<97, 200, 65, 97, 202, 200, 13, 10, 200>>, "X")),
     Paired(Named2(<<13, 10, 200, 65, 200, 66, 97>>, "X")),
     Paired(Plain(<<60, 120, 18, 63, 62, 200, 65, 97>>)),
     [Mapped(Named2(<<200, 97, 200>>, "X"), [SingleMap EXCEPT ![36] = 36])
         EXCEPT !.inherits = TRUE]}
=============================================================================
