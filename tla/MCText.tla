------------------------------ MODULE MCText ------------------------------
(***************************************************************************)
(* From bytes to tokens: the decoder with the documents of MCInputDecoder, *)
(* and the scanners with those of MCTokenScanner, side by side.  Each      *)
(* behaviour runs one of the two and leaves the other at rest.             *)
(***************************************************************************)
EXTENDS MCTokenScanner

CONSTANTS MaxToken, Documents, History, CompactAt, DrainAt
VARIABLES part, doc, decoder, decoded, context, decoding

Bytes == INSTANCE InputReference WITH source <- decoded, parser <- decoding
Cut == INSTANCE MCInputDecoder

BytesDocuments == Cut!MCDocuments
ASSUME DecoderAssumption ==
    MaxToken \in Nat /\ History \in Nat /\ CompactAt \in Nat \ {0} /\ DrainAt \in Nat \ {0}

TextInit ==
    /\ part \in {"bytes", "tokens"}
    /\ input \in IF part = "tokens" THEN Inputs ELSE {CHOOSE i \in Inputs : TRUE}
    /\ doc \in IF part = "bytes" THEN Documents ELSE {CHOOSE d \in Documents : TRUE}
    /\ Init /\ Bytes!Init

TextNext ==
    \/ part = "bytes" /\ Bytes!Next /\ UNCHANGED <<part, vars>>
    \/ part = "tokens" /\ Next /\ UNCHANGED <<part, doc, decoder, decoded, context, decoding>>

TextSpec == TextInit /\ [][TextNext]_<<part, vars, doc, decoder, decoded, context, decoding>>

-----------------------------------------------------------------------------
(* The properties of InputReference.                                       *)

(* What the parser reads is the text of the bytes it was given, decoded    *)
(* once, wherever they were cut (InputReference).                          *)
DecodedExpected == Bytes!DecodedExpected

(* The context shows the application the bytes an event came from.         *)
ContextKept == Bytes!ContextKept

(* Positions count the bytes and lines of the original input, and a byte   *)
(* order mark is charged once.                                             *)
PositionsExpected == Bytes!PositionsExpected /\ Bytes!MarkChargedOnce
=============================================================================
