--------------------------- MODULE MCExpatFamily ---------------------------
(***************************************************************************)
(* An instance of ExpatFamily for TLC.  Handles are interchangeable.       *)
(***************************************************************************)
EXTENDS ExpatFamily, TLC

CONSTANTS h1, h2, h3

ThreeHandles == {h1, h2, h3}
Symmetry == Permutations(ThreeHandles)
=============================================================================
