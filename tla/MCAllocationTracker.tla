------------------------ MODULE MCAllocationTracker ------------------------
(***************************************************************************)
(* Instances of AllocationTracker for TLC.  Threads, trackers and blocks   *)
(* are interchangeable.                                                    *)
(***************************************************************************)
EXTENDS AllocationTracker, TLC

CONSTANTS p1, p2, t1, b1, b2

OneTracker == {t1}
BothThreads == {p1, p2}
BothBlocks == {b1, b2}

SmallSizes == {1, 2}
LargerSizes == {2, 3}
OnePiece == {4}
NoFactor == {Infinite}

\* Numbers of two bits: 1, 2, 3, 4, 6, 8 and 12 are among them, 5 and 7 are not.
ShortPrecision == 4
ShortScales == {1, 2, 4}
One == [significand |-> 2, scale |-> 1]
OneAndHalf == [significand |-> 3, scale |-> 1]
EitherFactor == {One, OneAndHalf}
Immediate == {0}
EitherThreshold == {0, 3}

Symmetry == Permutations({p1, p2}) \cup Permutations({b1, b2})
=============================================================================
