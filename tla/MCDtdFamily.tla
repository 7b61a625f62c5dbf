---------------------------- MODULE MCDtdFamily ----------------------------
(***************************************************************************)
(* Instances of DtdFamily for TLC: a document and one child, from the      *)
(* beginning; and two documents whose external subsets are complete, with  *)
(* nothing left to create and one reservation left to complete, so that    *)
(* each may merge from the other.                                          *)
(***************************************************************************)
EXTENDS DtdFamily, TLC

CONSTANTS t1, t2, p1, p2, p3, p4, f1, f2, n1, n2

BothThreads == {t1, t2}
TwoParsers == {p1, p2}
FourParsers == {p1, p2, p3, p4}
TwoFamilies == {f1, f2}
BothNames == {n1, n2}
OneRoot == {p1}
BothRoots == {p1, p2}
SmallLimits == {1, 2}

\* Threads and names are interchangeable; new parsers and families are chosen in order.
Symmetry == Permutations(Threads) \cup Permutations(Names)

Value(p) == [by |-> p, number |-> 1, state |-> "value"]

\* The first document's subset has declared n1 or nothing; the other document has
\* reserved n2, as its own declaration, and its subset has declared n1 as well.
CompletedInit ==
  /\ live = Parsers /\ subset = [p \in Parsers |-> p \in {p3, p4}]
  /\ parent = (p1 :> NoParser @@ p2 :> NoParser @@ p3 :> p1 @@ p4 :> p2)
  /\ owner = (p1 :> f1 @@ p2 :> f2 @@ p3 :> f1 @@ p4 :> f2) /\ made = TwoFamilies
  /\ fed = [p \in Parsers |-> TRUE] /\ finished = subset
  /\ error = [p \in Parsers |-> FALSE] /\ awaited = [p \in Parsers |-> NoName]
  /\ limit = [p \in Parsers |-> 2] /\ slot = [p \in Parsers |-> Empty(2)]
  /\ locked = [f \in Families |-> FALSE] /\ call = [t \in Threads |-> Idle]
  /\ reserved = [p \in Parsers |-> IF p = p2 THEN n2 ELSE NoName]
  /\ \E first \in {Absent, Value(p3)} :
       /\ declared = [p \in Parsers |-> MaxDeclarations]
       /\ tables = (f1 :> [entries |-> (n1 :> first @@ n2 :> Absent), cap |-> 2]
                 @@ f2 :> [entries |-> (n1 :> Value(p4) @@
                                        n2 :> [by |-> p2, number |-> 1, state |-> "bare"]),
                           cap |-> 2])

CompletedSpec ==
  CompletedInit /\ [][Next]_vars /\ \A t \in Threads : WF_vars(Step(t))

\* From there too an entry changes only as a declaration table allows.
TablesKept == [][Abstract!Next]_<<made, Table>>
=============================================================================
