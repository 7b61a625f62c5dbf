---------------------------- MODULE MCEntityValue ----------------------------
(* Documents of a few items for every path of entity values.               *)
EXTENDS EntityValueReference

CONSTANTS c1, c2

T(x) == <<"t", x>>
P(n) == <<"%", n>>
G(n) == <<"&", n>>
C(i) == <<"c", i>>
X(s) == <<"x", s>>
Bad  == <<"bad", "1">>
Lex  == <<"lex", "*">>

External    == [kind |-> "external", value |-> <<>>]
Reserved    == [kind |-> "reserved", value |-> <<>>]
Internal(t) == [kind |-> "internal", value |-> t]

MCEntities ==
    [p |-> External, q |-> External, z |-> Reserved,
     i |-> Internal(<<T("I")>>),
     j |-> Internal(<<T("J"), T("CR"), P("q"), T("K")>>),
     k |-> Internal(<<P("k")>>), l |-> Internal(<<P("i"), P("i")>>)]

Lit(name, parameter, items) ==
    [name |-> name, parameter |-> parameter, items |-> items, normalize |-> TRUE,
     parameters |-> <<>>, suffix |-> FALSE]
General(items) == Lit("e", FALSE, items)
After == Lit("f", FALSE, <<T("F")>>)

Plain(literals, p, q) ==
    [literals |-> literals, entities |-> MCEntities, documents |-> [p |-> p, q |-> q],
     compatible |-> FALSE, standalone |-> FALSE, defaults |-> FALSE, orderly |-> TRUE,
     unknown |-> {}, depth |-> 2, maxDepth |-> 9, maxEntities |-> 20, maxValue |-> 12]

Mid == <<T("L"), P("p"), T("R")>>
Two == <<T("CR"), P("p"), P("q"), T("R")>>

Orderly ==
    { Plain(<<General(Mid), After>>, <<T("X"), P("q"), T("CR")>>, <<T("Q")>>),
      [Plain(<<General(Mid), After>>, <<T("X"), P("q"), T("Y")>>, <<T("Q")>>) EXCEPT !.standalone = TRUE],
      [Plain(<<General(Two), After>>, <<T("X")>>, <<C(T("CR")), G("g")>>) EXCEPT !.defaults = TRUE],
      Plain(<<General(Mid), After>>, <<P("m"), T("Y")>>, <<>>),
      Plain(<<General(<<P("m")>> \o Mid), After>>, <<T("X")>>, <<>>),
      Plain(<<General(<<P("m"), P("z"), P("i"), P("l")>>), After>>, <<>>, <<>>),
      Plain(<<General(Mid), After>>, <<P("l"), P("z"), T("Y")>>, <<>>),
      Plain(<<General(Mid), After>>, <<T("A"), X("yes"), T("X"), P("m")>>, <<>>),
      Plain(<<General(Two), After>>, <<P("m")>>, <<X("yes"), X("no"), P("m")>>),
      Plain(<<General(Two), After>>, <<X("no"), T("X")>>, <<T("Q"), Lex>>),
      Plain(<<General(Two), After>>, <<T("X"), Bad>>, <<T("A"), Lex, X("yes")>>),
      Plain(<<General(Mid), After>>, <<P("j"), T("Y")>>, <<T("Q"), T("CR")>>),
      Plain(<<General(<<P("j"), T("R")>>), After>>, <<>>, <<T("Q")>>),
      Plain(<<General(Mid)>>, <<P("q")>>, <<P("p")>>),
      Plain(<<General(Mid)>>, <<P("k")>>, <<>>),
      Plain(<<General(<<P("k")>>)>>, <<P("k")>>, <<>>),
      Plain(<<Lit("n", TRUE, Mid), General(<<P("n"), P("n")>>)>>, <<C(P("i"))>>, <<>>),
      Plain(<<Lit("n", TRUE, Mid), After>>, <<P("n")>>, <<>>),
      Plain(<<Lit("n", TRUE, Mid), After>>, <<P("q")>>, <<P("n")>>),
      [Plain(<<Lit("i", TRUE, Mid), After>>, <<P("i")>>, <<>>) EXCEPT !.defaults = TRUE],
      Plain(<<[General(Mid) EXCEPT !.parameters = <<"q">>], After>>, <<P("q")>>, <<>>),
      Plain(<<[General(Mid) EXCEPT !.suffix = TRUE], After>>, <<T("X")>>, <<>>),
      [Plain(<<General(Mid), After>>, <<P("q")>>, <<P("l")>>) EXCEPT !.maxDepth = 4],
      [Plain(<<General(<<P("j"), T("R")>>), After>>, <<>>, <<P("i")>>) EXCEPT !.maxDepth = 3],
      [Plain(<<General(<<P("j"), T("R")>>), After>>, <<>>, <<P("i")>>) EXCEPT !.maxDepth = 4],
      [Plain(<<General(Mid), After>>, <<T("X"), T("Y"), P("q"), T("Z")>>, <<T("Q")>>) EXCEPT !.maxValue = 4],
      [Plain(<<General(Mid), After>>, <<T("X"), T("Y"), P("q"), T("Z")>>, <<T("Q")>>) EXCEPT !.maxValue = 3],
      [Plain(<<General(Two), After>>, <<T("X"), P("i"), T("Y")>>, <<T("Q"), P("i")>>) EXCEPT !.maxValue = 3],
      [Plain(<<General(Mid), After>>, <<T("X")>>, <<>>) EXCEPT !.maxEntities = 8],
      [Plain(<<General(<<P("i")>>), General(Mid), After>>, <<T("X")>>, <<>>) EXCEPT !.maxEntities = 8, !.defaults = TRUE],
      [Plain(<<General(<<P("p"), P("p")>>), After>>, <<T("X"), P("i"), T("Y")>>, <<>>) EXCEPT !.compatible = TRUE],
      [Plain(<<General(<<P("i"), P("p")>>), General(<<P("i")>>)>>, <<T("X"), P("i"), T("Y")>>, <<>>) EXCEPT !.compatible = TRUE],
      [Plain(<<General(Two), After>>, <<T("X")>>, <<T("Q")>>) EXCEPT !.unknown = {"p"}] }

Free ==
    { [Plain(<<General(Two), After>>, <<T("X"), P("q"), T("Y")>>, <<T("Q")>>) EXCEPT !.orderly = FALSE],
      [Plain(<<General(Mid), Lit("f", FALSE, <<P("q"), T("F")>>)>>, <<T("X"), P("i"), T("Y")>>, <<T("Q")>>) EXCEPT !.orderly = FALSE],
      [Plain(<<General(<<P("p"), P("i"), P("p"), T("R")>>)>>, <<T("X"), P("i")>>, <<>>) EXCEPT !.orderly = FALSE, !.unknown = {"p"}],
      [Plain(<<General(Two)>>, <<X("yes"), T("X")>>, <<T("Q")>>) EXCEPT !.orderly = FALSE] }

MCSlots == Permutations({c1, c2})
MCScenarios == Orderly \cup Free
=============================================================================
