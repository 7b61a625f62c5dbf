-------------------------- MODULE MCContentParser --------------------------
(***************************************************************************)
(* Instances of ContentParser for TLC: documents that bring every token    *)
(* into every context, and the entities they refer to.                     *)
(***************************************************************************)
EXTENDS ContentReference

T(kind, name) == [kind |-> kind, name |-> name, decls |-> << >>]
Declaring(kind, name, decls) == [kind |-> kind, name |-> name, decls |-> decls]
D(prefix, uri) == [prefix |-> prefix, uri |-> uri]

Start(n) == T("start", n)
End(n) == T("end", n)
Empty(n) == T("empty", n)
Char(c) == T("char", c)
Space == T("space", " ")
Ref(n) == T("ref", n)
Cdata == T("cdata", "")
CdataEnd == T("cdataEnd", "")
Misc == T("misc", "")
Bad == T("bad", "")
Broken == T("open", "")
Garbled(failure) == T("garbled", failure)
Unknown == T("unknown", "")
Convert(c) == T("convert", c)

SomePrefixes == {"", "p"}
NamePrefix == [n \in {"a", "b", "p:a"} |-> IF n = "p:a" THEN "p" ELSE ""]
NoBindings == [p \in SomePrefixes |-> "none"]
SomeBindings == [p \in SomePrefixes |-> IF p = "p" THEN "u" ELSE "none"]

SomeEntities == {"flat", "deep", "opens", "closes", "loop", "back", "section",
                 "broken", "stray", "parameter", "file", "picture"}
SomeKinds == [n \in SomeEntities |->
  CASE n = "file" -> "external" [] n = "picture" -> "unparsed" [] OTHER -> "internal"]
SomeValues == [n \in SomeEntities |->
  CASE n = "flat" -> <<Char("x")>>
    [] n = "deep" -> <<Declaring("start", "p:a", <<D("p", "v")>>), Ref("flat"), End("p:a"), Ref("file")>>
    [] n = "opens" -> <<Start("b"), Char("y")>>
    [] n = "closes" -> <<End("a")>>
    [] n = "loop" -> <<Char("z"), Ref("back")>>
    [] n = "back" -> <<Ref("loop")>>
    [] n = "section" -> <<Cdata, Char("x")>>
    [] n = "broken" -> <<Char("x"), Broken>>
    [] n = "stray" -> <<Char("x"), CdataEnd>>
    [] OTHER -> << >>]
OneParameter == {"parameter"}

\* Tags and namespaces.
TagDocuments == {
  <<Misc, Declaring("start", "a", <<D("", "u"), D("p", "v")>>),
    Declaring("start", "p:a", <<D("p", "w")>>), Empty("p:a"), End("p:a"), Empty("p:a"), End("a"), Space>>,
  <<Declaring("start", "a", <<D("", "u")>>), Declaring("empty", "b", <<D("", "none")>>), Empty("b"), End("a"), Empty("a")>>,
  <<Declaring("empty", "p:a", <<D("p", "u")>>), Char("x")>>,
  <<Start("a"), Declaring("start", "b", <<D("", "u"), D("p", "none")>>)>>,
  <<Start("a"), Declaring("empty", "b", <<D("p", "u")>>), Char("x"), Empty("p:a"), End("a")>>,
  <<Start("a"), Char("x"), Start("b"), End("a")>>,
  <<Start("a"), Empty("b"), Start("b"), Start("b"), Start("b")>>,
  <<Start("a"), Char("x"), Bad>>, <<Misc, Bad>>, <<Start("a"), Char("x"), Char("y")>>,
  <<Start("a"), Ref("deep"), Ref("missing")>> }

\* Text and what stands outside the document element.
TextDocuments == {
  <<Space, Start("a"), Char("x"), Space, Cdata, Char("y"), Space, CdataEnd, Char("z"), End("a"), Space, Misc>>,
  <<Start("a"), Char("x"), Char("y"), CdataEnd, End("a")>>,
  <<Start("a"), Cdata, Char("x"), Char("y")>>,
  <<Char("x"), Char("y"), Empty("a")>>, <<Char("x"), Space, Empty("a")>>, <<Char("x"), Ref("flat")>>,
  <<Space, CdataEnd>>, <<Misc, Cdata>>, <<End("a")>>, <<Ref("flat")>>, <<Space, Space>>,
  <<Empty("a"), Space, Char("x")>>, <<Empty("a"), Cdata>>, <<Empty("a"), Misc, CdataEnd>>, <<Empty("a"), Ref("flat")>>,
  <<Char("x"), CdataEnd>>, <<Start("a"), CdataEnd>>, <<Start("a"), Char("x"), Bad>> }

\* Entities.
EntityDocuments ==
  {<<Space, Start("a"), Char("x"), Ref(n), Char("y"), End("a")>> : n \in SomeEntities \cup {"missing"}}
  \cup {<<Start("a"), Ref("deep"), Ref("deep"), End("a")>>,
        <<Start("a"), Ref("flat"), Start("b"), Ref("closes"), End("b"), End("a")>>}

\* What the replacement of an external entity may hold.
FragmentDocuments == {
  <<Char("x"), Empty("p:a"), Ref("deep"), Space, Cdata, Char("y"), CdataEnd>>,
  <<Start("a"), Ref("flat"), End("a"), End("b")>>, <<Start("a"), Char("x")>>,
  <<Ref("missing"), Ref("file")>>, <<Ref("loop")>>, <<Cdata, Char("x")>>, << >> }

\* Decoding errors, unknown encodings and conversions.
DecodedDocuments == {
  <<Unknown, Start("a"), Convert("x"), Char("y"), Convert("z"), End("a")>>,
  <<Unknown, Empty("a"), Garbled("InvalidToken")>>,
  <<Start("a"), Char("x"), Broken, Garbled("PartialCharacter")>>,
  <<Start("a"), Cdata, Char("x"), Garbled("UnclosedToken")>>,
  <<Start("a"), Ref("broken"), Garbled("PartialCharacter")>>,
  <<Char("x"), Garbled("InvalidToken")>>, <<Misc, Garbled("PartialCharacter")>>,
  <<Start("a"), Cdata, Char("x"), Garbled("InvalidToken")>> }

\* Failures of memory and of budgets anywhere.
FailingDocuments == {
  <<Declaring("start", "a", <<D("", "u"), D("p", "v")>>), Ref("deep"), Char("x"),
    Declaring("empty", "p:a", <<D("p", "w")>>), End("a")>>,
  <<Unknown, Start("a"), Convert("x"), End("a")>> }

-----------------------------------------------------------------------------
Plain(tokens) ==
  [tokens |-> tokens, fragment |-> FALSE, bindings |-> NoBindings, inherited |-> {},
   depth |-> 0, lenient |-> FALSE, expand |-> TRUE, exhaustible |-> FALSE]
Unexpanded(tokens) == [Plain(tokens) EXCEPT !.expand = FALSE]
External(tokens, depth) ==
  [Plain(tokens) EXCEPT !.fragment = TRUE, !.bindings = SomeBindings, !.inherited = {"loop"},
                        !.depth = depth, !.lenient = TRUE]
Failing(tokens) == [Plain(tokens) EXCEPT !.exhaustible = TRUE]

FailingInputs == {Failing(d) : d \in FailingDocuments}
AllInputs ==
  {Unexpanded(d) : d \in TagDocuments}
  \cup {Plain(d) : d \in TextDocuments \cup EntityDocuments \cup DecodedDocuments}
  \cup {External(d, n) : d \in FragmentDocuments, n \in {1, 2}}
  \cup FailingInputs
=============================================================================
