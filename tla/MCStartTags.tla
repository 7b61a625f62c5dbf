---------------------------- MODULE MCStartTags ----------------------------
(* Tags and configurations for TLC: what a tag can do to names, bindings,  *)
(* values and defaults, one thing after another.                           *)
EXTENDS Integers, Sequences, TLC

CONSTANT NONE

XmlUri == <<"XML">>
XmlnsUri == <<"XMLNS">>

At(name, value) == [name |-> name, value |-> value]
Tag(name, attributes) == [name |-> name, attributes |-> attributes, empty |-> FALSE]
Empty(name, attributes) == [Tag(name, attributes) EXCEPT !.empty = TRUE]

P(local) == <<"p", ":", local>>
Q(local) == <<"q", ":", local>>
Ns(prefix) == <<"xmlns", ":", prefix>>

MCTags ==
    {Tag(<<"r">>, <<>>),
     Tag(<<"r">>, <<At(<<"xmlns">>, <<"u">>), At(Ns("p"), <<"u", "x">>)>>),
     Tag(<<"n">>, <<At(<<"xmlns">>, <<>>), At(<<"b">>, <<"v", "CR", "LF", "&e;">>)>>),
     Tag(P("n"), <<At(Ns("p"), <<"u", "p">>), At(Ns("q"), <<"u", "x">>), At(Q("b"), <<"v">>)>>),
     Tag(P("n"), <<At(P("b"), <<"v">>), At(Q("b"), <<"v">>)>>),
     Tag(<<"n">>, <<At(P("b"), <<"v">>), At(<<"u", "x", "b">>, <<"v">>), At(<<"b">>, <<"v">>)>>),
     Tag(<<"n">>, <<At(Ns("q"), <<"u">>), At(P("b"), <<"v">>), At(<<"q", ":", "x", "b">>, <<"v">>)>>),
     Tag(<<"n">>, <<At(<<"b">>, <<"v">>), At(<<"b">>, <<"v">>)>>),
     Empty(<<"r">>, <<At(Ns("p"), <<"y">>), At(P("b"), <<"v">>)>>),
     Empty(P("n"), <<At(<<"i">>, <<" ", "v", "&#32;", "&#9;", "TAB", "LF">>)>>),
     Empty(<<"n">>, <<At(<<"i">>, <<" ", "v", " ">>), At(<<"b">>, <<"&f;">>)>>),
     Empty(<<"n">>, <<At(<<"b">>, <<"&g;">>)>>),
     Empty(<<"n">>, <<At(<<"b">>, <<"&x;", "&u;">>)>>),
     Empty(<<"n">>, <<At(<<"b">>, <<"&lt;", "&m;", "&k;">>)>>),
     Empty(<<"n">>, <<At(<<"b">>, <<"v", "<">>)>>),
     Empty(<<"r">>, <<At(Ns("p"), <<>>)>>),
     Empty(<<"r">>, <<At(Ns("p"), <<"u", "|">>)>>),
     Empty(<<"r">>, <<At(Ns("p"), XmlnsUri), At(Ns("q"), <<"u">>)>>),
     Empty(<<"r">>, <<At(Ns("q"), <<"u">>), At(<<"xmlns">>, XmlUri)>>),
     Empty(<<"r">>, <<At(Ns("xml"), <<"u">>)>>),
     Empty(<<"r">>, <<At(Ns("xmlns"), <<"u">>)>>),
     Empty(<<"xmlns", ":", "a">>, <<At(<<"xml", ":", "b">>, <<"v">>)>>),
     Empty(<<"r">>, <<At(<<"xml", ":", "b">>, <<"v">>), At(Ns("xml"), XmlUri)>>),
     Empty(<<"p", ":", "n", ":", "b">>, <<At(<<":", "b">>, <<"v">>)>>)}

MCEndNames == {<<"r">>, P("n")}

Entity(value) == [value |-> value, inParameter |-> FALSE]
Entities ==
    ("&e;" :> Entity(<<"v", "LF", "a">>)) @@ ("&f;" :> Entity(<<" ", "&e;", "&e;", "&#32;">>))
      @@ ("&g;" :> Entity(<<"v", "&h;">>)) @@ ("&h;" :> Entity(<<"&g;">>))
      @@ ("&x;" :> Entity(NONE)) @@ ("&k;" :> Entity(<<"&f;", "v">>))
      @@ ("&m;" :> [value |-> <<"a">>, inParameter |-> TRUE])

Declaration(name, type, value) == [name |-> name, type |-> type, value |-> value]
Defaults ==
    (<<"r">> :> <<Declaration(<<"xmlns">>, "CDATA", <<"y">>), Declaration(<<"i">>, "ID", NONE),
                  Declaration(Q("b"), "CDATA", <<"v", "v", "y", "v">>),
                  Declaration(Ns("q"), "CDATA", <<"u", "y">>)>>)
      @@ (<<"n">> :> <<Declaration(<<"i">>, "ID", NONE), Declaration(<<"b">>, "CDATA", <<"&", "a">>)>>)
      @@ (P("n") :> <<Declaration(Ns("q"), "CDATA", <<"x">>), Declaration(<<"i">>, "ID", <<"v">>)>>)

Setting(separator, triplets, defaults, declared, budget) ==
    [separator |-> separator, triplets |-> triplets, defaults |-> defaults,
     entities |-> IF defaults = <<>> THEN <<>> ELSE Entities, declared |-> declared, budget |-> budget]

MCSettings ==
    {Setting(separator, triplets, defaults, TRUE, 1000) :
        separator \in {"NUL", "|", "x"}, triplets \in BOOLEAN, defaults \in {<<>>, Defaults}}
    \cup {Setting(NONE, FALSE, defaults, FALSE, 1000) : defaults \in {<<>>, Defaults}}
    \cup {Setting(":", FALSE, <<>>, TRUE, 1000)}
    \cup {Setting("|", TRUE, Defaults, FALSE, 9), Setting("|", FALSE, <<>>, TRUE, 4)}
=============================================================================
