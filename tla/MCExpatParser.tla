--------------------------- MODULE MCExpatParser ---------------------------
(***************************************************************************)
(* Instances of ExpatParser for TLC: what the application may feed and     *)
(* which handlers it starts with.                                          *)
(***************************************************************************)
EXTENDS ExpatParser

\* Markup with every kind of callback; declarations in an external subset.
MarkupChunks == [isSubset \in BOOLEAN |->
  IF isSubset THEN {<<"unknown">>, <<"decl", "external">>, <<"decl", "bad">>, << >>}
              ELSE {<<"tag", "text">>, <<"decl">>, <<"external", "badtag">>}]
MarkupHandlers == {{"namespace", "start", "end", "external"},
                   {"default"}, {"default", "end", "decl"}}

\* One document in an encoding the core does not know.
EncodingChunks == [isSubset \in BOOLEAN |->
  {<<"unknown", "convert">>, <<"tag">>, <<"external">>, <<"convert", "bad">>}]
EncodingHandlers == {{"unknown"}, {"unknown", "text", "external"}, {"default", "unknown"}}

NoSubset == {"none"}
BothSubsets == {"none", "unmerged"}
NoHandlers == {}
ToggleDefault == {"default"}
=============================================================================
