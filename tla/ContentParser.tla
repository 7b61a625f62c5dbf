--------------------------- MODULE ContentParser ---------------------------
(***************************************************************************)
(* The core parser (crates/xeme/src/lib.rs) outside the document type      *)
(* declaration: `feed` and `next_event`, the stack of entity sources, the  *)
(* element stack, the namespace scopes, and what happens to the events     *)
(* already queued when an error is met.                                    *)
(*                                                                         *)
(* Input is a sequence of tokens, fed in pieces that may end inside one.   *)
(*   "start" "empty" "end"  tags; `decls` are the namespace declarations   *)
(*   "char" "space"         one character of character data                *)
(*   "ref"                  a reference to the entity `name`               *)
(*   "cdata" "cdataEnd"     <![CDATA[ and ]]>                              *)
(*   "misc"                 a comment or a processing instruction          *)
(*   "bad"                  malformed markup                               *)
(*   "open"                 the beginning of a tag that is never completed *)
(*   "garbled"              bytes that do not decode, with error `name`    *)
(*   "unknown"              what follows is in an unknown encoding         *)
(*   "convert"              a sequence the application has to convert      *)
(*                                                                         *)
(* Publication through the adapter's frame and through the queue deliver   *)
(* the same events and are not told apart.                                 *)
(***************************************************************************)
EXTENDS Naturals, Sequences, FiniteSets

CONSTANTS
  Inputs,          \* the documents, each with the circumstances it is read in
  EntityNames,     \* the general entities that are declared, and of each
  EntityKind,      \*   "internal", "external" or "unparsed"
  EntityValue,     \*   its replacement text, a sequence of tokens
  FromParameter,   \* those declared in a parameter entity
  Prefixes, PrefixOf, DefaultPrefix,  \* namespace prefixes, and that of a name
  NoUri,           \* no namespace
  MaxDepth,        \* element nesting limit
  MaxEntityDepth   \* entity nesting limit

VARIABLE input     \* the one this parser is given

doc == input.tokens                     \* the document
Fragment == input.fragment              \* the parser of an external general entity
InitialBindings == input.bindings       \* inherited by a fragment
InheritedNames == input.inherited       \* entities open in its parents
ExternalDepth == input.depth            \* and their number
Lenient == input.lenient                \* an external subset, not standalone: entities may be missing
ExpandInternal == input.expand          \* internal entities are expanded
Exhaustible == input.exhaustible        \* memory and byte budgets may run out

ASSUME InputsAssumption ==
  \A i \in Inputs : /\ {i.fragment, i.lenient, i.expand, i.exhaustible} \subseteq BOOLEAN
                    /\ i.depth \in Nat
ASSUME LimitsAssumption == {MaxDepth, MaxEntityDepth} \subseteq Nat
ASSUME NamespacesAssumption == DefaultPrefix \in Prefixes
ASSUME EntitiesAssumption ==
  \A n \in EntityNames : EntityKind[n] \in {"internal", "external", "unparsed"}

\* A token, and a tag, whose name has a prefix and whose declarations bind some.
SoundToken(token) ==
  /\ token = [kind |-> token.kind, name |-> token.name, decls |-> token.decls]
  /\ token.kind \in {"start", "empty"} =>
       /\ token.name \in DOMAIN PrefixOf
       /\ token.decls \in Seq([prefix : Prefixes, uri : {token.decls[i].uri : i \in 1..Len(token.decls)}])

Sound(tokens) ==
  /\ tokens \in Seq({tokens[i] : i \in 1..Len(tokens)})
  /\ \A i \in 1..Len(tokens) : SoundToken(tokens[i])

ASSUME TokensAssumption ==
  /\ \A i \in Inputs : Sound(i.tokens) /\ DOMAIN i.bindings = Prefixes
  /\ \A n \in EntityNames : Sound(EntityValue[n])

Markup == {"start", "empty", "end", "ref", "cdata", "cdataEnd", "misc", "bad"}
Character == {"char", "space"}
Undecodable == {"garbled", "unknown", "convert"}

\* Queued and delivered events.  `name` is a prefix for the namespace events.
Event(kind, name, uri) == [kind |-> kind, name |-> name, uri |-> uri, text |-> << >>]
Text(characters) == [Event("Text", "", NoUri) EXCEPT !.text = characters]

Opening(prefix, uri) == Event("StartNamespace", prefix, uri)
Closing(prefix) == Event("EndNamespace", prefix, NoUri)

VARIABLES
  received,       \* tokens of it received completely
  part,           \* the beginning of the next one: "none", "fed" or "read"
  decoded,        \* tokens of it decoded
  finalInput,     \* final_input
  decodingError,  \* a staged decoding error, or "none"
  converting,     \* a conversion is pending
  sources,        \* the document and the entities being read, innermost last
  active,         \* active_entities: how many sources have a name
  stack,          \* open elements: name, namespace, scope
  scopes,         \* namespace_scopes: blocks of undo records
  bindings,       \* the namespace bound to each prefix
  inCdata, seenRoot, closedRoot,
  pending,        \* queued events
  error,          \* the recorded error, or "none"
  finished,
  calling         \* a call of next_event runs

\* History: the events delivered, and the outcome of the last next_event.
VARIABLES log, outcome

inputVars == <<input, received, finalInput>>
decoderVars == <<decoded, decodingError, converting>>
nestVars == <<sources, active, stack, scopes, bindings>>
phaseVars == <<inCdata, seenRoot, closedRoot>>
historyVars == <<log, outcome>>
vars == <<inputVars, part, decoderVars, nestVars, phaseVars, pending, error,
          finished, calling, historyVars>>

Root == [name |-> "", rest |-> << >>, depth |-> 0]

Init ==
  /\ input \in Inputs
  /\ received = 0 /\ part = "none" /\ finalInput = FALSE
  /\ decoded = 0 /\ decodingError = "none" /\ converting = FALSE
  /\ sources = <<Root>> /\ active = [n \in EntityNames |-> 0]
  /\ stack = << >> /\ scopes = << >> /\ bindings = InitialBindings
  /\ inCdata = FALSE /\ seenRoot = FALSE /\ closedRoot = FALSE
  /\ pending = << >> /\ error = "none" /\ finished = FALSE
  /\ calling = FALSE /\ log = << >> /\ outcome = "none"

Top == sources[Len(sources)]
Rest == Top.rest
AtRoot == Len(sources) = 1

\* is_source_final
IsFinal == ~AtRoot \/ (finalInput /\ ~converting) \/ decodingError # "none"

-----------------------------------------------------------------------------
(***************************************************************************)
(* Input                                                                   *)
(***************************************************************************)

\* How far the decoder gets in the tokens after `from`.
DecodedTo(from, to) ==
  CHOOSE n \in from..to :
    /\ \A i \in (from + 1)..n : doc[i].kind \notin Undecodable
    /\ n < to => doc[n + 1].kind \in Undecodable

\* Decoded input is added to the root source.
Publish(characters, from, to) ==
  sources' = [sources EXCEPT ![1].rest = @ \o characters \o SubSeq(doc, from + 1, to)]

\* The decoder goes on after `from`, behind the `characters` it has converted;
\* what stops it is staged.
Decode(characters, from, to) ==
  LET n == DecodedTo(from, to)
      stop == IF n = to THEN "" ELSE doc[n + 1].kind
  IN
  /\ decoded' = n
  /\ Publish(characters, from, n)
  /\ decodingError' = CASE stop = "garbled" -> doc[n + 1].name
                        [] stop = "unknown" -> "UnknownEncoding"
                        [] OTHER -> "none"
  /\ converting' = (stop = "convert")

\* feed_inner: `count` more tokens and perhaps the beginning of another.  After
\* a decoding error, and while a conversion is pending, input is only stored.
Feed(count, beginning, final) ==
  /\ error = "none" /\ ~finalInput
  /\ received + count <= Len(doc)
  /\ beginning => received + count < Len(doc) /\ doc[received + count + 1].kind \in Markup
  /\ part = "fed" /\ count = 0 => beginning
  /\ received' = received + count /\ finalInput' = final
  /\ part' = IF beginning THEN "fed" ELSE "none"
  /\ IF decodingError = "none" /\ ~converting
     THEN Decode(<< >>, decoded, received')
     ELSE UNCHANGED <<decoderVars, sources>>
  /\ UNCHANGED <<input, active, stack, scopes, bindings, phaseVars, pending,
                 error, finished, calling, historyVars>>

\* Input after the final one, or over a limit, or that cannot be stored.
FeedFails ==
  /\ error = "none"
  /\ error' \in (IF finalInput THEN {"Finished"} ELSE {})
                \cup (IF Exhaustible THEN {"LimitExceeded", "NoMemory"} ELSE {})
  /\ UNCHANGED <<inputVars, part, decoderVars, nestVars, phaseVars, pending,
                 finished, calling, historyVars>>

\* install_encoding_map, with the input retained since.
ResolveEncoding ==
  /\ decodingError = "UnknownEncoding" /\ error # "NoMemory"
  /\ error' = "none"
  /\ Decode(<< >>, decoded + 1, received)
  /\ UNCHANGED <<inputVars, part, active, stack, scopes, bindings, phaseVars,
                 pending, finished, calling, historyVars>>

\* resolve_encoding_conversion, with a character or with -1.
ResolveConversion ==
  /\ converting /\ error = "none"
  /\ \/ /\ Decode(<<[doc[decoded + 1] EXCEPT !.kind = "char"]>>, decoded + 1, received)
        /\ UNCHANGED error
     \/ error' = "InvalidToken" /\ UNCHANGED <<decoderVars, sources>>
  /\ UNCHANGED <<inputVars, part, active, stack, scopes, bindings, phaseVars,
                 pending, finished, calling, historyVars>>

-----------------------------------------------------------------------------
(***************************************************************************)
(* The outcome of next_event                                               *)
(***************************************************************************)

Return(what) == calling' = FALSE /\ outcome' = what

Deliver(event) == log' = Append(log, event) /\ Return("event")

Unfinished == {"UnclosedToken", "NoElements", "UnclosedCdataSection"}

\* A staged decoding error takes precedence over an error that only says the
\* input ended early.
Reported(kind) ==
  IF decodingError # "none" /\ kind \in Unfinished
  THEN IF inCdata /\ decodingError = "UnclosedToken" THEN "UnclosedCdataSection"
                                                     ELSE decodingError
  ELSE kind

\* Variant: the bindings of a failed tag stay announced.
CloseNothing(queue) == queue

\* The namespaces a failed start tag has announced, which are its first events,
\* are closed again.
CloseBindings(queue) ==
  LET n == Cardinality({i \in 1..Len(queue) : queue[i].kind = "StartNamespace"})
  IN queue \o [i \in 1..n |-> Closing(queue[n + 1 - i].name)]

\* Variant: the error is returned at once.
RaiseFirst(kind, queue, names) ==
  /\ error' = Reported(kind)
  /\ active' = [n \in EntityNames |-> 0]
  /\ pending' = << >> /\ Return("error") /\ UNCHANGED log

\* finish_event_error: events queued before the error are delivered first,
\* unless memory ran out.  The index of open entities, `names`, is dropped
\* unless an encoding may still be supplied.
Raise(kind, queue, names) ==
  LET closed == CloseBindings(queue) IN
  /\ error' = Reported(kind)
  /\ active' = IF kind # "NoMemory" /\ decodingError = "UnknownEncoding"
               THEN names ELSE [n \in EntityNames |-> 0]
  /\ IF kind = "NoMemory" \/ queue = << >>
     THEN pending' = << >> /\ Return("error") /\ UNCHANGED log
     ELSE pending' = Tail(closed) /\ Deliver(Head(closed))

\* A scanning step that fails leaves everything else to be dropped.
Fail(kind, queue) ==
  /\ Raise(kind, queue, active)
  /\ UNCHANGED <<inputVars, part, decoderVars, sources, stack, scopes, bindings,
                 phaseVars, finished>>

Call ==
  /\ ~calling /\ calling' = TRUE
  /\ UNCHANGED <<inputVars, part, decoderVars, nestVars, phaseVars, pending,
                 error, finished, historyVars>>

\* pop_event, or the recorded error, or the end.
Answer ==
  /\ calling
  /\ \/ /\ pending # << >>
        /\ pending' = Tail(pending) /\ Deliver(Head(pending))
     \/ /\ pending = << >> /\ error # "none"
        /\ Return("error") /\ UNCHANGED <<pending, log>>
     \/ /\ pending = << >> /\ error = "none" /\ finished
        /\ Return("finished") /\ UNCHANGED <<pending, log>>
  /\ UNCHANGED <<inputVars, part, decoderVars, nestVars, phaseVars, error, finished>>

\* Variant: the recorded error is not looked at.
ScanningOn == calling /\ pending = << >> /\ ~finished

Scanning == calling /\ pending = << >> /\ error = "none" /\ ~finished

\* More input is needed.
Wait ==
  /\ Return("more")
  /\ UNCHANGED <<inputVars, part, decoderVars, nestVars, phaseVars, pending,
                 error, finished, log>>

-----------------------------------------------------------------------------
(***************************************************************************)
(* The end of a source                                                     *)
(***************************************************************************)

Incomplete ==
  IF Rest # << >> THEN Head(Rest).kind = "open"
  ELSE AtRoot /\ part = "fed" /\ decoded = received

Exhausted == Rest = << >> /\ ~Incomplete

\* What an entity opens it must close.
Balanced == Len(stack) = Top.depth /\ ~inCdata

PopSource ==
  /\ Scanning /\ Exhausted /\ ~AtRoot
  /\ sources' = SubSeq(sources, 1, Len(sources) - 1)
  /\ LET names == [active EXCEPT ![Top.name] = @ - 1] IN
     \/ /\ Balanced
        /\ active' = names
        /\ UNCHANGED <<pending, error, calling, historyVars>>
     \/ ~Balanced /\ Raise("AsynchronousEntity", << >>, names)
  /\ UNCHANGED <<inputVars, part, decoderVars, stack, scopes, bindings,
                 phaseVars, finished>>

\* What is wrong with a document that ends here.
FailsAtEnd ==
  CASE inCdata -> "UnclosedCdataSection"
    [] ~inCdata /\ ~seenRoot /\ ~Fragment -> "NoElements"
    [] ~inCdata /\ (seenRoot \/ Fragment) /\ stack # << >> ->
         IF Fragment THEN "AsynchronousEntity" ELSE "NoElements"
    [] OTHER -> "none"

EndOfInput ==
  /\ Scanning /\ Exhausted /\ AtRoot
  /\ \/ decodingError # "none" /\ Fail(decodingError, << >>)
     \/ ~IsFinal /\ Wait
     \/ /\ decodingError = "none" /\ IsFinal
        /\ \/ FailsAtEnd # "none" /\ Fail(FailsAtEnd, << >>)
           \/ /\ FailsAtEnd = "none"
              /\ finished' = TRUE /\ Return("finished")
              /\ UNCHANGED <<inputVars, part, decoderVars, nestVars, phaseVars,
                             pending, error, log>>

-----------------------------------------------------------------------------
(***************************************************************************)
(* Tokens                                                                  *)
(***************************************************************************)

\* Character data is allowed here.
Content == stack # << >> \/ Fragment

\* The error for what may not stand outside the document element.
Misplaced == IF closedRoot THEN "JunkAfterDocumentElement" ELSE "Syntax"

\* A token that is not complete yet, or never will be.
PartialToken ==
  LET kind == IF Rest # << >> THEN "start" ELSE doc[received + 1].kind IN
  /\ Scanning /\ Incomplete
  /\ \/ kind = "ref" /\ ~Content /\ Fail("InvalidToken", << >>)
     \/ kind = "cdata" /\ ~Content /\ Fail(Misplaced, << >>)
     \/ /\ kind \notin {"cdataEnd"} \cup (IF Content THEN {} ELSE {"ref", "cdata"})
        /\ IF IsFinal THEN Fail("UnclosedToken", << >>) ELSE Wait
     \/ kind = "cdataEnd" /\ ~IsFinal /\ Wait
     \/ kind = "cdataEnd" /\ IsFinal /\ ~Content /\ Fail(Misplaced, << >>)
     \/ /\ kind = "cdataEnd" /\ IsFinal /\ Content
        /\ part' = "read" /\ pending' = <<Text(<<"]">>)>>
        /\ UNCHANGED <<inputVars, decoderVars, nestVars, phaseVars, error,
                       finished, calling, historyVars>>

Next(kind) == Scanning /\ Rest # << >> /\ Head(Rest).kind = kind

\* Variant: nothing is consumed.
ConsumeNothing(count) == UNCHANGED sources

\* The source goes on after `count` tokens.
Consume(count) ==
  sources' = [sources EXCEPT ![Len(sources)].rest = SubSeq(@, count + 1, Len(@))]

Emit(events) == pending' = events /\ UNCHANGED <<error, calling, historyVars>>

\* Characters at the head of the source.
RunLength ==
  CHOOSE n \in 0..Len(Rest) :
    /\ \A i \in 1..n : Rest[i].kind \in Character
    /\ n < Len(Rest) => Rest[n + 1].kind \notin Character

AtCharacter == Scanning /\ Rest # << >> /\ Head(Rest).kind \in Character

\* parse_text and parse_cdata: any part of the run is delivered, for lines and
\* windows end an event.  A terminator in sight fails all of the last line.
ReadText ==
  /\ AtCharacter /\ Content
  /\ \E n \in 1..RunLength :
       LET text == Text([i \in 1..n |-> Rest[i].name]) IN
       \/ /\ Consume(n) /\ Emit(<<text>>)
          /\ UNCHANGED <<inputVars, part, decoderVars, active, stack, scopes,
                         bindings, phaseVars, finished>>
       \/ Exhaustible /\ ~inCdata /\ Fail("LimitExceeded", <<text>>)

TerminatorInText ==
  /\ Scanning /\ ~inCdata /\ Rest # << >>
  /\ RunLength < Len(Rest) /\ Rest[RunLength + 1].kind = "cdataEnd"
  /\ \/ Content /\ Fail("InvalidToken", << >>)
     \/ /\ ~Content /\ Head(Rest).kind # "space"
        /\ Fail(IF closedRoot \/ RunLength = 0 THEN Misplaced ELSE "InvalidToken", << >>)

\* White space between the parts of a document is skipped; other characters
\* there are an error.  A name is looked at once it is known where it ends.
OuterText ==
  /\ AtCharacter /\ ~Content
  /\ \/ /\ Head(Rest).kind = "space" /\ Consume(1)
        /\ UNCHANGED <<inputVars, part, decoderVars, active, stack, scopes,
                       bindings, phaseVars, pending, error, finished, calling,
                       historyVars>>
     \/ /\ Head(Rest).kind = "char"
        /\ ~(RunLength < Len(Rest) /\ Rest[RunLength + 1].kind = "cdataEnd")
        /\ LET name == \A i \in 1..RunLength : Rest[i].kind = "char"
               last == RunLength = Len(Rest) /\ ~(part = "fed" /\ decoded = received)
               after == IF RunLength < Len(Rest) THEN Rest[RunLength + 1].kind
                        ELSE IF last THEN "" ELSE doc[received + 1].kind
           IN
           IF closedRoot \/ ~name THEN Fail(Misplaced, << >>)
           ELSE IF ~last
                THEN Fail(IF after \in {"ref", "cdataEnd"} THEN "Syntax" ELSE "InvalidToken", << >>)
                ELSE IF ~IsFinal THEN Wait
                ELSE Fail(IF decodingError # "none" THEN decodingError ELSE "Syntax", << >>)

\* A comment or a processing instruction.
ReadMisc ==
  /\ Next("misc")
  /\ Consume(1) /\ Emit(<<Event("Misc", "", NoUri)>>)
  /\ UNCHANGED <<inputVars, part, decoderVars, active, stack, scopes, bindings,
                 phaseVars, finished>>

ReadBad == Next("bad") /\ Fail("InvalidToken", << >>)

OpenCdata ==
  /\ Next("cdata")
  /\ \/ ~Content /\ Fail(Misplaced, << >>)
     \/ /\ Content
        /\ Consume(1) /\ inCdata' = TRUE /\ Emit(<<Event("StartCdata", "", NoUri)>>)
        /\ UNCHANGED <<inputVars, part, decoderVars, active, stack, scopes,
                       bindings, seenRoot, closedRoot, finished>>

CloseCdata ==
  /\ Next("cdataEnd") /\ inCdata
  /\ Consume(1) /\ inCdata' = FALSE /\ Emit(<<Event("EndCdata", "", NoUri)>>)
  /\ UNCHANGED <<inputVars, part, decoderVars, active, stack, scopes, bindings,
                 seenRoot, closedRoot, finished>>

-----------------------------------------------------------------------------
(***************************************************************************)
(* parse_reference                                                         *)
(***************************************************************************)

\* The entity is being expanded, by this parser or by a parent.
Open(name) == active[name] > 0 \/ name \in InheritedNames

\* Why a reference is an error, in the order of the checks.
ReferenceError(name) ==
  CASE ~Content -> "InvalidToken"
    [] Content /\ name \notin EntityNames -> IF Lenient THEN "none" ELSE "UndefinedEntity"
    [] Content /\ name \in EntityNames ->
         IF name \in FromParameter /\ ~Lenient THEN "EntityDeclaredInParameterEntity"
         ELSE IF EntityKind[name] = "unparsed" THEN "BinaryEntityReference"
         ELSE IF Open(name) THEN "RecursiveEntityReference"
         ELSE IF Len(sources) + ExternalDepth > MaxEntityDepth THEN "LimitExceeded"
         ELSE "none"

\* push_entity_source
Entered(name) == [active EXCEPT ![name] = @ + 1]

ReadReference ==
  /\ Next("ref")
  /\ LET name == Head(Rest).name
         internal == name \in EntityNames /\ EntityKind[name] = "internal"
     IN
     \/ ReferenceError(name) # "none" /\ Fail(ReferenceError(name), << >>)
     \/ /\ ReferenceError(name) = "none" /\ ~(internal /\ ExpandInternal)
        /\ Consume(1)
        /\ Emit(<<Event(IF name \notin EntityNames \/ internal THEN "Skipped" ELSE "External",
                        name, NoUri)>>)
        /\ UNCHANGED <<inputVars, part, decoderVars, active, stack, scopes,
                       bindings, phaseVars, finished>>
     \/ /\ ReferenceError(name) = "none" /\ internal /\ ExpandInternal
        /\ sources' = Append([sources EXCEPT ![Len(sources)].rest = Tail(@)],
                             [name |-> name, rest |-> EntityValue[name], depth |-> Len(stack)])
        /\ active' = Entered(name)
        /\ UNCHANGED <<inputVars, part, decoderVars, stack, scopes, bindings,
                       phaseVars, pending, error, finished, calling, historyVars>>

-----------------------------------------------------------------------------
(***************************************************************************)
(* parse_start, parse_end                                                  *)
(***************************************************************************)

\* A declaration that is not allowed: a prefix cannot be undeclared.
Forbidden(decl) == decl.prefix # DefaultPrefix /\ decl.uri = NoUri

\* `before`, changed by the declarations of a tag or by its undo records.
Bound(before, decls) ==
  [p \in Prefixes |->
     IF \E i \in 1..Len(decls) : decls[i].prefix = p
     THEN decls[CHOOSE i \in 1..Len(decls) : decls[i].prefix = p].uri
     ELSE before[p]]

\* Variant: every record of the block holds the new binding.
UndoToNew(decls) == [i \in 1..Len(decls) |-> decls[i]]

\* The undo records of a tag.
Undo(decls) ==
  [i \in 1..Len(decls) |-> [prefix |-> decls[i].prefix, uri |-> bindings[decls[i].prefix]]]

Openings(decls, n) == [i \in 1..n |-> Opening(decls[i].prefix, decls[i].uri)]
Closings(decls) ==
  LET n == Len(decls) IN [i \in 1..n |-> Closing(decls[n + 1 - i].prefix)]

\* The error of a start tag, and how many declarations come before it.
StartError(token) ==
  LET decls == token.decls
      forbidden == {i \in 1..Len(decls) : Forbidden(decls[i])}
      prefix == PrefixOf[token.name]
  IN
  IF closedRoot THEN [kind |-> "JunkAfterDocumentElement", after |-> 0]
  ELSE IF Len(stack) >= MaxDepth THEN [kind |-> "LimitExceeded", after |-> 0]
  ELSE IF forbidden # {}
       THEN [kind |-> "UndeclaringPrefix",
             after |-> (CHOOSE i \in forbidden : \A j \in forbidden : i <= j) - 1]
  ELSE IF prefix # DefaultPrefix /\ Bound(bindings, decls)[prefix] = NoUri
       THEN [kind |-> "UndefinedPrefix", after |-> Len(decls)]
  ELSE [kind |-> "none", after |-> 0]

\* The root element is closed.  A fragment has no root.
Closes(remaining) == closedRoot \/ (remaining = 0 /\ ~Fragment)

ReadStart ==
  /\ Next("start") \/ Next("empty")
  /\ LET token == Head(Rest)
         decls == token.decls
         after == Bound(bindings, decls)
         uri == after[PrefixOf[token.name]]
         failure == StartError(token)
         opening == Append(Openings(decls, Len(decls)), Event("StartElement", token.name, uri))
         closing == <<Event("EndElement", token.name, uri)>> \o Closings(decls)
     IN
     \/ /\ failure.kind # "none"
        /\ Fail(failure.kind, Openings(decls, failure.after))
     \/ /\ failure.kind = "none" /\ Exhaustible
        /\ \E n \in 0..Len(decls) : Fail("LimitExceeded", Openings(decls, n))
     \/ /\ failure.kind = "none"
        /\ Consume(1) /\ seenRoot' = TRUE
        /\ \/ /\ token.kind = "start"
              /\ Emit(opening)
              /\ scopes' = IF decls = << >> THEN scopes ELSE Append(scopes, Undo(decls))
              /\ stack' = Append(stack, [name |-> token.name, uri |-> uri,
                                         scope |-> IF decls = << >> THEN 0 ELSE Len(scopes) + 1])
              /\ bindings' = after
              /\ UNCHANGED closedRoot
           \/ /\ token.kind = "empty"
              /\ Emit(opening \o closing)
              /\ bindings' = Bound(after, Undo(decls))
              /\ closedRoot' = Closes(Len(stack))
              /\ UNCHANGED <<stack, scopes>>
        /\ UNCHANGED <<inputVars, part, decoderVars, active, inCdata, finished>>

\* The error of an end tag.
EndError(token) ==
  IF stack = << >> /\ ~Fragment THEN "InvalidToken"
  ELSE IF ~AtRoot /\ Len(stack) <= Top.depth THEN "AsynchronousEntity"
  ELSE IF stack = << >> \/ stack[Len(stack)].name # token.name THEN "TagMismatch"
  ELSE "none"

\* take_namespace_scope
TakeScope(element) ==
  IF element.scope = 0 THEN scopes ELSE SubSeq(scopes, 1, Len(scopes) - 1)

\* end_element: the undo block of the element is applied, last record first.
ReadEnd ==
  /\ Next("end")
  /\ LET token == Head(Rest) IN
     \/ EndError(token) # "none" /\ Fail(EndError(token), << >>)
     \/ /\ EndError(token) = "none"
        /\ LET element == stack[Len(stack)]
               undo == IF element.scope = 0 THEN << >> ELSE scopes[Len(scopes)]
           IN
           /\ Emit(<<Event("EndElement", element.name, element.uri)>> \o Closings(undo))
           /\ bindings' = Bound(bindings, undo)
           /\ scopes' = TakeScope(element)
        /\ stack' = SubSeq(stack, 1, Len(stack) - 1)
        /\ closedRoot' = Closes(Len(stack) - 1)
        /\ Consume(1)
        /\ UNCHANGED <<inputVars, part, decoderVars, active, inCdata, seenRoot,
                       finished>>

-----------------------------------------------------------------------------
\* Memory, or a byte budget, runs out before anything is consumed.
OutOfResources ==
  /\ Exhaustible /\ Scanning /\ Rest # << >>
  /\ \E kind \in {"NoMemory", "LimitExceeded"} : Fail(kind, << >>)

Scan == PopSource \/ EndOfInput \/ PartialToken \/ ReadText \/ TerminatorInText
        \/ OuterText \/ ReadMisc \/ ReadBad \/ OpenCdata \/ CloseCdata
        \/ ReadReference \/ ReadStart \/ ReadEnd \/ OutOfResources

\* The application: it calls next_event, and between calls it feeds input
\* and supplies encodings.
Application ==
  /\ ~calling
  /\ \/ Call \/ FeedFails \/ ResolveEncoding \/ ResolveConversion
     \/ \E count \in 0..Len(doc), beginning, final \in BOOLEAN : Feed(count, beginning, final)

Step == Application \/ Answer \/ Scan

Spec == Init /\ [][Step]_vars

\* A call of next_event runs on; the application owes nothing.
FairSpec == Spec /\ WF_vars(Answer \/ Scan)

-----------------------------------------------------------------------------
(***************************************************************************)
(* Properties                                                              *)
(***************************************************************************)

EventKinds == {"StartNamespace", "EndNamespace", "StartElement", "EndElement",
               "Text", "StartCdata", "EndCdata", "Misc", "Skipped", "External"}

TypeOK ==
  /\ input \in Inputs /\ received \in Nat /\ decoded \in Nat
  /\ {finalInput, converting, inCdata, seenRoot, closedRoot, finished, calling}
       \subseteq BOOLEAN
  /\ \A i \in 1..Len(sources) :
       sources[i].depth \in Nat /\ sources[i].name \in EntityNames \cup {""}
  /\ active \in [EntityNames -> Nat]
  /\ \A i \in 1..Len(stack) : stack[i].name \in DOMAIN PrefixOf /\ stack[i].scope \in Nat
  /\ part \in {"none", "fed", "read"} /\ DOMAIN bindings = Prefixes
  /\ \A i \in 1..Len(pending) : pending[i].kind \in EventKinds
  /\ \A i \in 1..Len(log) : log[i].kind \in EventKinds
  /\ outcome \in {"none", "event", "more", "error", "finished"}
  /\ received <= Len(doc) /\ decoded <= received

\* The entities being expanded are different, nest in the elements that were
\* open when they were referenced, stay within the limit, and are exactly the
\* names in the index, which is what ends every recursion.
EntitiesNested ==
  /\ sources # << >> /\ sources[1].depth = 0
  /\ \A i, j \in 2..Len(sources) : i < j =>
       sources[i].name # sources[j].name /\ sources[i].depth <= sources[j].depth
  /\ error = "none" => \A i \in 1..Len(sources) : sources[i].depth <= Len(stack)
  /\ Len(sources) > 1 => Len(sources) - 1 + ExternalDepth <= MaxEntityDepth
  /\ error = "none" =>
       \A n \in EntityNames :
         active[n] = Cardinality({i \in 2..Len(sources) : sources[i].name = n})

\* The undo blocks belong to the open elements that declared something, each
\* to one, innermost last.
ScopesOwned ==
  LET declaring == {i \in 1..Len(stack) : stack[i].scope # 0}
  IN /\ \A i, j \in declaring : i < j => stack[i].scope < stack[j].scope
     /\ {stack[i].scope : i \in declaring} = 1..Len(scopes)

\* Events of a kind, for one name.
Count(events, kind, name) ==
  Cardinality({i \in 1..Len(events) : events[i].kind = kind /\ events[i].name = name})

\* The undo records for a prefix, by block and place.
Records(prefix) ==
  UNION {{<<s, i>> : i \in {k \in 1..Len(scopes[s]) : scopes[s][k].prefix = prefix}} :
           s \in 1..Len(scopes)}

\* What `events` announce and do not close is what is on the stacks.
Announced(events) ==
  /\ \A p \in Prefixes :
       Count(events, "StartNamespace", p) = Count(events, "EndNamespace", p) + Cardinality(Records(p))
  /\ \A n \in DOMAIN PrefixOf :
       Count(events, "StartElement", n) = Count(events, "EndElement", n)
                                          + Cardinality({i \in 1..Len(stack) : stack[i].name = n})

\* Between calls that return no event, what was announced and not closed is
\* what is on the stack: a tag that fails leaves no namespace and no element
\* open, whichever limit it ran into.
AnnouncedClosed ==
  outcome \in {"more", "error", "finished"} /\ ~calling /\ error # "NoMemory" => Announced(log)

\* The parser's stacks agree with each other and with what the application was
\* told: entities, elements, bindings and announcements nest.
NestingKept == TypeOK /\ EntitiesNested /\ ScopesOwned /\ AnnouncedClosed

\* An error is final, but for an encoding the application then supplies: it is
\* never replaced, no input is read after it, and only events that were queued
\* before it are still delivered.
FinalStep ==
  error \notin {"none", "UnknownEncoding"} /\ decodingError # "UnknownEncoding" =>
    /\ error' = error /\ UNCHANGED <<sources, stack, bindings>>
    /\ log' \in {log} \cup (IF pending = << >> THEN {} ELSE {Append(log, Head(pending))})
    /\ outcome' = "finished" => outcome = "finished"

ErrorFinal == [][FinalStep]_vars

\* Every call returns, whatever the entities refer to.
CallReturns == calling ~> ~calling

\* docs/library.md says "Parse errors are terminal except for an unresolved
\* custom encoding": no other error is ever taken back.
ParseErrorsTerminal ==
  [][error \notin {"none", "UnknownEncoding"} => error' = error]_vars

=============================================================================
