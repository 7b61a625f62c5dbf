-------------------------- MODULE ContentReference --------------------------
(***************************************************************************)
(* What a document means, read all at once and by the grammar: the events  *)
(* of its tokens and the error it ends with.  Elements and entities nest   *)
(* by recursion, and a namespace binding holds for the element it is       *)
(* written in; there are no stacks, queues or undo records.  ContentParser *)
(* is compared with it for every way a document can be fed.                *)
(***************************************************************************)
EXTENDS ContentParser

SX == INSTANCE SequencesExt

\* The result of reading: events, the tokens left over, an error.
Read(events, rest, failure) == [events |-> events, rest |-> rest, error |-> failure]
Stop(failure) == Read(<< >>, << >>, failure)
Then(events, result) == [result EXCEPT !.events = events \o @]

\* The next input, or its end.
KindAt(ts, i) == IF i <= Len(ts) THEN ts[i].kind ELSE "eof"

\* Input that breaks off: what failed to decode after it says why.
BreaksOff(ts, failure) ==
  Stop(IF KindAt(ts, 1) = "garbled" THEN ts[1].name ELSE failure)

\* The number of leading tokens of the given kinds.
Leading(ts, kinds) ==
  CHOOSE n \in 0..Len(ts) : /\ \A i \in 1..n : ts[i].kind \in kinds
                            /\ KindAt(ts, n + 1) \notin kinds

Letters == Character \cup {"convert"}

\* Where an element, entity or fragment stands: bindings, open entities,
\* enclosing elements and sources.
Place(env, names, elements, depth) ==
  [env |-> env, names |-> names, elements |-> elements, depth |-> depth]

Unclosed(place) == IF Fragment \/ place.depth > 1 THEN "AsynchronousEntity" ELSE "NoElements"

RECURSIVE Items(_, _), Element(_, _), Section(_, _)

\* A CDATA section from behind its opening on.
Section(ts, place) ==
  LET n == Leading(ts, Letters)
      text == [i \in 1..n |-> Text(<<ts[i].name>>)]
      rest == SubSeq(ts, n + 1, Len(ts))
  IN
  CASE KindAt(rest, 1) = "cdataEnd" ->
         Then(Append(text, Event("EndCdata", "", NoUri)), Items(Tail(rest), place))
    [] KindAt(rest, 1) = "partial" ->
         Then(Append(text, Text(<<"]">>)), Stop("UnclosedCdataSection"))
    [] KindAt(rest, 1) = "garbled" ->
         Then(text, Stop(IF rest[1].name = "UnclosedToken" THEN "UnclosedCdataSection"
                                                           ELSE rest[1].name))
    [] OTHER -> Then(text, Stop(IF place.depth > 1 THEN "AsynchronousEntity"
                                                   ELSE "UnclosedCdataSection"))

\* The element at the head of `ts`: its events, and what follows it.
Element(ts, place) ==
  LET token == ts[1]
      decls == token.decls
      wrong == {i \in 1..Len(decls) : decls[i].prefix # DefaultPrefix /\ decls[i].uri = NoUri}
      declared == IF wrong = {} THEN Len(decls)
                  ELSE (CHOOSE i \in wrong : \A j \in wrong : i <= j) - 1
      opened == [i \in 1..declared |-> Opening(decls[i].prefix, decls[i].uri)]
      closed == [i \in 1..declared |-> Closing(decls[declared + 1 - i].prefix)]
      env == [p \in Prefixes |->
                IF \E i \in 1..Len(decls) : decls[i].prefix = p
                THEN LET i == CHOOSE i \in 1..Len(decls) : decls[i].prefix = p IN decls[i].uri
                ELSE place.env[p]]
      uri == env[PrefixOf[token.name]]
      before == Append(opened, Event("StartElement", token.name, uri))
      after == <<Event("EndElement", token.name, uri)>> \o closed
      inner == Items(Tail(ts), Place(env, place.names, place.elements + 1, place.depth))
  IN
  IF place.elements >= MaxDepth THEN Stop("LimitExceeded")
  ELSE IF wrong # {} THEN Then(opened \o closed, Stop("UndeclaringPrefix"))
  ELSE IF uri = NoUri /\ PrefixOf[token.name] # DefaultPrefix
       THEN Then(opened \o closed, Stop("UndefinedPrefix"))
  ELSE IF token.kind = "empty" THEN Read(before \o after, Tail(ts), "none")
  ELSE IF inner.error # "none" THEN Then(before, inner)
  ELSE IF inner.rest = << >> THEN Then(before \o inner.events, Stop(Unclosed(place)))
  ELSE IF inner.rest[1].name # token.name
       THEN Then(before \o inner.events, Stop("TagMismatch"))
  ELSE Read(before \o inner.events \o after, Tail(inner.rest), "none")

\* Content up to an end tag, or to the end.
Items(ts, place) ==
  LET more == Items(Tail(ts), place)
      name == ts[1].name
      value == Items(EntityValue[name],
                     Place(place.env, place.names \cup {name}, place.elements, place.depth + 1))
      element == Element(ts, place)
      markupEnd == KindAt(ts, 2) = "garbled"
  IN
  CASE KindAt(ts, 1) \in {"eof", "end"} -> Read(<< >>, ts, "none")
    [] KindAt(ts, 1) \in Letters -> Then(<<Text(<<name>>)>>, more)
    [] KindAt(ts, 1) = "unknown" -> more
    [] KindAt(ts, 1) = "misc" -> Then(<<Event("Misc", "", NoUri)>>, more)
    [] KindAt(ts, 1) \in {"bad", "cdataEnd"} -> Stop("InvalidToken")
    [] KindAt(ts, 1) = "garbled" -> Stop(name)
    [] KindAt(ts, 1) = "open" -> BreaksOff(Tail(ts), "UnclosedToken")
    [] KindAt(ts, 1) = "partial" ->
         IF name = "cdataEnd" THEN Then(<<Text(<<"]">>)>>, more) ELSE Stop("UnclosedToken")
    [] KindAt(ts, 1) = "cdata" ->
         Then(<<Event("StartCdata", "", NoUri)>>, Section(Tail(ts), place))
    [] KindAt(ts, 1) = "ref" ->
         IF name \notin EntityNames
         THEN IF Lenient THEN Then(<<Event("Skipped", name, NoUri)>>, more)
                         ELSE Stop("UndefinedEntity")
         ELSE IF name \in FromParameter /\ ~Lenient
              THEN Stop("EntityDeclaredInParameterEntity")
         ELSE IF EntityKind[name] = "unparsed" THEN Stop("BinaryEntityReference")
         ELSE IF name \in place.names THEN Stop("RecursiveEntityReference")
         ELSE IF place.depth + ExternalDepth > MaxEntityDepth THEN Stop("LimitExceeded")
         ELSE IF EntityKind[name] = "external"
              THEN Then(<<Event("External", name, NoUri)>>, more)
         ELSE IF ~ExpandInternal THEN Then(<<Event("Skipped", name, NoUri)>>, more)
         ELSE IF value.error # "none" THEN value
         ELSE IF value.rest # << >> THEN Then(value.events, Stop("AsynchronousEntity"))
         ELSE Then(value.events, more)
    [] KindAt(ts, 1) \in {"start", "empty"} ->
         IF element.error # "none" THEN element
         ELSE Then(element.events, Items(element.rest, place))

RECURSIVE Outside(_, _)

\* What stands before and after the document element.
Outside(ts, closed) ==
  LET name == ts[1].name
      n == Leading(ts, Character)
      letters == Leading(ts, {"char"})
      next == KindAt(ts, n + 1)
      element == Element(ts, Place(InitialBindings, InheritedNames, 0, 1))
      junk == IF closed THEN "JunkAfterDocumentElement" ELSE "Syntax"
  IN
  CASE KindAt(ts, 1) = "eof" -> Stop(IF closed THEN "none" ELSE "NoElements")
    [] KindAt(ts, 1) \in {"space", "unknown"} -> Outside(Tail(ts), closed)
    [] KindAt(ts, 1) \in {"char", "convert"} ->
         Stop(IF closed THEN junk
              ELSE IF next = "cdataEnd" THEN "InvalidToken"
              ELSE IF letters # n THEN junk
              ELSE IF next \in {"eof", "ref"} THEN junk
              ELSE IF next = "garbled" THEN ts[n + 1].name
              ELSE IF next = "partial" /\ ts[n + 1].name \in {"ref", "cdataEnd"} THEN junk
              ELSE "InvalidToken")
    [] KindAt(ts, 1) = "misc" ->
         Then(<<Event("Misc", "", NoUri)>>, Outside(Tail(ts), closed))
    [] KindAt(ts, 1) \in {"bad", "end", "ref"} -> Stop("InvalidToken")
    [] KindAt(ts, 1) \in {"cdata", "cdataEnd"} -> Stop(junk)
    [] KindAt(ts, 1) = "garbled" -> Stop(name)
    [] KindAt(ts, 1) = "open" -> BreaksOff(Tail(ts), "UnclosedToken")
    [] KindAt(ts, 1) = "partial" ->
         Stop(CASE name = "ref" -> "InvalidToken"
                [] name \in {"cdata", "cdataEnd"} -> junk
                [] OTHER -> "UnclosedToken")
    [] KindAt(ts, 1) \in {"start", "empty"} ->
         IF closed THEN Stop(junk)
         ELSE IF element.error # "none" THEN element
         ELSE Then(element.events, Outside(element.rest, TRUE))

\* A document, or the replacement of an external entity.
Reference(ts) ==
  IF ~Fragment THEN Outside(ts, FALSE)
  ELSE LET read == Items(ts, Place(InitialBindings, InheritedNames, 0, 1)) IN
       IF read.error = "none" /\ read.rest # << >>
       THEN Then(read.events, Stop("TagMismatch")) ELSE read

-----------------------------------------------------------------------------
(***************************************************************************)
(* Properties                                                              *)
(***************************************************************************)

\* The input: all of it, or what was fed before the final piece.
Input ==
  IF ~finalInput THEN doc
  ELSE SubSeq(doc, 1, received)
       \o (IF part # "none" THEN <<[kind |-> "partial", name |-> doc[received + 1].kind, decls |-> << >>]>>
           ELSE << >>)

\* Character data is one character after another, however it was delivered.
Flat(events) ==
  SX!FlattenSeq([i \in 1..Len(events) |->
    IF events[i].kind = "Text"
    THEN [j \in 1..Len(events[i].text) |-> Text(<<events[i].text[j]>>)]
    ELSE <<events[i]>>])

\* However the document is cut into pieces, wherever its entities nest, and
\* whatever error it runs into: what is delivered is what the document means,
\* in order, nothing twice and nothing left out.
EventsExpected ==
  ~Exhaustible /\ outcome \in {"event", "more", "error", "finished"} =>
    SX!IsPrefix(Flat(log), Flat(Reference(Input).events))

\* A call reports the end only of a correct document whose events were all
\* delivered, and reports an error only when the document has that error and
\* the events before it were delivered; but the text right before a misplaced
\* terminator may be withheld.  Two errors depend on how the document is fed:
\* an entity that breaks off is reported as what failed to decode in the
\* document, when that was fed already; and a terminator after a name in the
\* prolog is another error when only its beginning was fed.
OutcomeExpected ==
  LET expected == Reference(Input)
      delivered == Flat(log)
      all == Flat(expected.events)
  IN
  ~Exhaustible =>
  /\ outcome = "finished" =>
       expected.error = "none" /\ delivered = all
  /\ outcome = "error" /\ error \notin {"none", "UnknownEncoding", "Finished"} /\ ~converting =>
       /\ \/ error = expected.error
          \/ expected.error = "UnclosedToken" /\ error = decodingError /\ ~AtRoot
          \/ expected.error = "InvalidToken" /\ error = "Syntax" /\ ~seenRoot
       /\ \/ delivered = all
          \/ /\ error = "InvalidToken"
             /\ \A i \in (Len(delivered) + 1)..Len(all) : all[i].kind = "Text"
=============================================================================
