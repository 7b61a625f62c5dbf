------------------------- MODULE ExpatDeliveryProofs -------------------------
(***************************************************************************)
(* Proofs about what one parser handle delivers (module ExpatParser), for  *)
(* every set of inputs and handlers and every value of the bounds: that a  *)
(* call returns only between tags, that a document is finished only when   *)
(* all of it was delivered, that a stop is honoured at once, that events   *)
(* and fragments come in the order of the input, each once, and that the   *)
(* converter of an encoding instance is called only while it is owned.     *)
(***************************************************************************)
EXTENDS ExpatParserProofs

-----------------------------------------------------------------------------
(***************************************************************************)
(* The queue of the core                                                   *)
(***************************************************************************)

\* What may be left of the events of one token: the rest of a tag.
Suffixes == {<< >>, <<"EndNamespace">>, <<"EndElement", "EndNamespace">>,
             <<"StartElement", "EndElement", "EndNamespace">>}

\* The events of a token, when there are any.
Bursts == {<<"StartNamespace", "StartElement", "EndElement", "EndNamespace">>,
           <<"StartNamespace", "EndNamespace">>,
           <<"Text">>, <<"Declaration">>, <<"External">>}

LEMMA HeadTailOf ==
  /\ \A a, b, c, d : Head(<<a, b, c, d>>) = a /\ Tail(<<a, b, c, d>>) = <<b, c, d>>
  /\ \A a, b, c : Head(<<a, b, c>>) = a /\ Tail(<<a, b, c>>) = <<b, c>>
  /\ \A a, b : Head(<<a, b>>) = a /\ Tail(<<a, b>>) = <<b>>
  /\ \A a : Head(<<a>>) = a /\ Tail(<<a>>) = << >>
OBVIOUS

\* Taking the first event leaves the rest of a tag, and begins one only at its
\* namespace.
LEMMA Taken ==
  ASSUME NEW queue \in Suffixes \cup Bursts, queue # << >>
  PROVE  /\ Tail(queue) \in Suffixes
         /\ Head(queue) \in Events
         /\ Head(queue) \notin TagEvents => Tail(queue) = << >>
         /\ Head(queue) = "StartElement" => queue \in Suffixes
         /\ Tail(queue) = << >> \/ Head(Tail(queue)) # "StartElement" \/ Head(queue) = "StartNamespace"
<1>1. CASE queue = <<"StartNamespace", "StartElement", "EndElement", "EndNamespace">>
  <2>1. Head(queue) = "StartNamespace" /\ Tail(queue) = <<"StartElement", "EndElement", "EndNamespace">>
    BY <1>1, HeadTailOf
  <2>. QED  BY <2>1 DEF Suffixes, Events, TagEvents
<1>2. CASE queue = <<"StartNamespace", "EndNamespace">>
  <2>1. Head(queue) = "StartNamespace" /\ Tail(queue) = <<"EndNamespace">>
    BY <1>2, HeadTailOf
  <2>. QED  BY <2>1 DEF Suffixes, Events, TagEvents
<1>3. CASE queue \in {<<"Text">>, <<"Declaration">>, <<"External">>, <<"EndNamespace">>}
  <2>1. /\ Head(queue) \in {"Text", "Declaration", "External", "EndNamespace"}
        /\ Tail(queue) = << >>
    BY <1>3, HeadTailOf
  <2>. QED  BY <2>1 DEF Suffixes, Events, TagEvents
<1>4. CASE queue = <<"EndElement", "EndNamespace">>
  <2>1. /\ Head(queue) = "EndElement" /\ Tail(queue) = <<"EndNamespace">>
        /\ Head(Tail(queue)) = "EndNamespace"
    BY <1>4, HeadTailOf
  <2>. QED  BY <2>1 DEF Suffixes, Events, TagEvents
<1>5. CASE queue = <<"StartElement", "EndElement", "EndNamespace">>
  <2>1. /\ Head(queue) = "StartElement" /\ Tail(queue) = <<"EndElement", "EndNamespace">>
        /\ Head(Tail(queue)) = "EndElement"
    BY <1>5, HeadTailOf
  <2>. QED  BY <1>5, <2>1 DEF Suffixes, Events, TagEvents
<1>. QED  BY <1>1, <1>2, <1>3, <1>4, <1>5 DEF Suffixes, Bursts

LEMMA SuffixTags ==
  ASSUME NEW queue \in Suffixes, queue # << >>
  PROVE  Head(queue) \in TagEvents
BY HeadTailOf DEF Suffixes, TagEvents

LEMMA BurstOf ==
  ASSUME NEW token \in Tokens, EventsOf(token) # << >>
  PROVE  EventsOf(token) \in Bursts
BY DEF Tokens, EventsOf, Bursts

\* A callback the loop waits for is about the next token, with no event queued.
Waiting ==
  /\ ctl = "freed" => frames = << >>
  /\ frames # << >> /\ frames[1] = "unknown" =>
       tokens # << >> /\ Head(tokens) = "unknown" /\ pending = << >> /\ encoding = 0
  /\ frames # << >> /\ frames[1] = "convert" =>
       tokens # << >> /\ Head(tokens) = "convert" /\ pending = << >> /\ multibyte

\* Only a tag leaves events queued, and fragments wait only between tokens.
Queued ==
  /\ pending \in Suffixes
  /\ defaultPending # << >> => pending = << >>

\* The next event of the core, in the terms of the queue it is taken from.
LEMMA NextOf ==
  ASSUME TypeOK, Queued, NextEvent
  PROVE  \E queue \in Suffixes \cup Bursts :
           /\ queue # << >> /\ pending' = Tail(queue)
           /\ \/ /\ queue = pending /\ UNCHANGED <<tokens, consumed, coreError>>
              \/ /\ pending = << >> /\ tokens # << >> /\ queue = EventsOf(Head(tokens))
                 /\ queue \in Bursts
                 /\ tokens' = Tail(tokens) /\ consumed' = consumed + 1
           /\ defaultPending = << >>
           /\ state = "suspended" \/ parseError = "aborted" => queue = pending
           /\ \/ Dispatch(Head(queue), consumed') /\ UNCHANGED <<error, failVars>>
              \/ DropEvent
<1>. DEFINE queue == IF QueueFirst THEN pending ELSE EventsOf(Head(tokens))
<1>1. defaultPending = << >>
  <2>1. CASE FinishingTag
    BY <2>1 DEF Queued, FinishingTag
  <2>2. CASE ~FinishingTag
    BY <2>2 DEF NextEvent, Continuing, Draining, Failing, Pausing
  <2>. QED  BY <2>1, <2>2
<1>2. state = "suspended" \/ parseError = "aborted" => QueueFirst
  BY DEF NextEvent, Continuing, Failing, Pausing, FinishingTag, QueueFirst
<1>3. CASE QueueFirst
  <2>1. queue = pending /\ queue \in Suffixes /\ queue # << >>
    BY <1>3 DEF Queued, QueueFirst
  <2>. QED  BY <1>1, <1>3, <2>1 DEF NextEvent
<1>4. CASE ~QueueFirst
  <2>1. Head(tokens) \in Tokens
    BY <1>4, HeadTailProperties DEF NextEvent, TypeOK
  <2>2. queue = EventsOf(Head(tokens)) /\ queue \in Bursts /\ queue # << >> /\ pending = << >>
    BY <1>4, <2>1, BurstOf DEF NextEvent, QueueFirst
  <2>. QED  BY <1>1, <1>2, <1>4, <2>2 DEF NextEvent
<1>. QED  BY <1>3, <1>4

LEMMA WaitingStep == GuardInv /\ Waiting /\ [Next]_vars => Waiting'
<1>. SUFFICES ASSUME GuardInv, Waiting, [Next]_vars PROVE Waiting'
  OBVIOUS
<1>. USE DEF guardVars, documentVars, coreVars, queueVars, encodingVars
<1>a. ASSUME frames' = << >> PROVE Waiting'
  BY <1>a DEF Waiting
<1>b. ASSUME UNCHANGED <<ctl, frames, tokens, pending, encoding, multibyte>> PROVE Waiting'
  BY <1>b DEF Waiting
<1>c. ASSUME NEW f, frames = << >>, frames' = Append(frames, f),
             f \notin {"unknown", "convert"}, ctl' # "freed"
      PROVE  Waiting'
  BY <1>c DEF Waiting
<1>d. ~busy => frames = << >>
  BY DEF GuardInv, GuardDiscipline
<1>e. ASSUME NEW status, Finish(status) PROVE Waiting'
  BY <1>e, <1>a DEF Finish
<1>1. CASE UNCHANGED vars
  BY <1>1, <1>b DEF vars
<1>2. CASE Requests
  <2>1. CASE UNCHANGED frames
    BY <1>2, <1>a, <1>d, <2>1
    DEF Requests, Parse, GetBuffer, ParseBuffer, Resume, Reset, Free
  <2>2. CASE frames' = Append(frames, "release") /\ ctl' \in {"reset", "free"}
    BY <1>2, <1>c, <1>d, <2>2
    DEF Requests, Parse, GetBuffer, ParseBuffer, Resume, Reset, Free
  <2>3. UNCHANGED frames \/ (frames' = Append(frames, "release") /\ ctl' \in {"reset", "free"})
    BY <1>2 DEF Requests, Parse, GetBuffer, ParseBuffer, Resume, Reset, Free,
      Refuse, StaysFailed, FeedFails, Feed, Enter
  <2>. QED  BY <2>1, <2>2, <2>3
<1>3. CASE Calls
  <2>1. CASE UNCHANGED <<ctl, frames, tokens, pending, encoding, multibyte>>
    BY <1>b, <2>1
  <2>2. CASE /\ frames' = Append(frames, "current") /\ AppRuns /\ busy
             /\ UNCHANGED <<ctl, tokens, pending, encoding, multibyte>>
    <3>1. frames # << >>
      BY <2>2 DEF AppRuns, GuardInv, GuardDiscipline
    <3>2. frames'[1] = frames[1] /\ frames' # << >>
      BY <2>2, <3>1, PushFrame DEF GuardInv, FrameKinds
    <3>. QED  BY <2>2, <3>1, <3>2 DEF Waiting
  <2>3. ASSUME DefaultCurrent
        PROVE  \/ UNCHANGED <<ctl, frames, tokens, pending, encoding, multibyte>>
               \/ /\ frames' = Append(frames, "current") /\ AppRuns /\ busy
                  /\ UNCHANGED <<ctl, tokens, pending, encoding, multibyte>>
    BY <2>3 DEF DefaultCurrent, Call
  <2>. QED  BY <1>3, <2>1, <2>2, <2>3 DEF Calls, StopParser, SetHandler, Refuse
<1>4. CASE Loop
  <2>1. CASE DrainFragments
    BY <2>1, <1>b, <1>c DEF DrainFragments, InLoop, Call
  <2>2. CASE LoopFails \/ LoopPauses \/ CoreFails
    BY <2>2, <1>e DEF LoopFails, LoopPauses, CoreFails
  <2>3. CASE NextEvent
    <3>1. frames = << >> /\ ctl = "loop"
      BY <2>3 DEF NextEvent, Continuing, InLoop
    <3>2. \/ UNCHANGED frames
          \/ /\ \E f \in {"external", "event", "tagDefault"} : frames' = Append(frames, f)
             /\ UNCHANGED ctl
      BY <2>3 DEF NextEvent, Dispatch, DropEvent, Call
    <3>. QED  BY <3>1, <3>2, <1>a, <1>c
  <2>4. CASE LoopEnds
    BY <2>4, <1>e DEF LoopEnds, MergeFails
  <2>5. CASE AskEncoding
    <3>1. CASE Finish("ERROR")
      BY <3>1, <1>e
    <3>2. CASE Call("unknown")
      <4>1. frames = << >> /\ ctl = "loop"
        BY <2>5 DEF AskEncoding, Continuing, InLoop
      <4>2. frames' # << >> /\ frames'[1] = "unknown" /\ ctl' = "loop"
        BY <3>2, <4>1 DEF Call
      <4>. QED  BY <2>5, <4>2 DEF AskEncoding, Waiting
    <3>. QED  BY <2>5, <3>1, <3>2 DEF AskEncoding
  <2>6. CASE AskConversion
    <3>1. frames = << >> /\ ctl = "loop"
      BY <2>6 DEF AskConversion, Continuing, InLoop
    <3>2. frames' # << >> /\ frames'[1] = "convert" /\ ctl' = "loop"
      BY <2>6, <3>1 DEF AskConversion, Call
    <3>. QED  BY <2>6, <3>2 DEF AskConversion, Waiting
  <2>. QED  BY <1>4, <2>1, <2>2, <2>3, <2>4, <2>5, <2>6 DEF Loop
<1>5. CASE Return
  <2>1. CASE ReturnEvent \/ ReturnExternal \/ ReturnConversion \/ AcceptEncoding
    BY <2>1, <1>a, <1>e, OnlyFrame
    DEF ReturnEvent, ReturnExternal, ReturnConversion, AcceptEncoding, FrameKinds
  <2>2. CASE ReturnDefault
    <3>1. /\ frames # << >> /\ frames \in Seq(FrameKinds) /\ frames' = Pop(frames)
          /\ UNCHANGED <<ctl, tokens, pending, encoding, multibyte>>
      BY <2>2 DEF ReturnDefault, Returns, GuardInv
    <3>2. CASE Len(frames) = 1
      BY <3>1, <3>2, <1>a, PopFrame
    <3>3. CASE Len(frames) = 2
      <4>1. Final(Pop(frames)) = frames[1] /\ Len(Pop(frames)) = 1
        <5>1. /\ Len(Pop(frames)) = Len(frames) - 1
              /\ Len(frames) = 2 => Final(Pop(frames)) = frames[1]
          BY <3>1, PopFrame
        <5>2. 2 - 1 = 1
          OBVIOUS
        <5>. QED  BY <5>1, <5>2, <3>3
      <4>2. frames'[1] = frames[1]
        BY <3>1, <4>1 DEF Final
      <4>. QED  BY <3>1, <4>2 DEF Waiting
    <3>4. Len(frames) \in Nat \ {0} /\ Len(frames) <= 2
      BY <3>1, EmptySeq DEF GuardInv, GuardDiscipline
    <3>5. \A k \in Nat \ {0} : k <= 2 => k = 1 \/ k = 2
      OBVIOUS
    <3>. QED  BY <3>2, <3>3, <3>4, <3>5
  <2>3. CASE RefuseEncoding
    <3>1. Pop(frames) = << >>
      BY <2>3, OnlyFrame DEF RefuseEncoding, FrameKinds
    <3>2. frames' = Append(<< >>, "release") /\ ctl' = "refused"
      BY <2>3, <3>1 DEF RefuseEncoding
    <3>. QED  BY <3>2 DEF Waiting
  <2>4. CASE NoEncoding \/ ReturnRelease
    BY <2>4, <1>a, <1>e DEF NoEncoding, ReturnRelease, FailEncoding
  <2>. QED  BY <1>5, <2>1, <2>2, <2>3, <2>4 DEF Return
<1>. QED  BY <1>1, <1>2, <1>3, <1>4, <1>5 DEF Next

LEMMA QueuedStep == TypeOK /\ Queued /\ [Next]_vars => Queued'
<1>. SUFFICES ASSUME TypeOK, Queued, [Next]_vars PROVE Queued'
  OBVIOUS
<1>. USE DEF documentVars, coreVars, queueVars, defaultVars
<1>a. ASSUME UNCHANGED <<pending, defaultPending>> PROVE Queued'
  BY <1>a DEF Queued
<1>b. ASSUME ClearDocument PROVE Queued'
  BY <1>b DEF ClearDocument, Queued, Suffixes
<1>1. CASE UNCHANGED vars
  BY <1>1, <1>a DEF vars
<1>2. CASE Requests
  BY <1>2, <1>a, <1>b DEF Requests, Parse, GetBuffer, ParseBuffer, Resume, Reset, Free,
      Refuse, StaysFailed, FeedFails, Feed, Enter
<1>3. CASE Calls
  BY <1>3, <1>a DEF Calls, StopParser, SetHandler, DefaultCurrent, Refuse
<1>4. CASE DrainFragments
  BY <1>4 DEF DrainFragments, Draining, Queued
<1>5. CASE NextEvent
  <2>1. PICK queue \in Suffixes \cup Bursts :
          /\ queue # << >> /\ pending' = Tail(queue) /\ defaultPending = << >>
          /\ Dispatch(Head(queue), consumed') \/ DropEvent
    BY <1>5, NextOf
  <2>2. pending' \in Suffixes /\ (Head(queue) \notin TagEvents => pending' = << >>)
    BY <2>1, Taken
  <2>3. Head(queue) \in TagEvents => defaultPending' = << >>
    BY <2>1 DEF Dispatch, DropEvent, TagEvents
  <2>. QED  BY <2>2, <2>3 DEF Queued
<1>6. CASE LoopFails \/ LoopPauses \/ CoreFails \/ LoopEnds \/ AskEncoding \/ AskConversion
  BY <1>6, <1>a DEF LoopFails, LoopPauses, CoreFails, LoopEnds, AskEncoding, AskConversion
<1>7. CASE Return
  BY <1>7, <1>a, <1>b DEF Return, ReturnEvent, ReturnExternal, ReturnDefault,
    ReturnConversion, AcceptEncoding, RefuseEncoding, NoEncoding, ReturnRelease
<1>. QED  BY <1>1, <1>2, <1>3, <1>4, <1>5, <1>6, <1>7 DEF Next, Loop

-----------------------------------------------------------------------------
(***************************************************************************)
(* How a document ends                                                     *)
(***************************************************************************)

\* An error ends the document.
Failed == parseError # "none" => parseError \in failures

\* Outside the loop no tag is half delivered, unless an error dropped events.
Whole == ctl # "loop" /\ ~Dropped => pending = << >>

\* What is finished without an error is not parsed any more.
Ended == state = "finished" /\ failures = {} => ctl \notin {"loop", "refused"}

Ends == Failed /\ Whole /\ Ended /\ FinishedComplete

\* The errors of a document are forgotten with it.
LEMMA FailuresStep ==
  [Next]_vars => ClearDocument \/ (failures \subseteq failures' /\ (Failed => Failed'))
<1>. SUFFICES ASSUME [Next]_vars, ~ClearDocument
              PROVE  failures \subseteq failures' /\ (Failed => Failed')
  OBVIOUS
<1>. USE DEF failVars
<1>a. ASSUME UNCHANGED failVars PROVE failures \subseteq failures' /\ (Failed => Failed')
  BY <1>a DEF Failed
<1>b. ASSUME NEW code, Fail(code) PROVE failures \subseteq failures' /\ (Failed => Failed')
  BY <1>b DEF Fail, Failed
<1>1. CASE UNCHANGED vars
  BY <1>1, <1>a DEF vars
<1>2. CASE Requests
  BY <1>2, <1>a, <1>b DEF Requests, Parse, GetBuffer, ParseBuffer, Resume, Reset, Free,
      Refuse, StaysFailed, FeedFails, Feed, Enter
<1>3. CASE Calls
  BY <1>3, <1>a, <1>b DEF Calls, StopParser, SetHandler, DefaultCurrent, Refuse
<1>4. CASE Loop
  <2>1. CASE NextEvent
    BY <2>1, <1>a, <1>b DEF NextEvent, DropEvent
  <2>2. CASE CoreFails
    BY <2>2, <1>b DEF CoreFails
  <2>3. CASE LoopEnds
    BY <2>3, <1>a, <1>b DEF LoopEnds, MergeFails
  <2>4. CASE AskEncoding
    BY <2>4, <1>a, <1>b DEF AskEncoding
  <2>5. CASE DrainFragments \/ LoopFails \/ LoopPauses \/ AskConversion
    BY <2>5, <1>a DEF DrainFragments, LoopFails, LoopPauses, AskConversion
  <2>. QED  BY <1>4, <2>1, <2>2, <2>3, <2>4, <2>5 DEF Loop
<1>5. CASE Return
  BY <1>5, <1>a, <1>b DEF Return, ReturnEvent, ReturnExternal, ReturnDefault, ReturnConversion,
    AcceptEncoding, RefuseEncoding, NoEncoding, ReturnRelease, FailEncoding
<1>. QED  BY <1>1, <1>2, <1>3, <1>4, <1>5 DEF Next

\* The loop is left with an empty queue.
LEMMA LeavesWhole ==
  ASSUME GuardInv, Waiting, Queued, Failed, [Next]_vars, ctl = "loop", ctl' # "loop"
  PROVE  pending' = << >> \/ Dropped'
<1>. USE DEF documentVars, coreVars, queueVars, defaultVars, guardVars
<1>1. CASE LoopFails
  <2>1. CASE parseError = "aborted"
    <3>1. ~FinishingTag
      BY <1>1, <2>1 DEF LoopFails, Failing
    <3>2. pending = << >>
      BY <3>1, SuffixTags DEF Queued, FinishingTag
    <3>. QED  BY <1>1, <3>2 DEF LoopFails
  <2>2. CASE parseError # "aborted"
    <3>1. parseError \in failures
      BY <1>1 DEF LoopFails, Failing, Failed
    <3>. QED  BY <1>1, <2>2, <3>1 DEF LoopFails, Dropped, failVars
  <2>. QED  BY <2>1, <2>2
<1>2. CASE LoopPauses
  <2>1. pending = << >>
    BY <1>2, SuffixTags DEF LoopPauses, Pausing, FinishingTag, Queued
  <2>. QED  BY <1>2, <2>1 DEF LoopPauses
<1>3. CASE CoreFails \/ LoopEnds \/ AskEncoding
  BY <1>3 DEF CoreFails, LoopEnds, AskEncoding
<1>4. CASE DrainFragments \/ NextEvent \/ AskConversion
  BY <1>4 DEF DrainFragments, NextEvent, AskConversion, Call, Dispatch, DropEvent
<1>5. CASE Requests
  <2>1. ~busy
    BY <1>5 DEF Requests, Parse, GetBuffer, ParseBuffer, Resume, Reset, Free
  <2>. QED  BY <2>1 DEF GuardInv, GuardDiscipline
<1>6. CASE UNCHANGED vars \/ Calls
  BY <1>6 DEF vars, Calls, StopParser, SetHandler, DefaultCurrent, Refuse, Call
<1>7. CASE ReturnEvent \/ ReturnExternal \/ ReturnDefault \/ AcceptEncoding
  BY <1>7 DEF ReturnEvent, ReturnExternal, ReturnDefault, AcceptEncoding
<1>8. CASE ReturnConversion
  <2>1. pending = << >>
    BY <1>8, OnlyFrame DEF ReturnConversion, Waiting, FrameKinds
  <2>. QED  BY <1>8, <2>1 DEF ReturnConversion
<1>9. CASE RefuseEncoding \/ NoEncoding
  <2>1. pending = << >>
    BY <1>9, OnlyFrame DEF RefuseEncoding, NoEncoding, Waiting, FrameKinds
  <2>. QED  BY <1>9, <2>1 DEF RefuseEncoding, NoEncoding
<1>10. CASE ReturnRelease
  BY <1>10 DEF ReturnRelease, ClearDocument
<1>. QED  BY <1>1, <1>2, <1>3, <1>4, <1>5, <1>6, <1>7, <1>8, <1>9, <1>10 DEF Next, Loop, Return

\* Only the loop takes events from the queue.
LEMMA PendingStep ==
  [Next]_vars => ClearDocument \/ NextEvent \/ UNCHANGED pending
<1>. USE DEF documentVars, coreVars, queueVars
<1>1. UNCHANGED vars => UNCHANGED pending
  BY DEF vars
<1>2. Requests => ClearDocument \/ UNCHANGED pending
  BY DEF Requests, Parse, GetBuffer, ParseBuffer, Resume, Reset, Free,
      Refuse, StaysFailed, FeedFails, Feed, Enter
<1>3. Calls => UNCHANGED pending
  BY DEF Calls, StopParser, SetHandler, DefaultCurrent, Refuse
<1>4. Loop => NextEvent \/ UNCHANGED pending
  BY DEF Loop, DrainFragments, LoopFails, LoopPauses, CoreFails, LoopEnds, AskEncoding,
    AskConversion
<1>5. Return => ClearDocument \/ UNCHANGED pending
  BY DEF Return, ReturnEvent, ReturnExternal, ReturnDefault, ReturnConversion, AcceptEncoding,
    RefuseEncoding, NoEncoding, ReturnRelease
<1>. QED  BY <1>1, <1>2, <1>3, <1>4, <1>5 DEF Next

LEMMA WholeStep ==
  GuardInv /\ Waiting /\ Queued /\ Failed /\ Whole /\ [Next]_vars => Whole'
<1>. SUFFICES ASSUME GuardInv, Waiting, Queued, Failed, Whole, [Next]_vars, ctl' # "loop", ~Dropped'
              PROVE  pending' = << >>
  BY DEF Whole
<1>1. CASE ClearDocument
  BY <1>1 DEF ClearDocument
<1>2. CASE ctl = "loop"
  BY <1>2, LeavesWhole
<1>3. CASE ctl # "loop" /\ ~ClearDocument
  <2>1. ~Dropped
    BY <1>3, FailuresStep DEF Dropped
  <2>2. pending = << >>
    BY <1>3, <2>1 DEF Whole
  <2>3. ~NextEvent
    BY <1>3 DEF NextEvent, Continuing, InLoop
  <2>. QED  BY <1>3, <2>2, <2>3, PendingStep
<1>. QED  BY <1>1, <1>2, <1>3

\* The loop's question is asked in the loop.
LEMMA AskedInLoop ==
  ASSUME GuardInv, Waiting, NEW kind \in {"unknown", "convert"}, Returns(kind)
  PROVE  ctl = "loop"
<1>1. frames # << >> /\ frames[1] = kind
  BY OnlyFrame DEF FrameKinds
<1>. QED  BY <1>1 DEF GuardInv, GuardDiscipline, Controls, Waiting

\* What a document has to be when it is finished without an error.
Parsed == /\ coreFinal /\ tokens = << >> /\ pending = << >>
          /\ defaultPending = << >> /\ subset # "unmerged"

\* A parser finishes at the end of its loop, or by an abort.
LEMMA FinishesWhole ==
  ASSUME TypeOK, Queued, [Next]_vars, state # "finished", state' = "finished", failures' = {}
  PROVE  Parsed' /\ ctl' = "idle"
<1>. USE DEF documentVars, coreVars, queueVars, defaultVars, failVars, Parsed
<1>a. ASSUME NEW code, Fail(code) PROVE FALSE
  BY <1>a DEF Fail
<1>1. CASE UNCHANGED vars
  BY <1>1 DEF vars
<1>2. CASE Requests
  BY <1>2 DEF Requests, Parse, GetBuffer, ParseBuffer, Resume, Reset, Free,
      Refuse, StaysFailed, FeedFails, Feed, Enter, ClearDocument
<1>3. CASE Calls
  BY <1>3, <1>a DEF Calls, StopParser, SetHandler, DefaultCurrent, Refuse
<1>4. CASE LoopEnds
  <2>1. ~MergeFails
    BY <1>a DEF MergeFails
  <2>2. IsFinished /\ subset' # "unmerged" /\ ctl' = "idle"
    BY <1>4, <2>1 DEF LoopEnds, ExternalSubset, Finish
  <2>3. defaultPending = << >>
    BY <1>4 DEF LoopEnds, Continuing, Draining, Failing, Pausing, FinishingTag
  <2>. QED  BY <1>4, <2>2, <2>3 DEF LoopEnds, IsFinished
<1>5. CASE Loop /\ ~LoopEnds
  BY <1>5 DEF Loop, DrainFragments, LoopFails, LoopPauses, NextEvent, CoreFails, AskEncoding,
    AskConversion
<1>6. CASE Return
  BY <1>6 DEF Return, ReturnEvent, ReturnExternal, ReturnDefault, ReturnConversion, AcceptEncoding,
    RefuseEncoding, NoEncoding, ReturnRelease, ClearDocument
<1>. QED  BY <1>1, <1>2, <1>3, <1>4, <1>5, <1>6 DEF Next

\* Nothing is parsed, and no declaration delivered, when it is finished.
LEMMA StaysFinished ==
  ASSUME GuardInv, Waiting, [Next]_vars, state = "finished", ctl \notin {"loop", "refused"},
         ~ClearDocument
  PROVE  /\ UNCHANGED <<coreFinal, tokens, pending, defaultPending, subset>>
         /\ ctl' \notin {"loop", "refused"}
<1>. USE DEF documentVars, coreVars, queueVars, defaultVars, guardVars
<1>1. CASE UNCHANGED vars
  BY <1>1 DEF vars
<1>2. CASE Parse \/ GetBuffer \/ ParseBuffer \/ Resume
  <2>1. Closed
    BY DEF Closed
  <2>2. \E code : Refuse(code)
    BY <1>2, <2>1 DEF Parse, GetBuffer, ParseBuffer, Resume
  <2>. QED  BY <2>2 DEF Refuse
<1>3. CASE Reset \/ Free
  BY <1>3 DEF Reset, Free, Refuse
<1>4. CASE Calls
  BY <1>4 DEF Calls, StopParser, SetHandler, DefaultCurrent, Refuse, Call
<1>5. CASE Loop
  BY <1>5 DEF Loop, DrainFragments, LoopFails, LoopPauses, NextEvent, CoreFails, LoopEnds,
    AskEncoding, AskConversion, Continuing, InLoop
<1>6. CASE ReturnEvent \/ ReturnExternal \/ ReturnDefault
  BY <1>6 DEF ReturnEvent, ReturnExternal, ReturnDefault
<1>7. CASE ReturnConversion \/ AcceptEncoding \/ RefuseEncoding \/ NoEncoding
  BY <1>7, AskedInLoop DEF ReturnConversion, AcceptEncoding, RefuseEncoding, NoEncoding
<1>8. CASE ReturnRelease
  BY <1>8 DEF ReturnRelease
<1>. QED  BY <1>1, <1>2, <1>3, <1>4, <1>5, <1>6, <1>7, <1>8 DEF Next, Requests, Return

LEMMA EndsStep ==
  TypeOK /\ GuardInv /\ Waiting /\ Queued /\ Ends /\ [Next]_vars => Ends'
<1>. SUFFICES ASSUME TypeOK, GuardInv, Waiting, Queued, Ends, [Next]_vars PROVE Ends'
  OBVIOUS
<1>1. Failed'
  BY FailuresStep DEF Ends, ClearDocument, Failed
<1>2. Whole'
  BY WholeStep DEF Ends
<1>3. ASSUME state' = "finished", failures' = {}
      PROVE  Parsed' /\ ctl' \notin {"loop", "refused"}
  <2>1. ~ClearDocument
    BY <1>3 DEF ClearDocument
  <2>2. failures = {}
    BY <1>3, <2>1, FailuresStep
  <2>3. CASE state = "finished"
    <3>1. Parsed /\ ctl \notin {"loop", "refused"}
      BY <2>2, <2>3 DEF Ends, Ended, FinishedComplete, Parsed
    <3>. QED  BY <2>1, <2>3, <3>1, StaysFinished DEF Parsed
  <2>4. CASE state # "finished"
    BY <1>3, <2>4, FinishesWhole
  <2>. QED  BY <2>3, <2>4
<1>. QED  BY <1>1, <1>2, <1>3 DEF Ends, Ended, FinishedComplete, Parsed

\* The parse loop between its callbacks.
LoopInv == TypeInv /\ Waiting /\ Queued /\ Ends

LEMMA LoopInit == Init => LoopInv
<1>1. Init => Waiting /\ Queued /\ Ends
  BY DEF Init, Waiting, Queued, Suffixes, Ends, Failed, Whole, Ended, FinishedComplete
<1>. QED  BY <1>1, TypeInit DEF LoopInv

LEMMA LoopStep == LoopInv /\ [Next]_vars => LoopInv'
BY TypeStep, WaitingStep, QueuedStep, EndsStep DEF LoopInv, TypeInv

LEMMA LoopAlways == Spec => []LoopInv
BY LoopInit, LoopStep, PTL DEF Spec

\* A document is finished without an error only when all of it was parsed and
\* delivered, whatever the application calls and stops meanwhile (run_events,
\* finish_external_subset).
THEOREM FinishedCorrect == Spec => []FinishedComplete
<1>1. LoopInv => FinishedComplete
  BY DEF LoopInv, Ends
<1>. QED  BY <1>1, LoopAlways, PTL

\* A call returns between tags, suspended and aborted calls included, unless
\* an allocation or processing error dropped events (has_pending_tag_event).
THEOREM WholeTagsCorrect == Spec => []WholeTags
<1>1. LoopInv => WholeTags
  BY DEF LoopInv, Ends, Whole, WholeTags
<1>. QED  BY <1>1, LoopAlways, PTL

-----------------------------------------------------------------------------
(***************************************************************************)
(* Encoding instances                                                      *)
(***************************************************************************)

Owned == ReleasedOnce /\ encoding \in 0..created /\ (multibyte => encoding # 0)

\* One more instance is released.
LEMMA ReleaseOne ==
  ASSUME NEW s \in Seq(Nat), NEW e \in Nat, e \notin {s[i] : i \in 1..Len(s)},
         \A i, j \in 1..Len(s) : s[i] = s[j] => i = j
  PROVE  LET r == Append(s, e) IN
         /\ \A i, j \in 1..Len(r) : r[i] = r[j] => i = j
         /\ {r[i] : i \in 1..Len(r)} = {s[i] : i \in 1..Len(s)} \cup {e}
<1>. DEFINE r == Append(s, e)
<1>1. /\ Len(s) \in Nat /\ Len(r) = Len(s) + 1 /\ r[Len(s) + 1] = e
      /\ \A i \in 1..Len(s) : r[i] = s[i]
  BY AppendProperties
<1>. HIDE DEF r
<1>2. \A i \in 1..Len(r) : i \in 1..Len(s) \/ i = Len(s) + 1
  BY <1>1
<1>3. \A i \in 1..Len(s) : i \in 1..Len(r) /\ r[i] # e
  BY <1>1
<1>4. \A i, j \in 1..Len(r) : r[i] = r[j] => i = j
  BY <1>1, <1>2, <1>3
<1>5. Len(s) + 1 \in 1..Len(r)
  BY <1>1
<1>6. {r[i] : i \in 1..Len(r)} = {s[i] : i \in 1..Len(s)} \cup {e}
  BY <1>1, <1>2, <1>3, <1>5
<1>. QED  BY <1>4, <1>6 DEF r

\* What a step does to the encoding instances.
LEMMA EncodingStep ==
  [Next]_vars => \/ UNCHANGED encodingVars
                 \/ encoding # 0 /\ GiveUpEncoding
                 \/ AcceptEncoding \/ RefuseEncoding
<1>1. UNCHANGED vars => UNCHANGED encodingVars
  BY DEF vars
<1>2. Requests => UNCHANGED encodingVars \/ (encoding # 0 /\ GiveUpEncoding)
  BY DEF Requests, Parse, GetBuffer, ParseBuffer, Resume, Reset, Free,
      Refuse, StaysFailed, FeedFails, Feed, Enter
<1>3. Calls => UNCHANGED encodingVars
  BY DEF Calls, StopParser, SetHandler, DefaultCurrent, Refuse
<1>4. Loop => UNCHANGED encodingVars
  BY DEF Loop, DrainFragments, LoopFails, LoopPauses, NextEvent, CoreFails, LoopEnds, AskEncoding,
    AskConversion
<1>5. Return => UNCHANGED encodingVars \/ AcceptEncoding \/ RefuseEncoding
  BY DEF Return, ReturnEvent, ReturnExternal, ReturnDefault, ReturnConversion, NoEncoding,
    ReturnRelease
<1>. QED  BY <1>1, <1>2, <1>3, <1>4, <1>5 DEF Next

LEMMA OwnedStep == LoopInv /\ Owned /\ [Next]_vars => Owned'
<1>. SUFFICES ASSUME LoopInv, Owned, [Next]_vars PROVE Owned'
  OBVIOUS
<1>. DEFINE gone == {released[i] : i \in 1..Len(released)}
<1>t. released \in Seq(Nat) /\ created \in Nat /\ encoding \in Nat
  BY DEF LoopInv, TypeInv, TypeOK
<1>g. gone = 1..created \ {encoding} /\ encoding \in 0..created
  BY DEF Owned, ReleasedOnce
<1>a. ASSUME NEW e \in Nat, e \notin gone, released' = Append(released, e)
      PROVE  /\ \A i, j \in 1..Len(released') : released'[i] = released'[j] => i = j
             /\ {released'[i] : i \in 1..Len(released')} = gone \cup {e}
  BY <1>a, <1>t, ReleaseOne DEF Owned, ReleasedOnce
<1>. HIDE DEF gone
<1>1. CASE UNCHANGED encodingVars
  BY <1>1 DEF encodingVars, Owned, ReleasedOnce
<1>2. CASE encoding # 0 /\ GiveUpEncoding
  <2>1. encoding \notin gone /\ gone \cup {encoding} = 1..created \ {0}
    BY <1>t, <1>g, <1>2
  <2>2. /\ \A i, j \in 1..Len(released') : released'[i] = released'[j] => i = j
        /\ {released'[i] : i \in 1..Len(released')} = gone \cup {encoding}
    BY <1>2, <1>a, <1>t, <2>1 DEF GiveUpEncoding
  <2>3. encoding' = 0 /\ multibyte' = FALSE /\ created' = created
    BY <1>2 DEF GiveUpEncoding
  <2>. QED  BY <1>t, <2>1, <2>2, <2>3 DEF Owned, ReleasedOnce
<1>3. CASE AcceptEncoding \/ RefuseEncoding
  <2>1. encoding = 0
    BY <1>3, OnlyFrame DEF AcceptEncoding, RefuseEncoding, LoopInv, TypeInv, Waiting, FrameKinds
  <2>2. CASE AcceptEncoding
    <3>1. /\ created' = created + 1 /\ encoding' = created + 1 /\ UNCHANGED released
      BY <2>2 DEF AcceptEncoding
    <3>2. gone = 1..created' \ {encoding'} /\ encoding' \in 0..created' /\ encoding' # 0
      BY <1>t, <1>g, <2>1, <3>1
    <3>. QED  BY <3>1, <3>2 DEF Owned, ReleasedOnce, gone
  <2>3. CASE RefuseEncoding
    <3>1. /\ created' = created + 1 /\ UNCHANGED <<encoding, multibyte>>
          /\ released' = Append(released, created + 1)
      BY <2>3 DEF RefuseEncoding
    <3>2. created + 1 \in Nat /\ created + 1 \notin gone
          /\ gone \cup {created + 1} = 1..created' \ {encoding'} /\ encoding' \in 0..created'
      BY <1>t, <1>g, <2>1, <3>1
    <3>3. /\ \A i, j \in 1..Len(released') : released'[i] = released'[j] => i = j
          /\ {released'[i] : i \in 1..Len(released')} = gone \cup {created + 1}
      BY <3>1, <3>2, <1>a
    <3>. QED  BY <3>1, <3>2, <3>3 DEF Owned, ReleasedOnce
  <2>. QED  BY <1>3, <2>2, <2>3
<1>. QED  BY <1>1, <1>2, <1>3, EncodingStep

\* Every encoding instance is owned by the parser or released, once, and its
\* converter is called only while it is owned (resolve_unknown_encoding,
\* XML_ParserReset, XML_ParserFree).
THEOREM ConverterCorrect == Spec => []ConverterOwned
<1>1. Init => Owned
  <2>. SUFFICES ASSUME Init PROVE Owned
    OBVIOUS
  <2>1. released = << >> /\ Len(<< >>) = 0 /\ created = 0 /\ encoding = 0 /\ multibyte = FALSE
    BY EmptySeq DEF Init
  <2>2. 1..0 = {}
    OBVIOUS
  <2>. QED  BY <2>1, <2>2 DEF Owned, ReleasedOnce
<1>2. LoopInv /\ Owned => ConverterOwned
  <2>. SUFFICES ASSUME LoopInv, Owned, NEW i \in 1..Len(frames), frames[i] = "convert"
                PROVE  multibyte
    BY DEF ConverterOwned, ConverterAlive, Owned
  <2>1. frames \in Seq(FrameKinds) /\ GuardDiscipline /\ Waiting
    BY DEF LoopInv, TypeInv, GuardInv
  <2>2. Len(frames) \in Nat /\ Len(frames) <= 2 /\ frames # << >>
    BY <2>1, EmptySeq DEF GuardDiscipline
  <2>3. i = 1 \/ (i = 2 /\ Len(frames) = 2)
    BY <2>2
  <2>4. i = 1
    BY <2>1, <2>3 DEF GuardDiscipline
  <2>. QED  BY <2>1, <2>2, <2>4 DEF Waiting
<1>. QED  BY <1>1, <1>2, LoopInit, LoopStep, OwnedStep, PTL DEF Spec

-----------------------------------------------------------------------------
(***************************************************************************)
(* A stop is honoured                                                      *)
(***************************************************************************)

\* The loop only has to give up: no event is dispatched any more.
GivesUp == /\ parseError # "none"
           /\ ctl # "loop" \/ (frames = << >> /\ parseError # "aborted")

\* What is queued continues the token that was dispatched last.
Current == pending # << >> => (log # << >> /\ Final(log)[1] = consumed) \/ GivesUp

LEMMA LogStep ==
  [Next]_vars => \/ ClearDocument \/ NextEvent
                 \/ AcceptEncoding /\ UNCHANGED logVars
                 \/ DrainFragments /\ UNCHANGED <<log, consumed>>
                 \/ UNCHANGED <<logVars, consumed>>
<1>. USE DEF documentVars, coreVars, queueVars, logVars
<1>1. UNCHANGED vars => UNCHANGED <<logVars, consumed>>
  BY DEF vars
<1>2. Requests => ClearDocument \/ UNCHANGED <<logVars, consumed>>
  BY DEF Requests, Parse, GetBuffer, ParseBuffer, Resume, Reset, Free,
      Refuse, StaysFailed, FeedFails, Feed, Enter
<1>3. Calls => UNCHANGED <<logVars, consumed>>
  BY DEF Calls, StopParser, SetHandler, DefaultCurrent, Refuse
<1>4. Loop => \/ NextEvent \/ UNCHANGED <<logVars, consumed>>
              \/ DrainFragments /\ UNCHANGED <<log, consumed>>
  BY DEF Loop, DrainFragments, LoopFails, LoopPauses, CoreFails, LoopEnds, AskEncoding,
    AskConversion
<1>5. Return => \/ ClearDocument \/ UNCHANGED <<logVars, consumed>>
                \/ AcceptEncoding /\ UNCHANGED logVars
  BY DEF Return, ReturnEvent, ReturnExternal, ReturnDefault, ReturnConversion, AcceptEncoding,
    RefuseEncoding, NoEncoding, ReturnRelease
<1>. QED  BY <1>1, <1>2, <1>3, <1>4, <1>5 DEF Next

LEMMA GivesUpStep ==
  ASSUME GuardInv, GivesUp, [Next]_vars, ~ClearDocument
  PROVE  GivesUp'
<1>. USE DEF failVars, guardVars
<1>a. ASSUME \/ UNCHANGED failVars
             \/ \E code \in ParseErrors : Fail(code)
      PROVE  parseError' # "none"
  BY <1>a, FailsOnly DEF GivesUp
<1>b. {"no_memory", "limit", "bad_token", "unknown_encoding", "external", "aborted", "unexpected"}
        \subseteq ParseErrors
  BY DEF ParseErrors
<1>1. CASE UNCHANGED vars
  BY <1>1 DEF vars, GivesUp
<1>2. CASE ctl = "loop" /\ frames = << >> /\ parseError # "aborted" /\ Next
  <2>1. ~AppRuns /\ Failing /\ ~Draining /\ ~Continuing
    BY <1>2 DEF AppRuns, GivesUp, Failing, Draining, Continuing
  <2>2. ~Requests /\ ~Calls
    <3>1. busy
      BY <1>2 DEF GuardInv, GuardDiscipline
    <3>. QED  BY <2>1, <3>1 DEF Requests, Parse, GetBuffer, ParseBuffer, Resume, Reset, Free, Calls,
                StopParser, SetHandler, DefaultCurrent
  <2>3. ~Return
    BY <1>2 DEF Return, ReturnEvent, ReturnExternal, ReturnDefault, ReturnConversion,
      AcceptEncoding, RefuseEncoding, NoEncoding, ReturnRelease, Returns
  <2>4. LoopFails
    BY <1>2, <2>1, <2>2, <2>3 DEF Next, Loop, DrainFragments, LoopPauses, NextEvent, CoreFails,
      LoopEnds, AskEncoding, AskConversion
  <2>. QED  BY <2>4 DEF LoopFails, Finish, GivesUp
<1>3. CASE ctl # "loop" /\ Requests
  <2>1. ~Enter
    BY <1>3 DEF Requests, Parse, GetBuffer, ParseBuffer, Resume, Reset, Free, Refuse, StaysFailed,
      FeedFails, Feed, Enter, GivesUp, guardVars
  <2>2. parseError' # "none" /\ ctl' # "loop"
    BY <1>3, <2>1, <1>a, <1>b DEF Requests, Parse, GetBuffer, ParseBuffer, Resume, Reset, Free,
      Refuse, StaysFailed, FeedFails, Feed
  <2>. QED  BY <2>2 DEF GivesUp
<1>4. CASE ctl # "loop" /\ Calls
  <2>1. parseError' # "none" /\ ctl' # "loop"
    BY <1>4, <1>a, <1>b DEF Calls, StopParser, SetHandler, DefaultCurrent, Refuse, Call
  <2>. QED  BY <2>1 DEF GivesUp
<1>5. CASE ctl # "loop" /\ Loop
  BY <1>5 DEF Loop, DrainFragments, LoopFails, LoopPauses, NextEvent, CoreFails, LoopEnds,
    AskEncoding, AskConversion, Continuing, InLoop
<1>6. CASE ctl # "loop" /\ Return
  <2>1. parseError' # "none" /\ ctl' # "loop"
    BY <1>6, <1>a, <1>b DEF Return, ReturnEvent, ReturnExternal, ReturnDefault, ReturnConversion,
      AcceptEncoding, RefuseEncoding, NoEncoding, ReturnRelease, FailEncoding, Finish, GivesUp
  <2>. QED  BY <2>1 DEF GivesUp
<1>. QED  BY <1>1, <1>2, <1>3, <1>4, <1>5, <1>6 DEF Next, GivesUp

\* What is dispatched is logged under the token it is of.
LEMMA Logged ==
  ASSUME NEW event \in Events, NEW n \in Nat, log \in Seq(Delivered), Dispatch(event, n)
  PROVE  log' # << >> /\ Final(log') = <<n, event>>
<1>1. <<n, event>> \in Delivered /\ log' = Append(log, <<n, event>>)
  BY DEF Delivered, Dispatch
<1>2. log' \in Seq(Delivered) /\ Len(log') = Len(log) + 1 /\ log'[Len(log) + 1] = <<n, event>>
      /\ Len(log) \in Nat
  BY <1>1, AppendProperties
<1>. QED  BY <1>2, EmptySeq DEF Final

LEMMA CurrentStep == LoopInv /\ Current /\ [Next]_vars => Current'
<1>. SUFFICES ASSUME LoopInv, Current, [Next]_vars, pending' # << >>
              PROVE  (log' # << >> /\ Final(log')[1] = consumed') \/ GivesUp'
  BY DEF Current
<1>t. TypeOK /\ GuardInv /\ Waiting /\ Queued /\ TypeOK'
  BY LoopStep DEF LoopInv, TypeInv
<1>1. CASE ClearDocument
  BY <1>1 DEF ClearDocument
<1>2. CASE NextEvent
  <2>1. PICK queue \in Suffixes \cup Bursts :
          queue # << >> /\ (Dispatch(Head(queue), consumed') \/ DropEvent)
    BY <1>2, <1>t, NextOf
  <2>2. CASE DropEvent
    <3>1. parseError' \in {"no_memory", "limit"} /\ frames' = frames
      BY <2>2 DEF DropEvent, Fail, guardVars
    <3>2. frames = << >>
      BY <1>2 DEF NextEvent, Continuing, InLoop
    <3>. QED  BY <3>1, <3>2 DEF GivesUp
  <2>3. CASE Dispatch(Head(queue), consumed')
    <3>1. Head(queue) \in Events /\ consumed' \in Nat /\ log \in Seq(Delivered)
      BY <1>t, <2>1, Taken DEF TypeOK
    <3>2. log' # << >> /\ Final(log') = <<consumed', Head(queue)>>
      BY <2>3, <3>1, Logged
    <3>. QED  BY <3>2
  <2>. QED  BY <2>1, <2>2, <2>3
<1>3. CASE ~ClearDocument /\ ~NextEvent
  <2>1. pending # << >>
    BY <1>3, PendingStep
  <2>2. ~AcceptEncoding
    BY <1>t, <2>1, OnlyFrame DEF AcceptEncoding, Waiting, FrameKinds
  <2>3. UNCHANGED <<log, consumed>>
    BY <1>3, <2>2, LogStep DEF logVars
  <2>. QED  BY <1>3, <1>t, <2>1, <2>3, GivesUpStep DEF Current
<1>. QED  BY <1>1, <1>2, <1>3

\* Once stopped, a parser completes the tag whose callbacks have begun and
\* delivers nothing else until it is resumed (run_events).
THEOREM StopCorrect == Spec => StopHonoured
<1>1. Init => Current
  BY DEF Init, Current
<1>2. LoopInv /\ Current /\ [Next]_vars => [StopStep]_vars
  <2>. SUFFICES ASSUME LoopInv, Current, [Next]_vars, state = "suspended" \/ parseError = "aborted"
                PROVE  /\ log' \notin {log, << >>} =>
                            /\ log # << >> /\ Final(log')[1] = Final(log)[1]
                            /\ EventOf(Final(log')) \in TagEvents
                       /\ fragmentLog' \notin {fragmentLog, << >>} =>
                            Final(fragmentLog')[2] = Final(log)[1]
    BY DEF StopStep
  <2>t. TypeOK /\ GuardInv /\ Waiting /\ Queued
    BY DEF LoopInv, TypeInv
  <2>1. CASE NextEvent
    <3>1. PICK queue \in Suffixes \cup Bursts :
            /\ queue # << >> /\ queue = pending
            /\ UNCHANGED <<tokens, consumed, coreError>>
            /\ Dispatch(Head(queue), consumed') \/ DropEvent
      BY <2>1, <2>t, NextOf
    <3>2. consumed' = consumed /\ Head(queue) \in TagEvents /\ Head(queue) \in Events
      BY <3>1, <2>t, SuffixTags, Taken DEF Queued
    <3>3. log # << >> /\ Final(log)[1] = consumed
      BY <2>1, <3>1 DEF Current, GivesUp, NextEvent, Continuing, InLoop, Failing
    <3>4. CASE DropEvent
      BY <3>4 DEF DropEvent, logVars
    <3>5. CASE Dispatch(Head(queue), consumed')
      <4>1. Final(log') = <<consumed, Head(queue)>>
        BY <2>t, <3>2, <3>5, Logged DEF TypeOK
      <4>2. \/ fragmentLog' = fragmentLog
            \/ fragmentLog' = Append(fragmentLog, <<generation, consumed, "raw">>)
        BY <3>2, <3>5 DEF Dispatch
      <4>3. fragmentLog' # fragmentLog => Final(fragmentLog')[2] = consumed
        <5>1. <<generation, consumed, "raw">> \in Pieces /\ fragmentLog \in Seq(Pieces)
          BY <2>t DEF TypeOK, Pieces
        <5>2. \A s \in Seq(Pieces), e \in Pieces : Final(Append(s, e)) = e
          BY DEF Final
        <5>3. fragmentLog' # fragmentLog => Final(fragmentLog') = <<generation, consumed, "raw">>
          BY <4>2, <5>1, <5>2
        <5>. QED  BY <5>3
      <4>. QED  BY <3>2, <3>3, <4>1, <4>3 DEF EventOf
    <3>. QED  BY <3>1, <3>4, <3>5
  <2>2. CASE ClearDocument
    BY <2>2 DEF ClearDocument
  <2>3. ~DrainFragments
    <3>1. parseError = "aborted" => parseError # "none"
      OBVIOUS
    <3>. QED  BY <3>1 DEF DrainFragments, Draining
  <2>. QED  BY <2>1, <2>2, <2>3, LogStep DEF logVars
<1>. QED  BY <1>1, <1>2, LoopInit, LoopStep, CurrentStep, PTL DEF Spec, StopHonoured

-----------------------------------------------------------------------------
(***************************************************************************)
(* Events in the order of the input                                        *)
(***************************************************************************)

\* The entries from `first` to `last` are those of token n, and their events.
RunOf(l, n, first, last) == \A i \in 1..Len(l) : l[i][1] = n <=> i \in first..last
EventsIn(l, first, last) == [i \in 1..(last + 1) - first |-> EventOf(l[(first - 1) + i])]

\* The events of token n in log l, with the rest, are all of them.
Sent(l, n, rest, all) ==
  \E first \in 1..Len(l) + 1, last \in 0..Len(l) :
    RunOf(l, n, first, last) /\ EventsIn(l, first, last) \o rest = all

LEMMA EventsInType ==
  ASSUME NEW l \in Seq(Delivered), NEW first \in 1..Len(l) + 1, NEW last \in 0..Len(l)
  PROVE  /\ EventsIn(l, first, last) \in Seq(Events)
         /\ first <= last + 1 => Len(EventsIn(l, first, last)) = (last + 1) - first
         /\ first > last => EventsIn(l, first, last) = << >>
<1>1. \A i \in 1..(last + 1) - first : EventOf(l[(first - 1) + i]) \in Events
  <2>1. \A j \in 1..Len(l) : EventOf(l[j]) \in Events
    BY DEF EventOf, Delivered
  <2>2. \A i \in 1..(last + 1) - first : (first - 1) + i \in 1..Len(l)
    OBVIOUS
  <2>. QED  BY <2>1, <2>2
<1>2. CASE first <= last
  BY <1>1, <1>2 DEF EventsIn
<1>3. CASE first > last
  <2>1. 1..(last + 1) - first = 1..0
    BY <1>3
  <2>2. EventsIn(l, first, last) \in Seq(Events) /\ Len(EventsIn(l, first, last)) = 0
    <3>1. EventsIn(l, first, last) \in [1..0 -> Events]
      BY <2>1 DEF EventsIn
    <3>. QED  BY <3>1
  <2>. QED  BY <1>3, <2>2, EmptySeq
<1>. QED  BY <1>2, <1>3

LEMMA Appended ==
  ASSUME NEW l \in Seq(Delivered), NEW m \in Nat, NEW e \in Events
  PROVE  LET k == Append(l, <<m, e>>) IN
         /\ k \in Seq(Delivered) /\ Len(l) \in Nat /\ Len(k) = Len(l) + 1
         /\ k[Len(l) + 1] = <<m, e>> /\ \A i \in 1..Len(l) : k[i] = l[i]
<1>1. <<m, e>> \in Delivered
  BY DEF Delivered
<1>. QED  BY <1>1, AppendProperties

\* An event of another token.
LEMMA SentOther ==
  ASSUME NEW l \in Seq(Delivered), NEW m \in Nat, NEW e \in Events, NEW n, n # m,
         NEW rest, NEW all, Sent(l, n, rest, all)
  PROVE  Sent(Append(l, <<m, e>>), n, rest, all)
<1>. DEFINE k == Append(l, <<m, e>>)
<1>1. PICK first \in 1..Len(l) + 1, last \in 0..Len(l) :
        RunOf(l, n, first, last) /\ EventsIn(l, first, last) \o rest = all
  BY DEF Sent
<1>2. /\ Len(l) \in Nat /\ Len(k) = Len(l) + 1
      /\ k[Len(l) + 1] = <<m, e>> /\ \A i \in 1..Len(l) : k[i] = l[i]
  BY Appended
<1>. HIDE DEF k
<1>3. RunOf(k, n, first, last)
  <2>. SUFFICES ASSUME NEW i \in 1..Len(k) PROVE k[i][1] = n <=> i \in first..last
    BY DEF RunOf
  <2>1. CASE i \in 1..Len(l)
    BY <1>1, <1>2, <2>1 DEF RunOf
  <2>2. CASE i = Len(l) + 1
    BY <1>2, <2>2
  <2>. QED  BY <1>2, <2>1, <2>2
<1>4. EventsIn(k, first, last) = EventsIn(l, first, last)
  <2>1. \A i \in 1..(last + 1) - first : (first - 1) + i \in 1..Len(l)
    OBVIOUS
  <2>. QED  BY <1>2, <2>1 DEF EventsIn
<1>5. first \in 1..Len(k) + 1 /\ last \in 0..Len(k)
  BY <1>2
<1>. QED  BY <1>1, <1>3, <1>4, <1>5 DEF Sent, k

\* A token of which nothing was dispatched.
LEMMA SentNone ==
  ASSUME NEW l \in Seq(Delivered), NEW n, \A i \in 1..Len(l) : l[i][1] # n,
         NEW all \in Seq(Events)
  PROVE  Sent(l, n, all, all)
<1>1. Len(l) \in Nat
  OBVIOUS
<1>2. Len(l) + 1 \in 1..Len(l) + 1 /\ Len(l) \in 0..Len(l) /\ Len(l) + 1 > Len(l)
  BY <1>1
<1>3. EventsIn(l, Len(l) + 1, Len(l)) = << >>
  BY <1>2, EventsInType
<1>4. << >> \o all = all
  OBVIOUS
<1>5. RunOf(l, n, Len(l) + 1, Len(l))
  BY <1>1 DEF RunOf
<1>. QED  BY <1>2, <1>3, <1>4, <1>5 DEF Sent

\* Entries of tokens up to n, in order.
UpTo(l, n) ==
  /\ \A i \in 1..Len(l) : l[i][1] \in 1..n
  /\ \A i, j \in 1..Len(l) : i < j => l[i][1] <= l[j][1]

LEMMA AppendAt ==
  ASSUME NEW S, NEW s \in Seq(S), NEW e \in S
  PROVE  /\ Append(s, e)[Len(s) + 1] = e
         /\ \A i \in 1..Len(s) : Append(s, e)[i] = s[i]
OBVIOUS

LEMMA MoveHead ==
  ASSUME NEW S, NEW s \in Seq(S), NEW t \in Seq(S), t # << >>
  PROVE  Append(s, Head(t)) \o Tail(t) = s \o t
OBVIOUS

\* The next event of the last token.
LEMMA SentNext ==
  ASSUME NEW n \in Nat, NEW l \in Seq(Delivered), UpTo(l, n), NEW rest \in Seq(Events), rest # << >>,
         NEW all, Sent(l, n, rest, all)
  PROVE  Sent(Append(l, <<n, Head(rest)>>), n, Tail(rest), all)
<1>e. PICK e \in Events : e = Head(rest)
  BY HeadTailProperties
<1>. DEFINE k == Append(l, <<n, e>>)
<1>1. PICK start \in 1..Len(l) + 1, last \in 0..Len(l) :
        RunOf(l, n, start, last) /\ EventsIn(l, start, last) \o rest = all
  BY DEF Sent
<1>2. /\ Len(l) \in Nat /\ Len(k) = Len(l) + 1 /\ k \in Seq(Delivered)
      /\ k[Len(l) + 1] = <<n, e>> /\ \A i \in 1..Len(l) : k[i] = l[i]
  BY Appended
<1>. HIDE DEF k
<1>3. PICK first \in 1..Len(l) + 1 :
        RunOf(l, n, first, Len(l)) /\ EventsIn(l, first, Len(l)) \o rest = all
  <2>1. CASE start <= last
    <3>1. l[last][1] = n /\ last \in 1..Len(l)
      BY <1>1, <2>1 DEF RunOf
    <3>2. l[Len(l)][1] = n
      <4>1. Len(l) \in 1..Len(l) /\ (last = Len(l) \/ last < Len(l))
        BY <1>2, <3>1
      <4>2. l[Len(l)][1] \in 1..n /\ (last < Len(l) => n <= l[Len(l)][1])
        BY <3>1, <4>1 DEF UpTo
      <4>. QED  BY <3>1, <4>1, <4>2
    <3>3. last = Len(l)
      BY <1>1, <1>2, <3>1, <3>2 DEF RunOf
    <3>. QED  BY <1>1, <3>3
  <2>2. CASE start > last
    <3>1. EventsIn(l, start, last) = << >>
      BY <2>2, EventsInType
    <3>2. Len(l) + 1 \in 1..Len(l) + 1 /\ Len(l) \in 0..Len(l) /\ Len(l) + 1 > Len(l)
      BY <1>2
    <3>3. EventsIn(l, Len(l) + 1, Len(l)) = << >>
      BY <3>2, EventsInType
    <3>4. RunOf(l, n, Len(l) + 1, Len(l))
      BY <1>1, <1>2, <2>2 DEF RunOf
    <3>. QED  BY <1>1, <3>1, <3>2, <3>3, <3>4
  <2>3. start <= last \/ start > last
    BY <1>1, <1>2
  <2>. QED  BY <2>1, <2>2, <2>3, Zenon
<1>4. RunOf(k, n, first, Len(l) + 1)
  <2>. SUFFICES ASSUME NEW i \in 1..Len(k) PROVE k[i][1] = n <=> i \in first..Len(l) + 1
    BY DEF RunOf
  <2>1. CASE i \in 1..Len(l)
    <3>1. k[i][1] = n <=> i \in first..Len(l)
      BY <1>2, <1>3, <2>1 DEF RunOf
    <3>. QED  BY <1>2, <2>1, <3>1
  <2>2. CASE i = Len(l) + 1
    BY <1>2, <2>2
  <2>. QED  BY <1>2, <2>1, <2>2
<1>5. EventsIn(k, first, Len(l) + 1) = Append(EventsIn(l, first, Len(l)), e)
  <2>1. /\ first \in 1..Len(k) + 1 /\ Len(l) + 1 \in 0..Len(k) /\ Len(l) \in 0..Len(l)
        /\ first <= Len(l) + 1 /\ first <= (Len(l) + 1) + 1
        /\ first \in Nat /\ ((Len(l) + 1) + 1) - first = (Len(l) + 2) - first
    BY <1>2, <1>3
  <2>. DEFINE a == EventsIn(l, first, Len(l))
              b == EventsIn(k, first, Len(l) + 1)
  <2>2. /\ a \in Seq(Events) /\ Len(a) = (Len(l) + 1) - first
        /\ b \in Seq(Events) /\ Len(b) = (Len(l) + 2) - first
    BY <1>2, <2>1, EventsInType
  <2>3. \A i \in 1..Len(a) : b[i] = a[i]
    <3>1. \A i \in 1..(Len(l) + 1) - first :
            /\ (first - 1) + i \in 1..Len(l) /\ i \in 1..((Len(l) + 1) + 1) - first
      BY <1>2, <2>1
    <3>. QED  BY <1>2, <2>2, <3>1 DEF EventsIn
  <2>4. b[Len(a) + 1] = e
    <3>1. (Len(l) + 2) - first \in 1..((Len(l) + 1) + 1) - first
          /\ (first - 1) + ((Len(l) + 2) - first) = Len(l) + 1
          /\ ((Len(l) + 1) - first) + 1 = (Len(l) + 2) - first
      BY <1>2, <2>1
    <3>2. b[(Len(l) + 2) - first] = EventOf(k[Len(l) + 1])
      BY <3>1 DEF EventsIn
    <3>3. Len(a) + 1 = (Len(l) + 2) - first
      BY <2>2, <3>1
    <3>4. EventOf(k[Len(l) + 1]) = e
      BY <1>2 DEF EventOf
    <3>. QED  BY <3>2, <3>3, <3>4
  <2>5. (Len(l) + 2) - first = ((Len(l) + 1) - first) + 1
    BY <1>2, <2>1
  <2>. HIDE DEF a, b
  <2>6. Append(a, e) \in Seq(Events) /\ Len(Append(a, e)) = Len(b)
    <3>1. Len(Append(a, e)) = Len(a) + 1 /\ Append(a, e) \in Seq(Events)
      BY <2>2, AppendProperties
    <3>. QED  BY <2>2, <2>5, <3>1
  <2>7. \A i \in 1..Len(b) : b[i] = Append(a, e)[i]
    <3>1. /\ Append(a, e)[Len(a) + 1] = e /\ \A i \in 1..Len(a) : Append(a, e)[i] = a[i]
      BY <2>2, AppendAt
    <3>2. Len(b) = Len(a) + 1 /\ Len(a) \in Nat
      BY <2>2, <2>5
    <3>3. \A i \in 1..Len(b) : i \in 1..Len(a) \/ i = Len(a) + 1
      BY <3>2
    <3>. QED  BY <2>3, <2>4, <3>1, <3>3
  <2>8. b = Append(a, e)
    BY <2>2, <2>6, <2>7, SeqEqual
  <2>. QED  BY <2>8 DEF a, b
<1>6. EventsIn(k, first, Len(l) + 1) \o Tail(rest) = all
  <2>1. EventsIn(l, first, Len(l)) \in Seq(Events)
    BY <1>2, EventsInType
  <2>. QED  BY <1>3, <1>5, <1>e, <2>1, MoveHead
<1>7. first \in 1..Len(k) + 1 /\ Len(l) + 1 \in 0..Len(k)
  BY <1>2
<1>. QED  BY <1>4, <1>6, <1>7, <1>e DEF Sent, k

\* What the core was fed is what it consumed and what it still holds: a
\* converted sequence has become text.
Aligned ==
  /\ Len(fed) = consumed + Len(tokens)
  /\ \A i \in 1..Len(tokens) : EventsOf(fed[consumed + i]) = EventsOf(tokens[i])
  /\ pending # << >> => consumed # 0

\* A token consumed was dispatched but for the events still queued.
Consumed ==
  ~Dropped =>
    \A n \in 1..consumed :
      Sent(log, n, IF n = consumed THEN pending ELSE << >>, EventsOf(fed[n]))

Order == Aligned /\ UpTo(log, consumed) /\ Consumed

\* What a step does to the tokens.
LEMMA TokensStep ==
  LoopInv /\ [Next]_vars =>
    \/ ClearDocument \/ NextEvent \/ AcceptEncoding
    \/ \E chunk \in Input : /\ tokens' = tokens \o chunk /\ fed' = fed \o chunk
                            /\ UNCHANGED <<consumed, pending>>
    \/ /\ tokens # << >> /\ Head(tokens) = "convert"
       /\ tokens' = <<"text">> \o Tail(tokens) /\ UNCHANGED <<fed, consumed, pending>>
    \/ UNCHANGED <<tokens, fed, consumed, pending>>
<1>. SUFFICES ASSUME LoopInv, [Next]_vars
              PROVE  \/ ClearDocument \/ NextEvent \/ AcceptEncoding
                     \/ \E chunk \in Input : /\ tokens' = tokens \o chunk /\ fed' = fed \o chunk
                                             /\ UNCHANGED <<consumed, pending>>
                     \/ /\ tokens # << >> /\ Head(tokens) = "convert"
                        /\ tokens' = <<"text">> \o Tail(tokens) /\ UNCHANGED <<fed, consumed, pending>>
                     \/ UNCHANGED <<tokens, fed, consumed, pending>>
  OBVIOUS
<1>. USE DEF documentVars, coreVars, queueVars, fedVars
<1>1. UNCHANGED vars => UNCHANGED <<tokens, fed, consumed, pending>>
  BY DEF vars
<1>2. Requests => \/ ClearDocument \/ UNCHANGED <<tokens, fed, consumed, pending>>
                  \/ \E chunk \in Input : /\ tokens' = tokens \o chunk /\ fed' = fed \o chunk
                                          /\ UNCHANGED <<consumed, pending>>
  BY DEF Requests, Parse, GetBuffer, ParseBuffer, Resume, Reset, Free,
      Refuse, StaysFailed, FeedFails, Feed, Enter
<1>3. Calls => UNCHANGED <<tokens, fed, consumed, pending>>
  BY DEF Calls, StopParser, SetHandler, DefaultCurrent, Refuse
<1>4. Loop => NextEvent \/ UNCHANGED <<tokens, fed, consumed, pending>>
  BY DEF Loop, DrainFragments, LoopFails, LoopPauses, CoreFails, LoopEnds, AskEncoding,
    AskConversion
<1>5. CASE ReturnConversion
  <2>1. tokens # << >> /\ Head(tokens) = "convert"
    BY <1>5, OnlyFrame DEF ReturnConversion, LoopInv, TypeInv, Waiting, FrameKinds
  <2>. QED  BY <1>5, <2>1 DEF ReturnConversion
<1>6. Return => \/ ClearDocument \/ UNCHANGED <<tokens, fed, consumed, pending>>
                \/ AcceptEncoding \/ ReturnConversion
  BY DEF Return, ReturnEvent, ReturnExternal, ReturnDefault, RefuseEncoding, NoEncoding, ReturnRelease
<1>. QED  BY <1>1, <1>2, <1>3, <1>4, <1>5, <1>6 DEF Next

LEMMA AlignedStep == LoopInv /\ Aligned /\ [Next]_vars => Aligned'
<1>. SUFFICES ASSUME LoopInv, Aligned, [Next]_vars PROVE Aligned'
  OBVIOUS
<1>t. /\ TypeOK /\ Queued /\ Waiting /\ GuardInv
      /\ tokens \in Seq(Tokens) /\ fed \in Seq(Tokens) /\ consumed \in Nat
  BY DEF LoopInv, TypeInv, TypeOK
<1>a. ASSUME tokens # << >>, tokens' = Tail(tokens), consumed' = consumed + 1, UNCHANGED fed
      PROVE  Aligned'
  <2>1. /\ Len(Tail(tokens)) = Len(tokens) - 1 /\ Len(tokens) \in Nat
        /\ \A i \in 1..Len(tokens) - 1 : Tail(tokens)[i] = tokens[i + 1]
    BY <1>a, <1>t
  <2>2. \A i \in 1..Len(tokens) - 1 :
          (consumed + 1) + i = consumed + (i + 1) /\ i + 1 \in 1..Len(tokens)
    BY <1>t, <2>1
  <2>3. Len(fed) = (consumed + 1) + (Len(tokens) - 1) /\ consumed + 1 # 0
    BY <1>t, <2>1 DEF Aligned
  <2>4. \A i \in 1..Len(tokens) - 1 :
          EventsOf(fed[(consumed + 1) + i]) = EventsOf(Tail(tokens)[i])
    BY <2>1, <2>2 DEF Aligned
  <2>. QED  BY <1>a, <2>1, <2>3, <2>4 DEF Aligned
<1>1. CASE ClearDocument
  <2>1. Len(<< >>) = 0 /\ 1..0 = {}
    BY EmptySeq
  <2>. QED  BY <1>1, <2>1 DEF ClearDocument, Aligned
<1>2. CASE NextEvent
  <2>1. UNCHANGED fed
    BY <1>2 DEF NextEvent, fedVars
  <2>2. \/ pending # << >> /\ UNCHANGED <<tokens, consumed>>
        \/ tokens # << >> /\ tokens' = Tail(tokens) /\ consumed' = consumed + 1
    BY <1>2, <1>t, NextOf
  <2>. QED  BY <1>a, <2>1, <2>2 DEF Aligned
<1>3. CASE AcceptEncoding
  <2>1. tokens # << >>
    BY <1>3, <1>t, OnlyFrame DEF AcceptEncoding, Waiting, FrameKinds
  <2>. QED  BY <1>3, <1>a, <2>1 DEF AcceptEncoding, fedVars
<1>4. ASSUME NEW chunk \in Input, tokens' = tokens \o chunk, fed' = fed \o chunk,
             UNCHANGED <<consumed, pending>>
      PROVE  Aligned'
  <2>1. chunk \in Seq(Tokens)
    BY <1>4, InputType
  <2>2. /\ Len(tokens') = Len(tokens) + Len(chunk) /\ Len(fed') = Len(fed) + Len(chunk)
        /\ Len(tokens) \in Nat /\ Len(chunk) \in Nat /\ Len(fed) \in Nat
        /\ \A i \in 1..Len(tokens) : tokens'[i] = tokens[i]
        /\ \A i \in 1..Len(chunk) : tokens'[Len(tokens) + i] = chunk[i]
        /\ \A i \in 1..Len(fed) : fed'[i] = fed[i]
        /\ \A i \in 1..Len(chunk) : fed'[Len(fed) + i] = chunk[i]
    BY <1>4, <1>t, <2>1, ConcatProperties
  <2>3. Len(fed) = consumed + Len(tokens)
    BY DEF Aligned
  <2>4. ASSUME NEW i \in 1..Len(tokens') PROVE EventsOf(fed'[consumed + i]) = EventsOf(tokens'[i])
    <3>1. CASE i \in 1..Len(tokens)
      <4>1. consumed + i \in 1..Len(fed)
        BY <1>t, <2>2, <2>3, <3>1
      <4>. QED  BY <2>2, <3>1, <4>1 DEF Aligned
    <3>2. CASE i \notin 1..Len(tokens)
      <4>1. PICK k \in 1..Len(chunk) : i = Len(tokens) + k
        <5>1. i - Len(tokens) \in 1..Len(chunk) /\ i = Len(tokens) + (i - Len(tokens))
          BY <2>2, <3>2
        <5>. QED  BY <5>1
      <4>2. consumed + i = Len(fed) + k
        BY <1>t, <2>2, <2>3, <4>1
      <4>. QED  BY <2>2, <4>1, <4>2
    <3>. QED  BY <3>1, <3>2
  <2>5. Len(fed') = consumed + Len(tokens')
    BY <1>t, <2>2, <2>3
  <2>. QED  BY <1>4, <2>4, <2>5 DEF Aligned
<1>5. CASE /\ tokens # << >> /\ Head(tokens) = "convert"
           /\ tokens' = <<"text">> \o Tail(tokens) /\ UNCHANGED <<fed, consumed, pending>>
  <2>1. /\ Len(Tail(tokens)) = Len(tokens) - 1 /\ Len(tokens) \in Nat /\ tokens[1] = "convert"
        /\ Tail(tokens) \in Seq(Tokens)
        /\ \A i \in 1..Len(tokens) - 1 : Tail(tokens)[i] = tokens[i + 1]
    BY <1>5, <1>t
  <2>2. /\ Len(tokens') = 1 + Len(Tail(tokens)) /\ tokens'[1] = "text"
        /\ \A i \in 1..Len(Tail(tokens)) : tokens'[1 + i] = Tail(tokens)[i]
    <3>1. <<"text">> \in Seq(Tokens) /\ Len(<<"text">>) = 1 /\ <<"text">>[1] = "text"
      BY DEF Tokens
    <3>. QED  BY <1>5, <2>1, <3>1, ConcatProperties
  <2>3. EventsOf("text") = EventsOf("convert")
    BY DEF EventsOf
  <2>4. ASSUME NEW i \in 1..Len(tokens) PROVE EventsOf(tokens'[i]) = EventsOf(tokens[i])
    <3>1. CASE i = 1
      BY <2>1, <2>2, <2>3, <3>1
    <3>2. CASE i # 1
      <4>1. PICK k \in 1..Len(tokens) - 1 : i = k + 1
        <5>1. i - 1 \in 1..Len(tokens) - 1 /\ i = (i - 1) + 1
          BY <2>1, <3>2
        <5>. QED  BY <5>1
      <4>. QED  BY <2>1, <2>2, <4>1
    <3>. QED  BY <3>1, <3>2
  <2>5. Len(tokens') = Len(tokens)
    BY <2>1, <2>2
  <2>. QED  BY <1>5, <2>4, <2>5 DEF Aligned
<1>6. CASE UNCHANGED <<tokens, fed, consumed, pending>>
  BY <1>6 DEF Aligned
<1>. QED  BY <1>1, <1>2, <1>3, <1>4, <1>5, <1>6, TokensStep

\* An event that is dispatched is of the last token consumed.
LEMMA NextOrder ==
  ASSUME LoopInv, Order, Aligned', NextEvent
  PROVE  UpTo(log', consumed') /\ Consumed'
<1>t. /\ TypeOK /\ Queued /\ log \in Seq(Delivered) /\ consumed \in Nat /\ Len(log) \in Nat
      /\ tokens \in Seq(Tokens) /\ UNCHANGED fed
  BY DEF LoopInv, TypeInv, TypeOK, NextEvent, fedVars
<1>1. PICK queue \in Suffixes \cup Bursts :
        /\ queue # << >> /\ pending' = Tail(queue)
        /\ \/ queue = pending /\ UNCHANGED <<tokens, consumed, coreError>>
           \/ /\ pending = << >> /\ tokens # << >> /\ queue = EventsOf(Head(tokens))
              /\ queue \in Bursts
              /\ tokens' = Tail(tokens) /\ consumed' = consumed + 1
        /\ \/ Dispatch(Head(queue), consumed') /\ UNCHANGED <<error, failVars>>
           \/ DropEvent
  BY <1>t, NextOf
<1>q. queue \in Seq(Events) /\ Head(queue) \in Events
  <2>1. /\ <<"Text">> \in Seq(Events) /\ <<"Declaration">> \in Seq(Events)
        /\ <<"External">> \in Seq(Events) /\ << >> \in Seq(Events)
        /\ <<"StartNamespace", "EndNamespace">> \in Seq(Events)
        /\ <<"StartNamespace", "StartElement", "EndElement", "EndNamespace">> \in Seq(Events)
    BY DEF Events, TagEvents
  <2>2. /\ <<"EndNamespace">> \in Seq(Events) /\ <<"EndElement", "EndNamespace">> \in Seq(Events)
        /\ <<"StartElement", "EndElement", "EndNamespace">> \in Seq(Events)
    BY DEF Events, TagEvents
  <2>3. \A q \in Suffixes \cup Bursts : q \in Seq(Events)
    BY <2>1, <2>2 DEF Suffixes, Bursts
  <2>. QED  BY <1>1, <2>3, Taken
<1>2. /\ consumed' \in Nat /\ consumed' # 0 /\ consumed <= consumed'
      /\ \A n \in 1..consumed : n \in 1..consumed'
  BY <1>1, <1>t DEF Order, Aligned
<1>3. UpTo(log, consumed')
  BY <1>2 DEF Order, UpTo
<1>4. CASE DropEvent
  <2>1. PICK code \in {"no_memory", "limit"} : Fail(code)
    BY <1>4 DEF DropEvent
  <2>2. Dropped'
    BY <2>1 DEF Fail, Dropped
  <2>. QED  BY <1>3, <1>4, <2>2 DEF DropEvent, logVars, Consumed
<1>5. CASE Dispatch(Head(queue), consumed') /\ UNCHANGED <<error, failVars>>
  <2>1. log' = Append(log, <<consumed', Head(queue)>>)
    BY <1>5 DEF Dispatch
  <2>2. /\ log' \in Seq(Delivered) /\ Len(log') = Len(log) + 1
        /\ log'[Len(log) + 1] = <<consumed', Head(queue)>> /\ \A i \in 1..Len(log) : log'[i] = log[i]
    BY <1>t, <1>2, <1>q, <2>1, Appended
  <2>3. UpTo(log', consumed')
    <3>1. \A i \in 1..Len(log') : i \in 1..Len(log) \/ i = Len(log) + 1
      BY <1>t, <2>2
    <3>2. log'[Len(log) + 1][1] = consumed' /\ consumed' \in 1..consumed'
      BY <1>2, <2>2
    <3>3. \A i \in 1..Len(log') : log'[i][1] \in 1..consumed'
      BY <1>3, <2>2, <3>1, <3>2 DEF UpTo
    <3>4. ASSUME NEW i \in 1..Len(log'), NEW j \in 1..Len(log'), i < j
          PROVE  log'[i][1] <= log'[j][1]
      <4>1. CASE j \in 1..Len(log)
        <5>1. i \in 1..Len(log)
          BY <1>t, <3>1, <3>4, <4>1
        <5>. QED  BY <1>3, <2>2, <3>4, <4>1, <5>1 DEF UpTo
      <4>2. CASE j = Len(log) + 1
        BY <1>2, <3>2, <3>3, <4>2
      <4>. QED  BY <3>1, <4>1, <4>2
    <3>. QED  BY <3>3, <3>4 DEF UpTo
  <2>4. ASSUME ~Dropped', NEW n \in 1..consumed'
        PROVE  Sent(log', n, IF n = consumed' THEN pending' ELSE << >>, EventsOf(fed'[n]))
    <3>1. ~Dropped
      BY <1>5, <2>4 DEF Dropped, failVars
    <3>2. CASE n # consumed'
      <4>1. n \in 1..consumed /\ (n = consumed => pending = << >>)
        BY <1>1, <1>t, <1>2, <2>4, <3>2
      <4>2. Sent(log, n, << >>, EventsOf(fed[n]))
        BY <3>1, <4>1 DEF Order, Consumed
      <4>. QED  BY <1>q, <1>t, <1>2, <2>1, <3>2, <4>2, SentOther
    <3>3. CASE n = consumed'
      <4>1. Sent(log, n, queue, EventsOf(fed[n]))
        <5>1. CASE queue = pending /\ UNCHANGED consumed
          BY <3>1, <3>3, <5>1, <2>4 DEF Order, Consumed
        <5>2. CASE /\ tokens # << >> /\ queue = EventsOf(Head(tokens)) /\ consumed' = consumed + 1
          <6>1. EventsOf(fed[consumed + 1]) = EventsOf(tokens[1]) /\ Head(tokens) = tokens[1]
            <7>1. 1 \in 1..Len(tokens)
              BY <1>t, <5>2, EmptySeq
            <7>. QED  BY <1>t, <5>2, <7>1 DEF Order, Aligned
          <6>2. \A i \in 1..Len(log) : log[i][1] # n
            <7>1. n \notin 1..consumed
              BY <1>t, <3>3, <5>2
            <7>. QED  BY <7>1 DEF Order, UpTo
          <6>. QED  BY <1>q, <1>t, <3>3, <5>2, <6>1, <6>2, SentNone
        <5>. QED  BY <1>1, <5>1, <5>2
      <4>2. UpTo(log, n)
        BY <1>3, <3>3
      <4>3. Sent(Append(log, <<n, Head(queue)>>), n, Tail(queue), EventsOf(fed[n]))
        BY <1>1, <1>q, <1>t, <4>1, <4>2, SentNext
      <4>. QED  BY <1>1, <1>t, <2>1, <3>3, <4>3
    <3>. QED  BY <3>2, <3>3
  <2>. QED  BY <2>3, <2>4 DEF Consumed
<1>. QED  BY <1>1, <1>4, <1>5

LEMMA OrderStep == LoopInv /\ Order /\ [Next]_vars => Order'
<1>. SUFFICES ASSUME LoopInv, Order, [Next]_vars PROVE UpTo(log', consumed') /\ Consumed'
  BY AlignedStep DEF Order
<1>t. /\ TypeOK /\ Queued /\ Waiting /\ GuardInv
      /\ tokens \in Seq(Tokens) /\ fed \in Seq(Tokens) /\ consumed \in Nat
      /\ log \in Seq(Delivered) /\ Aligned'
  BY AlignedStep DEF LoopInv, TypeInv, TypeOK, Order
<1>1. CASE ClearDocument
  <2>1. Len(<< >>) = 0 /\ 1..0 = {} /\ consumed' = 0 /\ log' = << >>
    BY <1>1, EmptySeq DEF ClearDocument
  <2>. QED  BY <2>1 DEF UpTo, Consumed
<1>2. CASE NextEvent
  BY <1>2, <1>t, NextOrder
<1>3. CASE AcceptEncoding
  <2>1. /\ tokens # << >> /\ Head(tokens) = "unknown" /\ pending = << >>
    BY <1>3, <1>t, OnlyFrame DEF AcceptEncoding, Waiting, FrameKinds
  <2>2. consumed' = consumed + 1 /\ UNCHANGED <<pending, fed, log, failures>>
    BY <1>3 DEF AcceptEncoding, fedVars, logVars, failVars
  <2>3. UpTo(log', consumed')
    BY <1>t, <2>2 DEF Order, UpTo
  <2>4. ASSUME ~Dropped', NEW n \in 1..consumed'
        PROVE  Sent(log', n, << >>, EventsOf(fed'[n]))
    <3>1. CASE n \in 1..consumed
      <4>1. ~Dropped
        BY <2>2, <2>4 DEF Dropped
      <4>. QED  BY <2>1, <2>2, <3>1, <4>1 DEF Order, Consumed
    <3>2. CASE n = consumed + 1
      <4>1. EventsOf(fed[n]) = << >>
        <5>1. 1 \in 1..Len(tokens) /\ tokens[1] = "unknown"
          BY <1>t, <2>1, EmptySeq
        <5>2. EventsOf("unknown") = << >>
          BY DEF EventsOf
        <5>. QED  BY <3>2, <5>1, <5>2 DEF Order, Aligned
      <4>2. \A i \in 1..Len(log) : log[i][1] # n
        <5>1. n \notin 1..consumed
          BY <1>t, <3>2
        <5>. QED  BY <5>1 DEF Order, UpTo
      <4>3. << >> \in Seq(Events)
        BY EmptySeqs
      <4>. QED  BY <1>t, <2>2, <4>1, <4>2, <4>3, SentNone
    <3>. QED  BY <1>t, <2>2, <3>1, <3>2
  <2>. QED  BY <2>1, <2>2, <2>3, <2>4 DEF Consumed
<1>4. CASE ~ClearDocument /\ ~NextEvent /\ ~AcceptEncoding
  <2>1. UNCHANGED <<log, consumed, pending>>
    BY <1>4, LogStep, PendingStep DEF logVars
  <2>2. \A n \in 1..consumed : fed'[n] = fed[n]
    <3>1. Len(fed) \in Nat /\ Len(tokens) \in Nat /\ Len(fed) = consumed + Len(tokens)
      BY <1>t DEF Order, Aligned
    <3>2. ASSUME NEW chunk \in Input, fed' = fed \o chunk PROVE \A n \in 1..Len(fed) : fed'[n] = fed[n]
      BY <1>t, <3>2, InputType, ConcatProperties
    <3>3. UNCHANGED fed \/ \E chunk \in Input : fed' = fed \o chunk
      BY <1>4, TokensStep
    <3>4. \A n \in 1..consumed : n \in 1..Len(fed)
      BY <1>t, <3>1
    <3>. QED  BY <3>2, <3>3, <3>4
  <2>3. ~Dropped' => ~Dropped
    BY <1>4, FailuresStep DEF Dropped
  <2>. QED  BY <2>1, <2>2, <2>3 DEF Order, Consumed
<1>. QED  BY <1>1, <1>2, <1>3, <1>4

\* Whatever the application calls, stops and changes inside and between its
\* callbacks, the events of every token come in order, each once
\* (next_event_scoped, run_events).
THEOREM EventsCorrect == Spec => []EventsInOrder
<1>1. Init => Order
  <2>. SUFFICES ASSUME Init PROVE Order
    OBVIOUS
  <2>1. /\ Len(<< >>) = 0 /\ 1..0 = {} /\ consumed = 0 /\ log = << >> /\ tokens = << >>
        /\ fed = << >> /\ pending = << >>
    BY EmptySeq DEF Init
  <2>2. Aligned
    BY <2>1 DEF Aligned
  <2>3. UpTo(log, consumed) /\ Consumed
    BY <2>1 DEF UpTo, Consumed
  <2>. QED  BY <2>2, <2>3 DEF Order
<1>2. Order => EventsInOrder
  BY DEF Order, Aligned, UpTo, Consumed, Sent, RunOf, EventsIn, EventsInOrder
<1>. QED  BY <1>1, <1>2, LoopInit, LoopStep, OrderStep, PTL DEF Spec

-----------------------------------------------------------------------------
(***************************************************************************)
(* Raw text in the order of the input                                      *)
(***************************************************************************)

\* What the default handler got and will get.
All == fragmentLog \o defaultPending

Chain(s) ==
  /\ s # << >> => Begins(s[1])
  /\ \A i \in 2..Len(s) : Follows(s[i], s[i - 1])

\* One more piece.
LEMMA ChainAppend ==
  ASSUME NEW s \in Seq(Pieces), NEW p \in Pieces, Chain(s),
         s = << >> => Begins(p), s # << >> => Follows(p, s[Len(s)])
  PROVE  Chain(Append(s, p)) /\ Append(s, p) \in Seq(Pieces)
<1>. DEFINE t == Append(s, p)
<1>1. /\ t \in Seq(Pieces) /\ Len(s) \in Nat /\ Len(t) = Len(s) + 1 /\ t[Len(s) + 1] = p
      /\ \A i \in 1..Len(s) : t[i] = s[i]
  BY AppendProperties
<1>. HIDE DEF t
<1>2. Begins(t[1])
  <2>1. CASE s = << >>
    <3>1. Len(s) = 0
      BY <2>1, EmptySeq
    <3>. QED  BY <1>1, <2>1, <3>1
  <2>2. CASE s # << >>
    <3>1. 1 \in 1..Len(s)
      BY <2>2, <1>1, EmptySeq
    <3>. QED  BY <1>1, <2>2, <3>1 DEF Chain
  <2>. QED  BY <2>1, <2>2
<1>3. ASSUME NEW i \in 2..Len(t) PROVE Follows(t[i], t[i - 1])
  <2>1. CASE i \in 2..Len(s)
    <3>1. i \in 1..Len(s) /\ i - 1 \in 1..Len(s)
      BY <1>1, <2>1
    <3>. QED  BY <1>1, <2>1, <3>1 DEF Chain
  <2>2. CASE i = Len(s) + 1
    <3>1. Len(s) \in 1..Len(s) /\ i - 1 = Len(s) /\ s # << >>
      BY <1>1, <1>3, <2>2, EmptySeq
    <3>. QED  BY <1>1, <2>2, <3>1
  <2>. QED  BY <1>1, <1>3, <2>1, <2>2
<1>. QED  BY <1>1, <1>2, <1>3 DEF Chain, t

\* The pieces left out are the last ones.
LEMMA ChainPrefix ==
  ASSUME NEW s \in Seq(Pieces), NEW t \in Seq(Pieces), Chain(s \o t)
  PROVE  Chain(s)
<1>1. /\ Len(s \o t) = Len(s) + Len(t) /\ Len(s) \in Nat /\ Len(t) \in Nat
      /\ \A i \in 1..Len(s) : (s \o t)[i] = s[i]
  BY ConcatProperties
<1>2. ASSUME s # << >> PROVE Begins(s[1])
  <2>1. 1 \in 1..Len(s) /\ Len(s \o t) # 0
    BY <1>1, <1>2, EmptySeq
  <2>2. s \o t # << >>
    BY <2>1, EmptySeq
  <2>. QED  BY <1>1, <2>1, <2>2 DEF Chain
<1>3. ASSUME NEW i \in 2..Len(s) PROVE Follows(s[i], s[i - 1])
  <2>1. i \in 1..Len(s) /\ i - 1 \in 1..Len(s) /\ i \in 2..Len(s \o t)
    BY <1>1, <1>3
  <2>. QED  BY <1>1, <2>1 DEF Chain
<1>. QED  BY <1>2, <1>3 DEF Chain

\* Pieces of this document, of tokens consumed.
Within(s) == \A i \in 1..Len(s) : s[i][1] = generation /\ s[i][2] \in 1..consumed

\* No piece of the last token.
Unread(s) == \A i \in 1..Len(s) : s[i][2] # consumed

Raw ==
  /\ Chain(All) /\ Within(All)
  /\ pending # << >> /\ Head(pending) = "StartElement" => Unread(All)
  /\ \A i \in 1..Len(defaultPending) : log # << >> /\ defaultPending[i][2] = Final(log)[1]

\* What a step does to the pieces still to be delivered.
LEMMA PiecesStep ==
  [Next]_vars => \/ ClearDocument \/ NextEvent \/ DrainFragments
                 \/ UNCHANGED <<defaultPending, generation>>
<1>. USE DEF documentVars, fedVars, defaultVars
<1>1. UNCHANGED vars => UNCHANGED <<defaultPending, generation>>
  BY DEF vars
<1>2. Requests => ClearDocument \/ UNCHANGED <<defaultPending, generation>>
  BY DEF Requests, Parse, GetBuffer, ParseBuffer, Resume, Reset, Free,
      Refuse, StaysFailed, FeedFails, Feed, Enter
<1>3. Calls => UNCHANGED <<defaultPending, generation>>
  BY DEF Calls, StopParser, SetHandler, DefaultCurrent, Refuse
<1>4. Loop => NextEvent \/ DrainFragments \/ UNCHANGED <<defaultPending, generation>>
  BY DEF Loop, LoopFails, LoopPauses, CoreFails, LoopEnds, AskEncoding, AskConversion
<1>5. Return => ClearDocument \/ UNCHANGED <<defaultPending, generation>>
  BY DEF Return, ReturnEvent, ReturnExternal, ReturnDefault, ReturnConversion, AcceptEncoding,
    RefuseEncoding, NoEncoding, ReturnRelease
<1>. QED  BY <1>1, <1>2, <1>3, <1>4, <1>5 DEF Next

LEMMA ThreeAppended ==
  ASSUME NEW S, NEW s \in Seq(S), NEW a \in S, NEW b \in S, NEW c \in S
  PROVE  s \o <<a, b, c>> = Append(Append(Append(s, a), b), c)
OBVIOUS

LEMMA FunctionSeq ==
  ASSUME NEW S, NEW n \in Nat, NEW f \in [1..n -> S]
  PROVE  f \in Seq(S) /\ Len(f) = n
OBVIOUS

LEMMA OneAppended ==
  ASSUME NEW S, NEW s \in Seq(S), NEW a \in S
  PROVE  /\ s \o <<a>> = Append(s, a) /\ << >> \o <<a>> = <<a>>
         /\ s \o << >> = s /\ << >> \o s = s
OBVIOUS

\* What a dispatch adds to the pieces: none, the raw text, or the fragments of
\* a declaration.
LEMMA DispatchPieces ==
  ASSUME TypeOK, NEW event \in Events, NEW n \in Nat, defaultPending = << >>, Dispatch(event, n)
  PROVE  LET Piece(name) == <<generation, n, name>> IN
         \/ All' = All /\ defaultPending' = << >>
         \/ /\ event \notin {"StartNamespace", "EndElement", "EndNamespace"}
            /\ \/ /\ All' = Append(All, Piece("raw"))
                  /\ defaultPending' \in {<< >>, <<Piece("raw")>>}
               \/ /\ All' = Append(Append(Append(All, Piece("keyword")), Piece("body")), Piece("close"))
                  /\ defaultPending' = <<Piece("keyword"), Piece("body"), Piece("close")>>
<1>. DEFINE Piece(name) == <<generation, n, name>>
<1>t. fragmentLog \in Seq(Pieces) /\ generation \in Nat
  BY DEF TypeOK
<1>p. Piece("raw") \in Pieces /\ Piece("keyword") \in Pieces /\ Piece("body") \in Pieces
      /\ Piece("close") \in Pieces
  <2>1. Len(Fragments) = 3 /\ Fragments[1] = "keyword" /\ Fragments[2] = "body" /\ Fragments[3] = "close"
    BY DEF Fragments
  <2>2. {"raw", "keyword", "body", "close"} \subseteq {"raw"} \cup {Fragments[i] : i \in 1..Len(Fragments)}
    <3>1. 1 \in 1..3 /\ 2 \in 1..3 /\ 3 \in 1..3
      OBVIOUS
    <3>. QED  BY <2>1, <3>1
  <2>. QED  BY <1>t, <2>2 DEF Pieces
<1>a. All = fragmentLog
  BY <1>t, OneAppended, <1>p DEF All
<1>1. CASE UNCHANGED <<defaultPending, fragmentLog>>
  BY <1>1 DEF All
<1>2. CASE /\ event = "StartElement" /\ fragmentLog' = Append(fragmentLog, Piece("raw"))
           /\ UNCHANGED defaultPending
  <2>1. Append(fragmentLog, Piece("raw")) \in Seq(Pieces)
    BY <1>t, <1>p, AppendType
  <2>2. All' = Append(fragmentLog, Piece("raw"))
    BY <1>2, <1>p, <2>1, OneAppended DEF All
  <2>. QED  BY <1>2, <1>a, <2>2
<1>3. CASE /\ event \notin {"StartNamespace", "EndNamespace", "EndElement", "StartElement"}
           /\ defaultPending' = defaultPending \o
                (IF event = "Declaration"
                 THEN [i \in 1..Len(Fragments) |-> Piece(Fragments[i])]
                 ELSE <<Piece("raw")>>)
           /\ UNCHANGED fragmentLog
  <2>1. CASE event = "Declaration"
    <3>1. [i \in 1..Len(Fragments) |-> Piece(Fragments[i])]
            = <<Piece("keyword"), Piece("body"), Piece("close")>>
      <4>1. Fragments = <<"keyword", "body", "close">> /\ Len(Fragments) = 3
        BY DEF Fragments
      <4>. DEFINE f == [i \in 1..Len(Fragments) |-> Piece(Fragments[i])]
                  g == <<Piece("keyword"), Piece("body"), Piece("close")>>
      <4>2. f \in [1..3 -> Pieces] /\ f[1] = Piece("keyword") /\ f[2] = Piece("body") /\ f[3] = Piece("close")
        BY <4>1, <1>p
      <4>3. g \in Seq(Pieces) /\ Len(g) = 3 /\ g[1] = Piece("keyword") /\ g[2] = Piece("body")
            /\ g[3] = Piece("close")
        BY <1>p
      <4>. HIDE DEF f, g
      <4>4. f \in Seq(Pieces) /\ Len(f) = 3
        BY <4>2, FunctionSeq
      <4>5. \A i \in 1..3 : f[i] = g[i]
        <5>1. \A i \in 1..3 : i = 1 \/ i = 2 \/ i = 3
          OBVIOUS
        <5>. QED  BY <4>2, <4>3, <5>1
      <4>6. f = g
        BY <4>3, <4>4, <4>5, SeqEqual
      <4>. QED  BY <4>6 DEF f, g
    <3>2. defaultPending' = <<Piece("keyword"), Piece("body"), Piece("close")>>
      <4>1. <<Piece("keyword"), Piece("body"), Piece("close")>> \in Seq(Pieces)
        BY <1>p
      <4>. QED  BY <1>3, <1>p, <2>1, <3>1, <4>1, OneAppended
    <3>3. All' = fragmentLog \o <<Piece("keyword"), Piece("body"), Piece("close")>>
      BY <1>3, <3>2 DEF All
    <3>4. fragmentLog \o <<Piece("keyword"), Piece("body"), Piece("close")>>
            = Append(Append(Append(fragmentLog, Piece("keyword")), Piece("body")), Piece("close"))
      <4>1. PICK a \in Pieces, b \in Pieces, c \in Pieces :
              a = Piece("keyword") /\ b = Piece("body") /\ c = Piece("close")
        BY <1>p
      <4>2. fragmentLog \o <<a, b, c>> = Append(Append(Append(fragmentLog, a), b), c)
        BY <1>t, ThreeAppended
      <4>. QED  BY <4>1, <4>2
    <3>. QED  BY <1>3, <1>a, <3>2, <3>3, <3>4
  <2>2. CASE event # "Declaration"
    <3>1. defaultPending' = <<Piece("raw")>>
      BY <1>3, <1>p, <1>t, <2>2, OneAppended
    <3>2. All' = fragmentLog \o <<Piece("raw")>>
      BY <1>3, <3>1 DEF All
    <3>. QED  BY <1>3, <1>a, <1>p, <1>t, <3>1, <3>2, OneAppended
  <2>. QED  BY <2>1, <2>2
<1>. QED  BY <1>1, <1>2, <1>3 DEF Dispatch, defaultVars

\* The pieces of a token follow those of the tokens before it.
LEMMA PiecesFollow ==
  ASSUME TypeOK, NEW s \in Seq(Pieces), NEW n \in Nat, Chain(s), \A i \in 1..Len(s) : s[i][2] < n
  PROVE  LET Piece(name) == <<generation, n, name>>
             one == Append(s, Piece("raw"))
             three == Append(Append(Append(s, Piece("keyword")), Piece("body")), Piece("close"))
         IN
         /\ one \in Seq(Pieces) /\ Chain(one)
         /\ \A i \in 1..Len(one) : (i \in 1..Len(s) /\ one[i] = s[i]) \/ one[i] = Piece("raw")
         /\ three \in Seq(Pieces) /\ Chain(three)
         /\ \A i \in 1..Len(three) : \/ i \in 1..Len(s) /\ three[i] = s[i]
                                    \/ three[i] \in {Piece("keyword"), Piece("body"), Piece("close")}
<1>f. Fragments[1] = "keyword" /\ Fragments[2] = "body" /\ Fragments[3] = "close" /\ Len(Fragments) = 3
  BY DEF Fragments
<1>p. \A name \in {"raw", "keyword", "body", "close"} : <<generation, n, name>> \in Pieces
  <2>1. {"raw", "keyword", "body", "close"} \subseteq {"raw"} \cup {Fragments[i] : i \in 1..Len(Fragments)}
    <3>1. 1 \in 1..3 /\ 2 \in 1..3 /\ 3 \in 1..3
      OBVIOUS
    <3>. QED  BY <1>f, <3>1
  <2>2. generation \in Nat
    BY DEF TypeOK
  <2>. QED  BY <2>1, <2>2 DEF Pieces
<1>1. PICK r \in Pieces, a \in Pieces, b \in Pieces, c \in Pieces :
        /\ r = <<generation, n, "raw">> /\ a = <<generation, n, "keyword">>
        /\ b = <<generation, n, "body">> /\ c = <<generation, n, "close">>
  BY <1>p
<1>2. /\ r[2] = n /\ r[3] = "raw" /\ a[2] = n /\ a[3] = "keyword"
      /\ b[2] = n /\ b[3] = "body" /\ c[2] = n /\ c[3] = "close"
  BY <1>1
<1>3. Begins(r) /\ Begins(a)
  BY <1>2, <1>f DEF Begins
<1>4. Follows(b, a) /\ Follows(c, b)
  <2>1. 1 \in 1..3 - 1 /\ 2 \in 1..3 - 1 /\ 1 + 1 = 2 /\ 2 + 1 = 3
    OBVIOUS
  <2>. QED  BY <1>2, <1>f, <2>1 DEF Follows
<1>5. s # << >> => Follows(r, s[Len(s)]) /\ Follows(a, s[Len(s)])
  <2>1. s # << >> => Len(s) \in 1..Len(s)
    BY EmptySeq
  <2>. QED  BY <1>2, <1>3, <2>1 DEF Follows
<1>6. ASSUME NEW t \in Seq(Pieces), NEW e \in Pieces
      PROVE  /\ Append(t, e) # << >> /\ Append(t, e)[Len(Append(t, e))] = e
             /\ \A i \in 1..Len(Append(t, e)) : (i \in 1..Len(t) /\ Append(t, e)[i] = t[i]) \/ Append(t, e)[i] = e
  <2>1. /\ Len(Append(t, e)) = Len(t) + 1 /\ Len(t) \in Nat /\ Append(t, e) # << >>
        /\ Append(t, e)[Len(t) + 1] = e /\ \A i \in 1..Len(t) : Append(t, e)[i] = t[i]
    BY AppendProperties
  <2>. QED  BY <2>1
<1>7. Chain(Append(s, r)) /\ Append(s, r) \in Seq(Pieces)
  BY <1>3, <1>5, ChainAppend
<1>8. Chain(Append(s, a)) /\ Append(s, a) \in Seq(Pieces)
  BY <1>3, <1>5, ChainAppend
<1>9. Chain(Append(Append(s, a), b)) /\ Append(Append(s, a), b) \in Seq(Pieces)
  BY <1>4, <1>6, <1>8, ChainAppend
<1>10. /\ Chain(Append(Append(Append(s, a), b), c))
       /\ Append(Append(Append(s, a), b), c) \in Seq(Pieces)
  <2>1. PICK u \in Seq(Pieces) : u = Append(Append(s, a), b)
    BY <1>9
  <2>2. Chain(u) /\ u # << >> /\ u[Len(u)] = b
    BY <1>6, <1>8, <1>9, <2>1
  <2>3. Chain(Append(u, c)) /\ Append(u, c) \in Seq(Pieces)
    BY <1>4, <2>2, ChainAppend
  <2>. QED  BY <2>1, <2>3
<1>11. \A i \in 1..Len(Append(Append(Append(s, a), b), c)) :
         \/ i \in 1..Len(s) /\ Append(Append(Append(s, a), b), c)[i] = s[i]
         \/ Append(Append(Append(s, a), b), c)[i] \in {a, b, c}
  <2>1. \A i \in 1..Len(Append(s, a)) : (i \in 1..Len(s) /\ Append(s, a)[i] = s[i]) \/ Append(s, a)[i] = a
    BY <1>6
  <2>2. \A i \in 1..Len(Append(Append(s, a), b)) :
          \/ i \in 1..Len(Append(s, a)) /\ Append(Append(s, a), b)[i] = Append(s, a)[i]
          \/ Append(Append(s, a), b)[i] = b
    BY <1>6, <1>8
  <2>3. \A i \in 1..Len(Append(Append(Append(s, a), b), c)) :
          \/ /\ i \in 1..Len(Append(Append(s, a), b))
             /\ Append(Append(Append(s, a), b), c)[i] = Append(Append(s, a), b)[i]
          \/ Append(Append(Append(s, a), b), c)[i] = c
    BY <1>6, <1>9
  <2>. QED  BY <2>1, <2>2, <2>3
<1>12. \A i \in 1..Len(Append(s, r)) : (i \in 1..Len(s) /\ Append(s, r)[i] = s[i]) \/ Append(s, r)[i] = r
  BY <1>6
<1>. QED  BY <1>1, <1>7, <1>10, <1>11, <1>12

\* What the default handler is to get of an event comes after all it got.
LEMMA NextRaw ==
  ASSUME LoopInv, Aligned, Raw, NextEvent
  PROVE  Raw'
<1>t. /\ TypeOK /\ Queued /\ log \in Seq(Delivered) /\ consumed \in Nat /\ UNCHANGED generation
      /\ fragmentLog \in Seq(Pieces) /\ defaultPending \in Seq(Pieces) /\ generation \in Nat
  BY DEF LoopInv, TypeInv, TypeOK, NextEvent, fedVars
<1>1. PICK queue \in Suffixes \cup Bursts :
        /\ queue # << >> /\ pending' = Tail(queue) /\ defaultPending = << >>
        /\ \/ queue = pending /\ UNCHANGED <<tokens, consumed, coreError>>
           \/ queue \in Bursts /\ consumed' = consumed + 1
        /\ Dispatch(Head(queue), consumed') \/ DropEvent
  BY <1>t, NextOf
<1>2. PICK n \in Nat : n = consumed' /\ consumed <= n
  BY <1>1, <1>t
<1>3. PICK event \in Events : event = Head(queue)
  BY <1>1, Taken
<1>a. All \in Seq(Pieces) /\ Within(All) /\ Chain(All)
  BY <1>t DEF All, Raw
<1>4. /\ \A i \in 1..Len(All) : All[i][1] = generation' /\ All[i][2] \in 1..n
      /\ consumed' = consumed + 1 => \A i \in 1..Len(All) : All[i][2] < n
  BY <1>a, <1>t, <1>2 DEF Within
<1>5. (pending' # << >> /\ Head(pending') = "StartElement")
        => event = "StartNamespace" /\ consumed' = consumed + 1
  <2>1. "StartNamespace" = Head(queue) => queue \notin Suffixes
    <3>1. /\ Head(<<"EndNamespace">>) = "EndNamespace"
          /\ Head(<<"EndElement", "EndNamespace">>) = "EndElement"
          /\ Head(<<"StartElement", "EndElement", "EndNamespace">>) = "StartElement"
      BY HeadTailOf
    <3>2. queue \in Suffixes => Head(queue) \in {"EndNamespace", "EndElement", "StartElement"}
      BY <1>1, <3>1 DEF Suffixes
    <3>. QED  BY <3>2
  <2>. QED  BY <1>1, <1>3, <1>t, <2>1, Taken DEF Queued
<1>6. CASE All' = All /\ defaultPending' = << >>
  <2>1. Chain(All') /\ Within(All)'
    BY <1>2, <1>4, <1>6, <1>a DEF Within
  <2>2. (pending' # << >> /\ Head(pending') = "StartElement") => Unread(All)'
    BY <1>2, <1>4, <1>5, <1>6 DEF Unread
  <2>3. 1..Len(<< >>) = {}
    BY EmptySeq
  <2>4. \A i \in 1..Len(defaultPending') : log' # << >> /\ defaultPending'[i][2] = Final(log')[1]
    BY <1>6, <2>3
  <2>. QED  BY <2>1, <2>2, <2>4 DEF Raw, Chain
<1>7. CASE DropEvent
  BY <1>1, <1>6, <1>7 DEF DropEvent, All, defaultVars, logVars
<1>8. CASE Dispatch(event, n)
  <2>. DEFINE Piece(name) == <<generation, n, name>>
              one == Append(All, Piece("raw"))
              three == Append(Append(Append(All, Piece("keyword")), Piece("body")), Piece("close"))
  <2>1. \/ All' = All /\ defaultPending' = << >>
        \/ /\ event \notin {"StartNamespace", "EndElement", "EndNamespace"}
           /\ \/ All' = one /\ defaultPending' \in {<< >>, <<Piece("raw")>>}
              \/ /\ All' = three
                 /\ defaultPending' = <<Piece("keyword"), Piece("body"), Piece("close")>>
    BY <1>1, <1>8, <1>t, DispatchPieces
  <2>2. CASE event \notin {"StartNamespace", "EndElement", "EndNamespace"}
    <3>1. \A i \in 1..Len(All) : All[i][2] < n
      <4>1. CASE consumed' = consumed + 1
        BY <1>4, <4>1
      <4>2. CASE queue = pending /\ UNCHANGED consumed
        <5>1. event = "StartElement" /\ pending # << >> /\ Head(pending) = "StartElement"
          <6>1. event \in TagEvents
            BY <1>1, <1>3, <1>t, <4>2, SuffixTags DEF Queued
          <6>. QED  BY <1>1, <1>3, <2>2, <4>2, <6>1 DEF TagEvents
        <5>2. Unread(All)
          BY <5>1 DEF Raw
        <5>. QED  BY <1>2, <1>4, <4>2, <5>2 DEF Unread
      <4>. QED  BY <1>1, <4>1, <4>2
    <3>2. /\ one \in Seq(Pieces) /\ Chain(one)
          /\ \A i \in 1..Len(one) : (i \in 1..Len(All) /\ one[i] = All[i]) \/ one[i] = Piece("raw")
          /\ three \in Seq(Pieces) /\ Chain(three)
          /\ \A i \in 1..Len(three) : \/ i \in 1..Len(All) /\ three[i] = All[i]
                                     \/ three[i] \in {Piece("keyword"), Piece("body"), Piece("close")}
      BY <1>a, <1>t, <3>1, PiecesFollow
    <3>3. n \in 1..n
      <4>1. n # 0
        <5>1. CASE consumed' = consumed + 1
          BY <1>2, <1>t, <5>1
        <5>2. CASE queue = pending /\ UNCHANGED consumed
          BY <1>1, <1>2, <5>2 DEF Aligned
        <5>. QED  BY <1>1, <5>1, <5>2
      <4>. QED  BY <4>1
    <3>4. \A name : Piece(name)[1] = generation' /\ Piece(name)[2] = n
      BY <1>t
    <3>5. log' # << >> /\ Final(log')[1] = n
      BY <1>8, <1>t, Logged
    <3>6. ASSUME All' \in {one, three}
          PROVE  Chain(All') /\ Within(All)'
      <4>1. Chain(All')
        BY <3>2, <3>6
      <4>2. \A i \in 1..Len(All') :
              \/ i \in 1..Len(All) /\ All'[i] = All[i]
              \/ \E name \in {"raw", "keyword", "body", "close"} : All'[i] = Piece(name)
        BY <3>2, <3>6
      <4>3. \A i \in 1..Len(All') : All'[i][1] = generation' /\ All'[i][2] \in 1..n
        <5>. SUFFICES ASSUME NEW i \in 1..Len(All') PROVE All'[i][1] = generation' /\ All'[i][2] \in 1..n
          OBVIOUS
        <5>1. CASE i \in 1..Len(All) /\ All'[i] = All[i]
          BY <1>4, <5>1
        <5>2. CASE \E name \in {"raw", "keyword", "body", "close"} : All'[i] = Piece(name)
          BY <3>3, <3>4, <5>2
        <5>. QED  BY <4>2, <5>1, <5>2
      <4>. QED  BY <1>2, <4>1, <4>3 DEF Within
    <3>7. ASSUME All' = All /\ defaultPending' = << >> PROVE Raw'
      BY <1>6, <3>7
    <3>8. ASSUME defaultPending' \in {<< >>, <<Piece("raw")>>,
                                      <<Piece("keyword"), Piece("body"), Piece("close")>>}
          PROVE  \A i \in 1..Len(defaultPending') : defaultPending'[i][2] = n
      <4>1. /\ 1..Len(<< >>) = {} /\ Len(<<Piece("raw")>>) = 1 /\ <<Piece("raw")>>[1] = Piece("raw")
        BY EmptySeq
      <4>. DEFINE g == <<Piece("keyword"), Piece("body"), Piece("close")>>
      <4>2. /\ Len(g) = 3 /\ g[1] = Piece("keyword") /\ g[2] = Piece("body") /\ g[3] = Piece("close")
        OBVIOUS
      <4>. HIDE DEF g, Piece
      <4>3. \A i \in 1..3 : i = 1 \/ i = 2 \/ i = 3
        OBVIOUS
      <4>4. CASE defaultPending' = << >>
        BY <4>1, <4>4
      <4>5. CASE defaultPending' = <<Piece("raw")>>
        <5>1. \A i \in 1..1 : i = 1
          OBVIOUS
        <5>. QED  BY <3>4, <4>1, <4>5, <5>1
      <4>6. CASE defaultPending' = g
        BY <3>4, <4>2, <4>3, <4>6
      <4>. QED  BY <3>8, <4>4, <4>5, <4>6 DEF g
    <3>9. ~((pending' # << >> /\ Head(pending') = "StartElement"))
      BY <1>5, <2>2
    <3>10. CASE All' \in {one, three} /\ defaultPending' \in {<< >>, <<Piece("raw")>>,
                                      <<Piece("keyword"), Piece("body"), Piece("close")>>}
      BY <3>5, <3>6, <3>8, <3>9, <3>10 DEF Raw, Chain
    <3>. QED  BY <2>1, <3>7, <3>10
  <2>3. CASE event \in {"StartNamespace", "EndElement", "EndNamespace"}
    BY <1>6, <2>1, <2>3
  <2>. QED  BY <2>2, <2>3
<1>. QED  BY <1>1, <1>2, <1>3, <1>7, <1>8

LEMMA RawStep == LoopInv /\ Order /\ Raw /\ [Next]_vars => Raw'
<1>. SUFFICES ASSUME LoopInv, Order, Raw, [Next]_vars PROVE Raw'
  OBVIOUS
<1>t. /\ TypeOK /\ Waiting /\ Aligned /\ consumed \in Nat
      /\ fragmentLog \in Seq(Pieces) /\ defaultPending \in Seq(Pieces)
  BY DEF LoopInv, TypeInv, TypeOK, Order
<1>e. /\ << >> \o << >> = << >> /\ 1..Len(<< >>) = {} /\ 2..Len(<< >>) = {}
  BY EmptySeq
<1>1. CASE ClearDocument
  <2>1. defaultPending' = << >> /\ pending' = << >> /\ All' = << >>
    BY <1>1, <1>e DEF ClearDocument, All
  <2>. QED  BY <1>e, <2>1 DEF Raw, Chain, Within
<1>2. CASE NextEvent
  BY <1>2, <1>t, NextRaw
<1>3. CASE DrainFragments
  <2>1. UNCHANGED <<log, consumed, generation, pending>> /\ defaultPending # << >>
    BY <1>3 DEF DrainFragments, Draining, coreVars, queueVars, fedVars
  <2>2. CASE "default" \in installed
    <3>1. fragmentLog' = Append(fragmentLog, Head(defaultPending)) /\ defaultPending' = Tail(defaultPending)
      BY <1>3, <2>2 DEF DrainFragments
    <3>2. All' = All
      BY <1>t, <2>1, <3>1, MoveHead DEF All
    <3>3. /\ Len(Tail(defaultPending)) = Len(defaultPending) - 1 /\ Len(defaultPending) \in Nat
          /\ \A i \in 1..Len(defaultPending) - 1 : Tail(defaultPending)[i] = defaultPending[i + 1]
      BY <1>t, <2>1, HeadTailProperties, EmptySeq
    <3>4. \A i \in 1..Len(defaultPending') : log' # << >> /\ defaultPending'[i][2] = Final(log')[1]
      <4>1. \A i \in 1..Len(defaultPending) - 1 : i + 1 \in 1..Len(defaultPending)
        BY <3>3
      <4>. QED  BY <2>1, <3>1, <3>3, <4>1 DEF Raw
    <3>. QED  BY <2>1, <3>2, <3>4 DEF Raw, Chain, Within, Unread
  <2>3. CASE "default" \notin installed
    <3>1. fragmentLog' = fragmentLog /\ defaultPending' = << >>
      BY <1>3, <2>3 DEF DrainFragments
    <3>2. All' = fragmentLog
      BY <1>t, <3>1, ConcatEmptySeq DEF All
    <3>3. Chain(All')
      BY <1>t, <3>2, ChainPrefix DEF Raw, All
    <3>4. \A i \in 1..Len(All') : i \in 1..Len(All) /\ All'[i] = All[i]
      <4>1. /\ Len(All) = Len(fragmentLog) + Len(defaultPending)
            /\ Len(fragmentLog) \in Nat /\ Len(defaultPending) \in Nat
            /\ \A i \in 1..Len(fragmentLog) : All[i] = fragmentLog[i]
        BY <1>t, ConcatProperties DEF All
      <4>. QED  BY <3>2, <4>1
    <3>5. Within(All)'
      BY <2>1, <3>4 DEF Raw, Within
    <3>6. pending' # << >> /\ Head(pending') = "StartElement" => Unread(All)'
      BY <2>1, <3>4 DEF Raw, Unread
    <3>. QED  BY <1>e, <3>1, <3>3, <3>5, <3>6 DEF Raw, Chain
  <2>. QED  BY <2>2, <2>3
<1>4. CASE ~ClearDocument /\ ~NextEvent /\ ~DrainFragments
  <2>1. UNCHANGED <<defaultPending, generation>> /\ UNCHANGED logVars
    BY <1>4, LogStep, PiecesStep DEF logVars
  <2>2. pending' # << >> => pending' = pending
    BY <1>4, PendingStep
  <2>3. CASE AcceptEncoding
    <3>1. pending' = << >> /\ consumed' = consumed + 1
      BY <1>t, <2>3, OnlyFrame DEF AcceptEncoding, Waiting, FrameKinds, LoopInv, TypeInv
    <3>2. \A i \in 1..Len(All) : All[i][2] \in 1..consumed => All[i][2] \in 1..consumed'
      BY <1>t, <3>1
    <3>. QED  BY <2>1, <3>1, <3>2 DEF Raw, All, Chain, Within, logVars
  <2>4. CASE ~AcceptEncoding
    <3>1. UNCHANGED consumed
      BY <1>4, <2>4, LogStep
    <3>. QED  BY <2>1, <2>2, <3>1 DEF Raw, All, Chain, Within, Unread, logVars
  <2>. QED  BY <2>3, <2>4
<1>. QED  BY <1>1, <1>2, <1>3, <1>4

\* The default handler gets the raw text of this document in the order of the
\* input, each piece once, a declaration's fragments in order and without gaps,
\* and never behind the event they belong to: whatever stops, refusals and
\* handler changes come between queue_default and drain_default_fragments.
THEOREM FragmentsCorrect == Spec => []FragmentsInOrder
<1>1. Init => Raw
  <2>. SUFFICES ASSUME Init PROVE Raw
    OBVIOUS
  <2>1. /\ fragmentLog = << >> /\ defaultPending = << >> /\ pending = << >>
        /\ << >> \o << >> = << >> /\ 1..Len(<< >>) = {} /\ 2..Len(<< >>) = {}
    BY EmptySeq DEF Init
  <2>. QED  BY <2>1 DEF Raw, All, Chain, Within
<1>2. LoopInv /\ Raw => FragmentsInOrder
  <2>. SUFFICES ASSUME LoopInv, Raw PROVE FragmentsInOrder
    OBVIOUS
  <2>1. defaultPending # << >> => /\ 1 \in 1..Len(defaultPending)
                                 /\ Head(defaultPending) = defaultPending[1]
    BY EmptySeq, HeadTailProperties DEF LoopInv, TypeInv, TypeOK
  <2>. QED  BY <2>1 DEF Raw, All, Chain, Within, FragmentsInOrder
<1>3. Init => Order
  BY EmptySeq DEF Init, Order, Aligned, UpTo, Consumed
<1>. QED  BY <1>1, <1>2, <1>3, LoopInit, LoopStep, OrderStep, RawStep, PTL DEF Spec

=============================================================================
