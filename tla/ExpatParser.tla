---------------------------- MODULE ExpatParser ----------------------------
(***************************************************************************)
(* One parser handle of the Expat-compatible C interface                   *)
(* (crates/xeme_expat/src/lib.rs): the guarded parse loop, the callbacks   *)
(* it makes into the application, and the API calls the application makes  *)
(* between and inside those callbacks.                                     *)
(*                                                                         *)
(* The core parser is what the loop sees of it: a sequence of tokens that  *)
(* have been fed and not consumed, the events of the current token still   *)
(* to be delivered, and a recorded error.  A token is one of               *)
(*   "tag"      an empty element: start/end namespace and element events   *)
(*   "badtag"   a start tag that fails after its namespace event           *)
(*   "text"     character data                                             *)
(*   "decl"     a DTD declaration, which the default handler gets in       *)
(*              several lexical fragments                                  *)
(*   "external" an external entity reference                               *)
(*   "unknown"  a declaration of an encoding the core does not know        *)
(*   "convert"  a byte sequence of an application-defined encoding         *)
(*   "bad"      malformed input                                            *)
(***************************************************************************)
EXTENDS Naturals, Sequences

CONSTANTS
  Chunks,         \* the inputs the application may pass, sequences of tokens:
                  \* Chunks[TRUE] those of an external subset
  HandlerSets,    \* the handlers the application installs before parsing
  Subsets,        \* {"none"}, or with "unmerged": parsers of an external subset too
  StorageMayFail, \* TRUE when allocations and byte budgets may be exhausted
  Changeable,     \* the handlers it sets and clears while parsing
  MaxFeeds,       \* bound: calls that feed input, per document
  MaxCalls,       \* bound: stops, handler changes and DefaultCurrent calls
  MaxGenerations, \* bound: documents parsed on the handle (resets + 1)
  MaxEncodings    \* bound: encoding instances the application creates

Tokens == {"tag", "badtag", "text", "decl", "external",
           "unknown", "convert", "bad"}

Handlers == {"namespace", "start", "end", "text", "decl", "external",
             "default", "unknown"}

ASSUME ChunksAssumption == Chunks \in [BOOLEAN -> SUBSET Seq(Tokens)]
ASSUME HandlersAssumption ==
  HandlerSets \subseteq SUBSET Handlers /\ Changeable \subseteq Handlers
ASSUME FlagsAssumption == Subsets \subseteq {"none", "unmerged"} /\ StorageMayFail \in BOOLEAN
ASSUME BoundsAssumption ==
  /\ MaxFeeds \in Nat /\ MaxCalls \in Nat
  /\ MaxGenerations \in Nat /\ MaxEncodings \in Nat

TagEvents == {"StartNamespace", "StartElement", "EndElement", "EndNamespace"}
Events == TagEvents \cup {"Text", "Declaration", "External"}

\* The events the core queues for one token.
EventsOf(token) ==
  CASE token = "tag"      -> <<"StartNamespace", "StartElement",
                               "EndElement", "EndNamespace">>
    [] token = "badtag"   -> <<"StartNamespace", "EndNamespace">>
    [] token = "text"     -> <<"Text">>
    [] token = "convert"  -> <<"Text">>
    [] token = "decl"     -> <<"Declaration">>
    [] token = "external" -> <<"External">>
    [] OTHER              -> << >>

\* The lexical fragments of a declaration's raw text.
Fragments == <<"keyword", "body", "close">>

States == {"initialized", "parsing", "finished", "suspended"}

\* Errors of processing, which end the document, and of a mere API request.
ParseErrors == {"no_memory", "limit", "bad_token", "unknown_encoding",
                "external", "aborted", "unexpected"}
RequestErrors == {"suspended", "not_suspended", "finished", "not_started",
                  "no_buffer", "invalid_argument", "suspend_pe",
                  "no_memory", "limit"}
Codes == {"none"} \cup ParseErrors \cup RequestErrors

\* Callbacks in progress, innermost last.
FrameKinds == {"event", "external", "fragment", "tagDefault", "current",
               "unknown", "convert", "release"}
DefaultFrames == {"fragment", "tagDefault", "current"}

Controls == {"idle",     \* no guarded operation
             "loop",     \* run_events
             "refused",  \* an encoding was refused; its release callback runs
             "reset",    \* Reset, inside the release callback
             "free",     \* Free, inside the release callback
             "freed"}    \* the handle is gone

VARIABLES
  ctl,              \* which guarded operation runs
  frames,           \* the callbacks on the stack
  busy,             \* the guard that pins the parser
  state,            \* ParsingStatus.parsing
  error,            \* the last reported error code
  parseError,       \* the error that ended this document, or "none"
  bufferLen,        \* length of the writable buffer; 0 when there is none
  defaultDispatch,  \* a default callback is running
  defaultPending,   \* fragments not delivered yet
  installed,        \* handlers that are not NULL
  encoding,         \* the encoding instance the parser owns; 0 when none
  multibyte,        \* that instance has a converter
  subset,           \* external_subset_merged: "merged" or "unmerged";
                    \* "none" when the parser is not that of an external subset
  tokens,           \* core: tokens fed and not consumed
  pending,          \* core: queued events of the consumed token
  coreError,        \* core: recorded error
  coreFinal         \* core: final input was fed

\* History: what the properties are about and the code does not keep.
VARIABLES
  failures,         \* the errors that ended this document
  generation,       \* documents started on this handle
  fed,              \* tokens fed to this document
  feeds,            \* calls that fed them
  consumed,         \* number of tokens consumed
  log,              \* events dispatched: <<token number, event>>
  fragmentLog,      \* fragments delivered: <<document, token number, fragment>>
  calls,            \* calls counted against MaxCalls
  created,          \* encoding instances created
  released,         \* encoding instances released, in order
  result            \* the last result of Parse or Resume

guardVars == <<ctl, frames, busy>>
failVars == <<parseError, failures>>
defaultVars == <<defaultDispatch, defaultPending>>
encodingVars == <<encoding, multibyte, created, released>>
queueVars == <<tokens, pending, consumed>>
coreVars == <<queueVars, coreError, coreFinal>>
fedVars == <<fed, feeds, generation>>
logVars == <<log, fragmentLog>>
documentVars == <<subset, coreVars, fedVars, logVars>>
vars == <<guardVars, state, error, failVars, bufferLen, defaultVars,
          installed, encodingVars, documentVars, calls, result>>

Init ==
  /\ ctl = "idle" /\ frames = << >> /\ busy = FALSE
  /\ state = "initialized"
  /\ error = "none" /\ parseError = "none" /\ failures = {}
  /\ bufferLen = 0 /\ defaultDispatch = FALSE /\ defaultPending = << >>
  /\ installed \in HandlerSets
  /\ encoding = 0 /\ multibyte = FALSE /\ created = 0 /\ released = << >>
  /\ subset \in Subsets /\ tokens = << >> /\ pending = << >> /\ consumed = 0
  /\ coreError = "none" /\ coreFinal = FALSE
  /\ fed = << >> /\ feeds = 0 /\ generation = 1
  /\ log = << >> /\ fragmentLog = << >> /\ calls = 0 /\ result = "none"

\* A child parser that reads an external subset.
ExternalSubset == subset # "none"

\* What the application may feed it.
Input == Chunks[ExternalSubset]

Final(s) == s[Len(s)]
Pop(s) == SubSeq(s, 1, Len(s) - 1)

\* The application runs: nothing is guarded, or a callback is on the stack.
AppRuns == ctl = "idle" \/ frames # << >>

\* begin a callback into the application
Call(frame) == frames' = Append(frames, frame) /\ UNCHANGED <<ctl, busy>>

\* fail_parse
Fail(code) ==
  /\ parseError' = code /\ error' = code
  /\ failures' = failures \cup {code}

\* Variant: leaves the guard set.
FinishKeepsBusy(status) ==
  /\ ctl' = "idle" /\ frames' = << >> /\ result' = status /\ UNCHANGED busy

\* finish_operation: ends the guarded operation.
Finish(status) ==
  /\ ctl' = "idle" /\ frames' = << >> /\ busy' = FALSE /\ result' = status

\* A request that is refused reports an error and touches nothing else.
Refuse(code) ==
  /\ error' = code
  /\ UNCHANGED <<guardVars, state, failVars, bufferLen, defaultVars,
                 installed, encodingVars, documentVars, calls, result>>

-----------------------------------------------------------------------------
(***************************************************************************)
(* XML_Parse, XML_GetBuffer, XML_ParseBuffer, XML_ResumeParser.  Calls on  *)
(* a busy parser return at once and change nothing, so ~busy is a guard.   *)
(***************************************************************************)

\* A suspended or finished parser takes no input.
Closed == state \in {"suspended", "finished"}

\* A document that failed stays failed; the reported error is not touched.
StaysFailed ==
  /\ parseError # "none" /\ result' = "ERROR"
  /\ UNCHANGED <<guardVars, state, error, failVars, bufferLen,
                 defaultVars, installed, encodingVars, documentVars, calls>>

\* The guard is taken and the loop entered.
Enter ==
  /\ ctl' = "loop" /\ busy' = TRUE /\ state' = "parsing" /\ error' = "none"
  /\ UNCHANGED <<frames, failVars, bufferLen, defaultVars, installed,
                 encodingVars, subset, pending, consumed, coreError,
                 generation, logVars, calls, result>>

\* The core takes `chunk`; the bound on feeds makes the last one final.
Feed(chunk, final) ==
  /\ parseError = "none" /\ feeds < MaxFeeds
  /\ (feeds + 1 = MaxFeeds) => final
  /\ Enter
  /\ coreFinal' = final
  /\ tokens' = tokens \o chunk /\ fed' = fed \o chunk /\ feeds' = feeds + 1

\* The input is over a limit, or cannot be stored: before the guard is taken,
\* or inside it, when the parsing status has already been set.
FeedFails ==
  /\ StorageMayFail /\ parseError = "none"
  /\ \E code \in {"no_memory", "limit"} : Fail(code)
  /\ state' \in {state, "parsing"}
  /\ result' = "ERROR"
  /\ UNCHANGED <<guardVars, bufferLen, defaultVars, installed, encodingVars,
                 documentVars, calls>>

Parse ==
  /\ AppRuns /\ ~busy
  /\ \/ Refuse("invalid_argument")
     \/ Closed /\ Refuse(state)
     \/ ~Closed /\ StaysFailed
     \/ ~Closed /\ FeedFails
     \/ ~Closed /\ \E chunk \in Input, final \in BOOLEAN : Feed(chunk, final)

GetBuffer ==
  /\ AppRuns /\ ~busy
  /\ \/ Refuse("no_memory")                     \* a negative length
     \/ Closed /\ Refuse(state)
     \/ ~Closed /\ StorageMayFail /\ Refuse("limit")
     \/ /\ ~Closed
        /\ \E chunk \in Input :
             bufferLen' = IF chunk = << >> THEN 1 ELSE Len(chunk)
        /\ UNCHANGED <<guardVars, state, error, failVars, defaultVars,
                       installed, encodingVars, documentVars, calls, result>>

\* Once parsing has started an empty call needs no buffer.
ParseBuffer ==
  /\ AppRuns /\ ~busy
  /\ \/ Refuse("invalid_argument")              \* a negative length
     \/ Closed /\ Refuse(state)
     \/ ~Closed /\ bufferLen = 0 /\ Refuse("no_buffer")
     \/ /\ ~Closed
        /\ \E chunk \in Input, final \in BOOLEAN :
             IF \/ bufferLen # 0 /\ Len(chunk) <= bufferLen
                \/ chunk = << >> /\ state = "parsing"
             THEN StaysFailed \/ Feed(chunk, final)
             ELSE bufferLen # 0 /\ Refuse("invalid_argument")

Resume ==
  /\ AppRuns /\ ~busy
  /\ \/ state # "suspended" /\ Refuse("not_suspended")
     \/ state = "suspended" /\ StaysFailed
     \/ /\ state = "suspended" /\ parseError = "none"
        /\ Enter
        /\ UNCHANGED <<tokens, coreFinal, fed, feeds>>

-----------------------------------------------------------------------------
(***************************************************************************)
(* Calls the application may also make from inside a callback.             *)
(***************************************************************************)

CountCall == calls < MaxCalls /\ calls' = calls + 1

\* XML_StopParser
StopParser(resumable) ==
  /\ AppRuns
  /\ \/ state = "initialized" /\ Refuse("not_started")
     \/ state = "finished" /\ Refuse("finished")
     \/ state = "suspended" /\ resumable /\ Refuse("suspended")
     \/ state = "parsing" /\ resumable /\ ExternalSubset /\ Refuse("suspend_pe")
     \/ /\ state = "parsing" /\ resumable /\ ~ExternalSubset
        /\ CountCall
        /\ state' = "suspended"
        /\ UNCHANGED <<guardVars, error, failVars, bufferLen,
                       defaultVars, installed, encodingVars, documentVars,
                       result>>
     \/ /\ state \in {"parsing", "suspended"} /\ ~resumable
        /\ CountCall
        /\ Fail("aborted") /\ state' = "finished"
        /\ UNCHANGED <<guardVars, bufferLen, defaultVars,
                       installed, encodingVars, documentVars, result>>

\* The handler setters, with a function or with NULL.
SetHandler(handler) ==
  /\ AppRuns /\ CountCall
  /\ installed' = IF handler \in installed THEN installed \ {handler}
                                           ELSE installed \cup {handler}
  /\ UNCHANGED <<guardVars, state, error, failVars, bufferLen,
                 defaultVars, encodingVars, documentVars, result>>

\* The raw text of the current event.  The end of an empty element has none:
\* it belonged to the start.
RawAvailable ==
  /\ log # << >>
  /\ LET last == Final(log) IN
     ~(fed[last[1]] = "tag" /\ last[2] \in {"EndElement", "EndNamespace"})

\* XML_DefaultCurrent: passes the current event's raw text to the default
\* handler; a default handler may not ask for it again.
DefaultCurrent ==
  /\ AppRuns /\ busy /\ ctl # "free" /\ CountCall
  /\ \/ /\ defaultDispatch
        /\ Fail("unexpected")
        /\ UNCHANGED <<guardVars, defaultVars>>
     \/ /\ ~defaultDispatch /\ StorageMayFail
        /\ Fail("no_memory")
        /\ UNCHANGED <<guardVars, defaultVars>>
     \/ /\ ~defaultDispatch /\ RawAvailable /\ "default" \in installed
        /\ Call("current") /\ defaultDispatch' = TRUE
        /\ UNCHANGED <<error, failVars, defaultPending>>
  /\ UNCHANGED <<state, bufferLen, installed, encodingVars,
                 documentVars, result>>

-----------------------------------------------------------------------------
(***************************************************************************)
(* XML_ParserReset and XML_ParserFree.  A parser that owns an encoding     *)
(* instance gives it up first and calls its release function, guarded.     *)
(***************************************************************************)

\* Variant: the parser keeps what it releases.
ReleaseAndKeep == released' = Append(released, encoding)
                  /\ UNCHANGED <<encoding, multibyte, created>>

GiveUpEncoding == encoding' = 0 /\ multibyte' = FALSE
                  /\ released' = Append(released, encoding)
                  /\ UNCHANGED created

\* A new core, a new document; only the unknown-encoding handler survives.
ClearDocument ==
  /\ generation' = generation + 1
  /\ state' = "initialized"
  /\ error' = "none" /\ parseError' = "none" /\ failures' = {}
  /\ bufferLen' = 0 /\ defaultPending' = << >>
  /\ installed' = installed \cap {"unknown"}
  /\ tokens' = << >> /\ pending' = << >> /\ consumed' = 0
  /\ coreError' = "none" /\ coreFinal' = FALSE
  /\ fed' = << >> /\ feeds' = 0 /\ log' = << >> /\ fragmentLog' = << >>
  /\ result' = "none"
  /\ UNCHANGED <<defaultDispatch, subset, calls>>

Reset ==
  /\ AppRuns /\ ~busy /\ ~ExternalSubset /\ generation < MaxGenerations
  /\ \/ StorageMayFail /\ Refuse("no_memory")
     \/ encoding = 0 /\ ClearDocument /\ UNCHANGED <<guardVars, encodingVars>>
     \/ /\ encoding # 0 /\ GiveUpEncoding
        /\ ctl' = "reset" /\ busy' = TRUE /\ frames' = Append(frames, "release")
        /\ UNCHANGED <<state, error, failVars, bufferLen, defaultVars,
                       installed, documentVars, calls, result>>

Free ==
  /\ AppRuns /\ ~busy
  /\ busy' = TRUE
  /\ \/ encoding = 0 /\ ctl' = "freed" /\ UNCHANGED <<frames, encodingVars>>
     \/ /\ encoding # 0 /\ GiveUpEncoding
        /\ ctl' = "free" /\ frames' = Append(frames, "release")
  /\ UNCHANGED <<state, error, failVars, bufferLen, defaultVars,
                 installed, documentVars, calls, result>>

-----------------------------------------------------------------------------
(***************************************************************************)
(* run_events_with_frame: one action for each way through the loop.        *)
(***************************************************************************)

InLoop == ctl = "loop" /\ frames = << >>

\* Variant: fragments wait for the end of the input.
DrainingLate == defaultPending # << >> /\ state # "suspended"
                /\ parseError = "none" /\ tokens = << >>

Draining == defaultPending # << >> /\ state # "suspended" /\ parseError = "none"

\* Variant: a stop takes effect between the callbacks of one tag.
NeverFinishing == FALSE

\* has_pending_tag_event: the callbacks of a tag go together.
FinishingTag == pending # << >> /\ Head(pending) \in TagEvents

\* Variant: every error waits for the tag, as an abort does.
FailingAfterTag == parseError # "none" /\ ~FinishingTag

Failing == parseError # "none" /\ ~(parseError = "aborted" /\ FinishingTag)

\* Variant: suspension is not looked at.
NeverPausing == FALSE

Pausing == state = "suspended" /\ ~FinishingTag

\* Variant: an aborted tag is neither completed nor given up.
ContinuingUnlessFailed == InLoop /\ ~Draining /\ ~Pausing /\ parseError = "none"

Continuing == InLoop /\ ~Draining /\ ~Failing /\ ~Pausing

\* drain_default_fragments, one fragment at a time.
DrainFragments ==
  /\ InLoop /\ Draining
  /\ IF "default" \in installed
     THEN /\ Call("fragment") /\ defaultDispatch' = TRUE
          /\ defaultPending' = Tail(defaultPending)
          /\ fragmentLog' = Append(fragmentLog, Head(defaultPending))
     ELSE defaultPending' = << >>
          /\ UNCHANGED <<guardVars, defaultDispatch, fragmentLog>>
  /\ UNCHANGED <<state, error, failVars, bufferLen, installed,
                 encodingVars, subset, coreVars, fedVars, log, calls, result>>

LoopFails ==
  /\ InLoop /\ ~Draining /\ Failing
  /\ error' = parseError /\ Finish("ERROR")
  /\ UNCHANGED <<state, failVars, bufferLen, defaultVars, installed,
                 encodingVars, documentVars, calls>>

LoopPauses ==
  /\ InLoop /\ ~Draining /\ ~Failing /\ Pausing
  /\ error' = "none" /\ Finish("SUSPENDED")
  /\ UNCHANGED <<state, failVars, bufferLen, defaultVars, installed,
                 encodingVars, documentVars, calls>>

HandlerOf ==
  [StartNamespace |-> "namespace", EndNamespace |-> "namespace",
   StartElement |-> "start", EndElement |-> "end", Text |-> "text",
   Declaration |-> "decl", External |-> "external"]

\* dispatch: the handler, or else the default handler, for event number n.
\* Namespace events have no default; the end of an empty element has no raw
\* text; its start leaves the raw text to an installed end handler.
Dispatch(event, n) ==
  LET handled == HandlerOf[event] \in installed
      raw == /\ event \notin {"StartNamespace", "EndNamespace", "EndElement"}
             /\ ~(event = "StartElement" /\ "end" \in installed)
      default == ~handled /\ raw /\ "default" \in installed
      Piece(name) == <<generation, n, name>>
  IN
  /\ log' = Append(log, <<n, event>>)
  /\ \/ /\ handled
        /\ Call(IF event = "External" THEN "external" ELSE "event")
        /\ UNCHANGED <<defaultVars, fragmentLog>>
     \/ /\ default /\ event = "StartElement"
        /\ Call("tagDefault") /\ defaultDispatch' = TRUE
        /\ fragmentLog' = Append(fragmentLog, Piece("raw"))
        /\ UNCHANGED defaultPending
     \/ /\ default /\ event # "StartElement"
        /\ defaultPending' = defaultPending \o
             (IF event = "Declaration"
              THEN [i \in 1..Len(Fragments) |-> Piece(Fragments[i])]
              ELSE <<Piece("raw")>>)
        /\ UNCHANGED <<guardVars, defaultDispatch, fragmentLog>>
     \/ /\ ~handled /\ ~default
        /\ UNCHANGED <<guardVars, defaultVars, fragmentLog>>

\* The event cannot be charged or copied: it is dropped and parsing fails.
DropEvent ==
  /\ StorageMayFail
  /\ \E code \in {"no_memory", "limit"} : Fail(code)
  /\ UNCHANGED <<guardVars, defaultVars, logVars>>

\* Variant: a new token is parsed before the queue is empty.
QueueLast == tokens = << >>

\* next_event_scoped looks at the queue first.
QueueFirst == pending # << >>

\* The core's next event: queued, or the first one of the next token.
NextEvent ==
  LET token == Head(tokens)
      queue == IF QueueFirst THEN pending ELSE EventsOf(token)
  IN
  /\ Continuing
  /\ \/ QueueFirst /\ queue # << >> /\ UNCHANGED <<tokens, consumed, coreError>>
     \/ /\ ~QueueFirst /\ coreError = "none" /\ tokens # << >>
        /\ EventsOf(token) # << >>
        /\ token = "convert" => ~multibyte
        /\ tokens' = Tail(tokens) /\ consumed' = consumed + 1
        /\ coreError' = IF token = "badtag" THEN "bad_token" ELSE coreError
  /\ pending' = Tail(queue)
  /\ \/ Dispatch(Head(queue), consumed') /\ UNCHANGED <<error, failVars>>
     \/ DropEvent
  /\ UNCHANGED <<state, bufferLen, installed, encodingVars, subset,
                 coreFinal, fedVars, calls, result>>

\* The core fails: on bad input, on a recorded error, or for lack of memory,
\* which also discards the queued events.
CoreFails ==
  /\ Continuing
  /\ \E code \in ParseErrors :
       /\ \/ pending = << >> /\ coreError # "none" /\ code = coreError
          \/ /\ pending = << >> /\ coreError = "none" /\ tokens # << >>
             /\ \/ Head(tokens) = "bad"
                \/ Head(tokens) = "unknown" /\ encoding # 0
             /\ code = "bad_token"
          \/ StorageMayFail /\ pending = << >> /\ coreError = "none"
             /\ tokens # << >> /\ code = "no_memory"
       /\ coreError' = code
       /\ Fail(code)
  /\ Finish("ERROR")
  /\ UNCHANGED <<state, bufferLen, defaultVars, installed, encodingVars,
                 subset, queueVars, coreFinal, fedVars,
                 logVars, calls>>

\* Variant: finished before the final input.
FinishedEarly == TRUE

\* Parser::is_finished, once no token is left.
IsFinished == coreFinal

\* The merge of the declarations into the parent fails.
MergeFails == /\ IsFinished /\ subset = "unmerged" /\ StorageMayFail
              /\ \E code \in {"no_memory", "limit"} : Fail(code)
              /\ Finish("ERROR") /\ UNCHANGED <<state, subset>>

\* Everything fed was parsed.  An external subset reports what it declared to
\* its parent before it is finished.
LoopEnds ==
  /\ Continuing /\ pending = << >> /\ coreError = "none" /\ tokens = << >>
  /\ \/ MergeFails
     \/ /\ subset' = IF IsFinished /\ ExternalSubset THEN "merged" ELSE subset
        /\ state' = IF IsFinished THEN "finished" ELSE state
        /\ error' = "none" /\ Finish("OK")
        /\ UNCHANGED failVars
  /\ UNCHANGED <<bufferLen, defaultVars, installed,
                 encodingVars, queueVars, coreError, coreFinal, fedVars,
                 logVars, calls>>

\* resolve_unknown_encoding: the handler is asked; without one, or without
\* memory for the name, parsing fails.
AskEncoding ==
  /\ Continuing /\ pending = << >> /\ coreError = "none" /\ encoding = 0
  /\ tokens # << >> /\ Head(tokens) = "unknown"
  /\ coreError' = "unknown_encoding"
  /\ \/ /\ "unknown" \in installed /\ Call("unknown")
        /\ UNCHANGED <<error, failVars, result>>
     \/ "unknown" \notin installed /\ Fail("unknown_encoding") /\ Finish("ERROR")
     \/ StorageMayFail /\ Fail("no_memory") /\ Finish("ERROR")
  /\ UNCHANGED <<state, bufferLen, defaultVars, installed, encodingVars,
                 subset, queueVars, coreFinal, fedVars,
                 logVars, calls>>

\* resolve_pending_conversion
AskConversion ==
  /\ Continuing /\ pending = << >> /\ coreError = "none" /\ multibyte
  /\ tokens # << >> /\ Head(tokens) = "convert"
  /\ Call("convert")
  /\ UNCHANGED <<state, error, failVars, bufferLen, defaultVars,
                 installed, encodingVars, documentVars, calls, result>>

-----------------------------------------------------------------------------
(***************************************************************************)
(* The application returns from the innermost callback.                    *)
(***************************************************************************)

Returns(kind) == frames # << >> /\ Final(frames) = kind

ReturnEvent ==
  /\ Returns("event")
  /\ frames' = Pop(frames)
  /\ UNCHANGED <<ctl, busy, state, error, failVars, bufferLen,
                 defaultVars, installed, encodingVars, documentVars, calls,
                 result>>

\* A zero status from the external entity handler ends the document.
ReturnExternal ==
  /\ Returns("external")
  /\ frames' = Pop(frames)
  /\ Fail("external") \/ UNCHANGED <<error, failVars>>
  /\ UNCHANGED <<ctl, busy, state, bufferLen, defaultVars, installed,
                 encodingVars, documentVars, calls, result>>

ReturnDefault ==
  /\ \E kind \in DefaultFrames : Returns(kind)
  /\ frames' = Pop(frames) /\ defaultDispatch' = FALSE
  /\ UNCHANGED <<ctl, busy, state, error, failVars, bufferLen,
                 defaultPending, installed, encodingVars, documentVars,
                 calls, result>>

\* A converted sequence is text from here on.
ReturnConversion ==
  /\ Returns("convert")
  /\ \/ /\ parseError # "none"
        /\ Finish("ERROR")
        /\ UNCHANGED <<error, failVars, tokens, coreError>>
     \/ /\ parseError = "none"
        /\ frames' = Pop(frames) /\ tokens' = <<"text">> \o Tail(tokens)
        /\ UNCHANGED <<ctl, busy, error, failVars, coreError, result>>
     \/ /\ parseError = "none"
        /\ coreError' = "bad_token" /\ Fail("bad_token") /\ Finish("ERROR")
        /\ UNCHANGED tokens
  /\ UNCHANGED <<state, bufferLen, defaultVars, installed, encodingVars,
                 subset, pending, consumed, coreFinal, fedVars,
                 logVars, calls>>

\* try_resolve_unknown_encoding after the handler offered an instance with a
\* usable map: the core goes on with the input it holds.
AcceptEncoding ==
  /\ Returns("unknown") /\ created < MaxEncodings /\ parseError = "none"
  /\ frames' = Pop(frames)
  /\ created' = created + 1 /\ encoding' = created' /\ multibyte' \in BOOLEAN
  /\ coreError' = "none" /\ tokens' = Tail(tokens) /\ consumed' = consumed + 1
  /\ UNCHANGED <<ctl, busy, state, error, failVars, bufferLen,
                 defaultVars, installed, released, subset, pending,
                 coreFinal, fedVars, logVars, calls, result>>

\* It is refused: the handler said so, its map is unusable, the core has no
\* memory for it, or parsing was ended inside the handler.  Its release
\* function is called.
RefuseEncoding ==
  /\ Returns("unknown") /\ created < MaxEncodings
  /\ \/ UNCHANGED <<error, failVars, coreError>>
     \/ /\ StorageMayFail /\ parseError = "none"
        /\ Fail("no_memory") /\ coreError' = "no_memory"
  /\ created' = created + 1 /\ released' = Append(released, created')
  /\ ctl' = "refused" /\ frames' = Append(Pop(frames), "release")
  /\ UNCHANGED <<busy, state, bufferLen, defaultVars, installed,
                 encoding, multibyte, subset, queueVars, coreFinal,
                 fedVars, logVars, calls, result>>

\* Parsing fails for want of an encoding, unless it failed already.
FailEncoding ==
  /\ IF parseError = "none" THEN Fail("unknown_encoding")
                            ELSE UNCHANGED <<error, failVars>>
  /\ Finish("ERROR")

\* The handler offered nothing.
NoEncoding ==
  /\ Returns("unknown")
  /\ FailEncoding
  /\ UNCHANGED <<state, bufferLen, defaultVars, installed, encodingVars,
                 documentVars, calls>>

ReturnRelease ==
  /\ Returns("release")
  /\ \/ /\ ctl = "refused" /\ FailEncoding
        /\ UNCHANGED <<state, bufferLen, defaultVars, installed,
                       documentVars, calls>>
     \/ /\ ctl = "reset" /\ ClearDocument
        /\ ctl' = "idle" /\ frames' = << >> /\ busy' = FALSE
     \/ /\ ctl = "free" /\ ctl' = "freed" /\ frames' = << >>
        /\ UNCHANGED <<busy, state, error, failVars, bufferLen,
                       defaultVars, installed, documentVars, calls, result>>
  /\ UNCHANGED encodingVars

-----------------------------------------------------------------------------
Requests == Parse \/ GetBuffer \/ ParseBuffer \/ Resume \/ Reset \/ Free

Calls ==
  \/ \E resumable \in BOOLEAN : StopParser(resumable)
  \/ \E handler \in Changeable : SetHandler(handler)
  \/ DefaultCurrent

Loop == DrainFragments \/ LoopFails \/ LoopPauses \/ NextEvent \/ CoreFails
        \/ LoopEnds \/ AskEncoding \/ AskConversion

Return == ReturnEvent \/ ReturnExternal \/ ReturnDefault \/ ReturnConversion
          \/ AcceptEncoding \/ RefuseEncoding \/ NoEncoding \/ ReturnRelease

Next == Requests \/ Calls \/ Loop \/ Return

Spec == Init /\ [][Next]_vars

-----------------------------------------------------------------------------
(***************************************************************************)
(* Fairness.  The loop is plain code, so it goes on while it can; a        *)
(* callback is application code, which a terminating call of XML_Parse     *)
(* needs to return.  FairSpec asks no more.                                *)
(***************************************************************************)
FairSpec == Spec /\ WF_vars(Loop) /\ WF_vars(Return)

\* An application that resumes a suspended parser and feeds one that is not.
Proceed == \/ state = "suspended" /\ parseError = "none" /\ Resume
           \/ /\ AppRuns /\ ~busy /\ ~Closed
              /\ \E chunk \in Input, final \in BOOLEAN : Feed(chunk, final)

CooperativeSpec == FairSpec /\ WF_vars(Proceed)

-----------------------------------------------------------------------------
(***************************************************************************)
(* Properties                                                              *)
(***************************************************************************)

\* An event and its token; a piece of raw text, its document and its token.
Delivered == Nat \X Events
Pieces == Nat \X Nat \X ({"raw"} \cup {Fragments[i] : i \in 1..Len(Fragments)})

\* Every variable has the type the code gives it.
TypeOK ==
  /\ ctl \in Controls /\ frames \in Seq(FrameKinds) /\ busy \in BOOLEAN
  /\ state \in States /\ error \in Codes
  /\ parseError \in {"none"} \cup ParseErrors
  /\ failures \subseteq ParseErrors
  /\ bufferLen \in Nat /\ defaultDispatch \in BOOLEAN
  /\ defaultPending \in Seq(Pieces)
  /\ installed \subseteq Handlers
  /\ encoding \in Nat /\ multibyte \in BOOLEAN /\ created \in Nat
  /\ released \in Seq(Nat) /\ subset \in {"none", "unmerged", "merged"}
  /\ tokens \in Seq(Tokens) /\ pending \in Seq(Events)
  /\ coreError \in {"none"} \cup ParseErrors /\ coreFinal \in BOOLEAN
  /\ fed \in Seq(Tokens) /\ feeds \in Nat /\ consumed \in Nat
  /\ generation \in Nat /\ log \in Seq(Delivered)
  /\ fragmentLog \in Seq(Pieces)
  /\ calls \in Nat /\ result \in {"none", "OK", "ERROR", "SUSPENDED"}

\* The guard pins the parser for as long as a guarded operation runs or any
\* callback is on the stack; callbacks nest only by DefaultCurrent, once; and
\* the default-dispatch flag is set exactly while a default callback is the
\* innermost one.  No path, failures included, leaves either flag behind.
GuardDiscipline ==
  /\ busy <=> ctl # "idle"
  /\ frames # << >> => busy
  /\ ctl \in {"refused", "reset", "free"} <=> frames # << >> /\ frames[1] = "release"
  /\ Len(frames) <= 2
  /\ Len(frames) = 2 => frames[1] \notin DefaultFrames /\ frames[2] = "current"
  /\ defaultDispatch <=> frames # << >> /\ Final(frames) \in DefaultFrames

\* An error other than the application's own abort: events may be lost.
Dropped == failures \ {"aborted"} # {}

EventOf(entry) == entry[2]

\* No call, refusal, suspension or handler change loses, repeats or reorders
\* an event: what was dispatched for a consumed token, a run of entries of the
\* log, with what is still queued, is what the core produced for it.
EventsInOrder ==
  /\ Len(fed) = consumed + Len(tokens)
  /\ \A i, j \in 1..Len(log) : i < j => log[i][1] <= log[j][1]
  /\ ~Dropped =>
       \A n \in 1..consumed :
         \E first \in 1..Len(log) + 1, last \in 0..Len(log) :
           LET events == [i \in 1..(last + 1) - first |-> EventOf(log[(first - 1) + i])] IN
           /\ \A i \in 1..Len(log) : log[i][1] = n <=> i \in first..last
           /\ events \o (IF n = consumed THEN pending ELSE << >>) = EventsOf(fed[n])

\* A call never returns in the middle of a tag, suspended or aborted, unless
\* an allocation or processing error ended the document.
WholeTags == ctl = "idle" /\ ~Dropped => pending = << >>

\* A piece of raw text is the first of its token, or the next fragment of the
\* declaration the piece before it belongs to.
Begins(piece) == piece[3] \in {"raw", Fragments[1]}
Follows(piece, before) ==
  \/ before[2] < piece[2] /\ Begins(piece)
  \/ /\ before[2] = piece[2]
     /\ \E k \in 1..Len(Fragments) - 1 : before[3] = Fragments[k] /\ piece[3] = Fragments[k + 1]

\* What the default handler got and will get: pieces of this document's raw
\* text, in the order of the input, each once; the pieces of one declaration
\* in their order without gaps; and never behind the event they belong to.
FragmentsInOrder ==
  LET all == fragmentLog \o defaultPending IN
  /\ \A i \in 1..Len(all) : all[i][1] = generation
  /\ all # << >> => Begins(all[1])
  /\ \A i \in 2..Len(all) : Follows(all[i], all[i - 1])
  /\ defaultPending # << >> => log # << >> /\ Head(defaultPending)[2] = Final(log)[1]

\* A document is finished without an error only when all its input was fed
\* and parsed, every event and fragment delivered, and an external subset
\* merged into its parent.
FinishedComplete ==
  state = "finished" /\ failures = {} =>
    /\ coreFinal /\ tokens = << >> /\ pending = << >>
    /\ defaultPending = << >> /\ subset # "unmerged"

\* Every encoding instance the application handed over is owned by the parser
\* or has been released, and none is released twice.
ReleasedOnce ==
  /\ \A i, j \in 1..Len(released) : released[i] = released[j] => i = j
  /\ {released[i] : i \in 1..Len(released)} = 1..created \ {encoding}

\* The converter is called only while its encoding instance is owned.
ConverterAlive ==
  /\ multibyte => encoding # 0
  /\ \A i \in 1..Len(frames) : frames[i] = "convert" => multibyte

\* An encoding instance is used while it is owned, and then released, once.
ConverterOwned == ReleasedOnce /\ ConverterAlive

\* Once stopped, a parser completes the tag whose callbacks have begun and
\* delivers nothing else, to any handler, until it is resumed.
StopStep ==
  state = "suspended" \/ parseError = "aborted" =>
    /\ log' \notin {log, << >>} =>
         /\ log # << >> /\ Final(log')[1] = Final(log)[1]
         /\ EventOf(Final(log')) \in TagEvents
    /\ fragmentLog' \notin {fragmentLog, << >>} =>
         Final(fragmentLog')[2] = Final(log)[1]

StopHonoured == [][StopStep]_vars

\* A document that failed stays failed until Reset: no call succeeds, and
\* unless the application aborted it, no input is parsed.
TerminalStep ==
  parseError # "none" /\ generation' = generation =>
    /\ parseError' # "none"
    /\ result' \in {result, "ERROR"}
    /\ parseError # "aborted" => UNCHANGED <<log, consumed>>

TerminalError == [][TerminalStep]_vars

\* A guarded call returns when the callbacks it makes do.
CallsReturn == (busy /\ ctl # "freed") ~> (~busy \/ ctl = "freed")

\* An application that goes on gets to the end of its document.
Completion ==
  <>[](ctl = "freed" \/ parseError # "none" \/ state = "finished")

\* Calls return, and an application that goes on is not kept from the end.
Progress == CallsReturn /\ Completion

\* lib.rs says of a stopped parser that a tag's callbacks are completed but
\* "Allocation and processing errors still stop now": after such an error
\* no further event is dispatched.
ErrorsStopNow ==
  [][ Dropped /\ generation' = generation => log' = log ]_vars

=============================================================================
