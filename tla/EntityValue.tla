------------------------------ MODULE EntityValue ------------------------------
(***************************************************************************)
(* Entity values whose literals name external parameter entities           *)
(* (crates/xeme/src/value.rs, and the first pass in dtd.rs entity_value).   *)
(*                                                                         *)
(* A declaration's literal is expanded through a stack of frames.  At an    *)
(* external parameter reference the declaring parser stops and asks the     *)
(* application, which may make a child parser, feed it in pieces, give up   *)
(* on it or never make one; when the parent is driven again it goes on.     *)
(* Children ask for children in the same way.  All of them append to one    *)
(* Output behind a TryLock, share one read marker per family, and inherit   *)
(* the names that are being expanded and how deep.                          *)
(*                                                                         *)
(* Text is a sequence of items <<kind, content>>:                           *)
(*   "t" characters ("CR" is a carriage return)    "%" a parameter reference *)
(*   "&" a general reference, kept as it is        "c" a character reference *)
(*       to the item it contains                   "x" <?xml ... ?>          *)
(*   "bad" a reference that is no name             "lex" a lexical error     *)
(* An item counts as one byte.                                              *)
(***************************************************************************)
EXTENDS Naturals, Sequences, FiniteSets, SequencesExt

CONSTANTS Root,         \* the parser of the declarations
          Children,     \* slots for value children
          Scenarios,    \* literals, entities, documents and limits to run
          NONE

ASSUME SlotsAssumption == Root \notin Children /\ NONE \notin Children \cup {Root}

IsSequence(s) == s \in Seq({s[k] : k \in DOMAIN s})

(* Literals, internal entities and documents are texts; the entities around *)
(* a declaration are declared and different, and its depth was allowed.    *)
ASSUME ScenariosAssumption ==
    \A s \in Scenarios :
        /\ {s.depth, s.maxDepth} \subseteq Nat /\ s.depth <= s.maxDepth + 1
        /\ IsSequence(s.literals)
        /\ \A n \in DOMAIN s.entities :
              /\ s.entities[n].kind = "internal" => IsSequence(s.entities[n].value)
              /\ s.entities[n].kind = "external" => IsSequence(s.documents[n])
        /\ \A k \in 1..Len(s.literals) :
              LET d == s.literals[k]
              IN /\ IsSequence(d.items) /\ d.parameters \in Seq(DOMAIN s.entities)
                 /\ s.depth + Len(d.parameters) <= s.maxDepth + 1
                 /\ \A i, j \in 1..Len(d.parameters) :
                       d.parameters[i] = d.parameters[j] => i = j

VARIABLES scenario,     \* what this behaviour runs
          parsers,      \* each parser with its value::State
          outputs,      \* the Output of each declaration that had to wait
          read,         \* ParameterState.read of the family
          skipping,     \* ParameterState.declarations_skipped
          opened,       \* entities whose value_open is set
          entities,     \* parameter entities declared so far
          generals,     \* general entities declared so far
          values,       \* values declared, in order
          answers,      \* what became of each request, in order of delivery
          events        \* what the application was told, in order

vars == <<scenario, parsers, outputs, read, skipping, opened, entities, generals,
          values, answers, events>>
tables == <<opened, entities, generals, values>>

Kind(i) == i[1]
IsReference(i) == Kind(i) \in {"%", "&", "c", "bad"}
Lead(items) == IF \E k \in DOMAIN items : IsReference(items[k])
                  THEN SelectInSeq(items, IsReference) - 1 ELSE Len(items)
Drop(items, n) == SubSeq(items, n + 1, Len(items))
LineEnd(i)     == IF i = <<"t", "CR">> THEN <<"t", "LF">> ELSE i
Normalized(items, normalize) == IF normalize THEN [k \in DOMAIN items |-> LineEnd(items[k])]
                                ELSE items

FrameOf(items, name, normalize) == [items |-> items, name |-> name, normalize |-> normalize]

NoRequest == [name |-> NONE, delivered |-> FALSE, answer |-> 0]

NewParser ==
    [stage |-> "none",       \* none idle expanding scanning value finished failed
     working |-> FALSE,      \* inside entity_value or store_value
     frames |-> <<>>, chain |-> {}, declaring |-> NONE, parameters |-> <<>>, depth |-> 0,
     output |-> 0, standalone |-> FALSE, prefixed |-> TRUE, request |-> NoRequest,
     ready |-> [text |-> <<>>, skipped |-> FALSE],
     parent |-> NONE, answer |-> 0, document |-> NONE,
     fed |-> 0, final |-> FALSE, content |-> 0, declared |-> FALSE,
     initialized |-> FALSE, encoded |-> TRUE]

Init ==
    /\ scenario \in Scenarios
    /\ parsers = [p \in Children \cup {Root} |->
                    IF p = Root
                    THEN [NewParser EXCEPT !.stage = "idle", !.depth = scenario.depth,
                                           !.standalone = scenario.standalone]
                    ELSE NewParser]
    /\ outputs = <<>> /\ read = FALSE /\ skipping = FALSE
    /\ opened = {} /\ entities = scenario.entities /\ generals = {}
    /\ values = <<>> /\ answers = <<>> /\ events = <<>>

(* What the application is told is kept for an orderly application only.   *)
Tell(e) == events' = IF scenario.orderly THEN Append(events, e) ELSE events
Answer(p, a) == [answers EXCEPT ![parsers[p].answer] = a]

(* An error ends a parser; what its value has been given stays there.      *)
Fail(p, kind) ==
    /\ parsers' = [parsers EXCEPT ![p].stage = "failed", ![p].working = FALSE,
                                  ![p].frames = <<>>, ![p].request = NoRequest]
    /\ IF p = Root THEN Tell(<<"error", kind>>) ELSE UNCHANGED events
    /\ answers' = IF p # Root /\ parsers[p].working THEN Answer(p, "expanded") ELSE answers
    /\ UNCHANGED <<scenario, outputs, read, skipping, opened, entities, generals, values>>

(***************************************************************************)
(* Expanding one frame: entity_value before the first external reference,   *)
(* store_value after it.                                                    *)
(***************************************************************************)
Top(p) == Last(parsers[p].frames)
Named(p) == Cardinality({k \in DOMAIN parsers[p].frames : parsers[p].frames[k].name # NONE})
Expanding(p) == parsers[p].stage = "expanding"
IsChild(p) == p # Root
Advanced(frames, n) == [frames EXCEPT ![Len(frames)].items = Drop(@, n)]

Busy(p, name) ==
    \/ name \in opened \/ name = parsers[p].declaring
    \/ name \in Range(parsers[p].parameters) \cup parsers[p].chain
    \/ \E k \in DOMAIN parsers[p].frames : parsers[p].frames[k].name = name
TooDeep(p) == Named(p) + parsers[p].depth + Len(parsers[p].parameters) > scenario.maxDepth

TextOf(p) == IF Expanding(p) THEN parsers[p].ready.text ELSE outputs[parsers[p].output].text

(* value_append and append_entity_value: a piece carries its writer.       *)
Write(p, items, n) ==
    LET pieces == [k \in DOMAIN items |-> [item |-> items[k], by |-> p]]
    IN IF Len(TextOf(p)) + Len(items) > scenario.maxValue THEN Fail(p, "LimitExceeded")
       ELSE /\ IF Expanding(p)
               THEN /\ parsers' = [parsers EXCEPT ![p].ready.text = @ \o pieces,
                                                  ![p].frames = Advanced(@, n)]
                    /\ UNCHANGED outputs
               ELSE /\ outputs' = [outputs EXCEPT ![parsers[p].output].text = @ \o pieces]
                    /\ parsers' = [parsers EXCEPT ![p].frames = Advanced(@, n)]
            /\ UNCHANGED <<scenario, read, skipping, tables, answers, events>>

TakeText(p) ==
    LET f == Top(p)  n == Lead(f.items)
    IN n > 0 /\ Write(p, Normalized(SubSeq(f.items, 1, n), f.normalize), n)

PopFrame(p) ==
    /\ Top(p).items = <<>>
    /\ parsers' = [parsers EXCEPT ![p].frames = Front(@)]
    /\ UNCHANGED <<scenario, outputs, read, skipping, tables, answers, events>>

Next1(p) == Head(Top(p).items)
AtReference(p, kind) == Top(p).items # <<>> /\ Kind(Next1(p)) = kind
AtEntity(p, kinds) ==
    /\ AtReference(p, "%") /\ ~Busy(p, Next1(p)[2])
    /\ Next1(p)[2] \in DOMAIN entities /\ ~TooDeep(p)
    /\ entities[Next1(p)[2]].kind \in kinds

TakeCharacter(p) == AtReference(p, "c") /\ Write(p, <<Next1(p)[2]>>, 1)
TakeGeneral(p) == AtReference(p, "&") /\ Write(p, <<Next1(p)>>, 1)
BadReference(p) == AtReference(p, "bad") /\ Fail(p, "InvalidToken")
Recursion(p) == AtReference(p, "%") /\ Busy(p, Next1(p)[2]) /\ Fail(p, "RecursiveEntityReference")
Deeper(p) ==
    /\ AtReference(p, "%") /\ ~Busy(p, Next1(p)[2])
    /\ Next1(p)[2] \in DOMAIN entities /\ TooDeep(p)
    /\ Fail(p, "LimitExceeded")

(* A child drops what is left of all its frames where the code clears them. *)
Onward(p) == IF IsChild(p) THEN <<>> ELSE Advanced(parsers[p].frames, 1)

(* value_skip                                                              *)
Skipped(p) == [outputs EXCEPT ![parsers[p].output].skipped = ~outputs[parsers[p].output].standalone]

UnknownParameter(p) ==
    /\ AtReference(p, "%") /\ ~Busy(p, Next1(p)[2]) /\ Next1(p)[2] \notin DOMAIN entities
    /\ IF Expanding(p)
       THEN /\ parsers' = [parsers EXCEPT ![p].ready.skipped = TRUE, ![p].frames = Onward(p)]
            /\ UNCHANGED outputs
       ELSE /\ outputs' = Skipped(p)
            /\ parsers' = [parsers EXCEPT ![p].frames = Onward(p)]
    /\ UNCHANGED <<scenario, read, skipping, tables, answers, events>>

InternalParameter(p) ==
    LET name == Next1(p)[2]
    IN /\ AtEntity(p, {"internal"})
       /\ IF IsChild(p) /\ scenario.compatible
          THEN /\ opened' = opened \cup {name}
               /\ parsers' = [parsers EXCEPT ![p].frames = <<>>]
          ELSE /\ parsers' = [parsers EXCEPT ![p].frames =
                    Append(Advanced(@, 1), FrameOf(entities[name].value, name, FALSE))]
               /\ UNCHANGED opened
       /\ UNCHANGED <<scenario, outputs, read, skipping, entities, generals, values, answers, events>>

(* A name reserved by an unfinished declaration reads as nothing.          *)
ReservedParameter(p) ==
    /\ AtEntity(p, {"reserved"})
    /\ parsers' = [parsers EXCEPT ![p].frames = Onward(p)]
    /\ UNCHANGED <<scenario, outputs, read, skipping, tables, answers, events>>

Asking(name) == [NoRequest EXCEPT !.name = name]

ExternalParameter(p) ==
    /\ AtEntity(p, {"external"}) /\ ~Expanding(p)
    /\ parsers' = [parsers EXCEPT ![p].request = Asking(Next1(p)[2]),
                                  ![p].frames = Advanced(@, 1), ![p].working = FALSE]
    /\ UNCHANGED <<scenario, outputs, read, skipping, tables, answers, events>>

(* Each declaration that waits has an output of its own.                    *)
LastReused(all, output) == IF all = <<>> THEN <<output>> ELSE Append(Front(all), output)
WithOutput(all, output) == Append(all, output)

(* The text so far becomes the shared output.                              *)
FirstOutput(parser) ==
    [text |-> parser.ready.text, standalone |-> parser.standalone,
     skipped |-> parser.ready.skipped /\ ~parser.standalone]

(* begin_external_value                                                    *)
BeginExternal(p) ==
    /\ AtEntity(p, {"external"}) /\ Expanding(p)
    /\ outputs' = WithOutput(outputs, FirstOutput(parsers[p]))
    /\ parsers' = [parsers EXCEPT ![p].stage = "value", ![p].working = FALSE,
                     ![p].output = Len(outputs'), ![p].prefixed = ~scenario.defaults,
                     ![p].ready = NewParser.ready,
                     ![p].request = Asking(Next1(p)[2]), ![p].frames = Advanced(@, 1)]
    /\ UNCHANGED <<scenario, read, skipping, tables, answers, events>>

(***************************************************************************)
(* Declarations.                                                           *)
(***************************************************************************)
Current == scenario.literals[Len(values) + 1]
IsKnown(d) == IF d.parameter THEN d.name \in DOMAIN entities ELSE d.name \in generals

(* entity_declaration, up to the literal: declarations that are skipped    *)
(* leave nothing behind.                                                   *)
Declare ==
    LET d == Current
    IN /\ parsers[Root].stage = "idle" /\ Len(values) < Len(scenario.literals)
       /\ IF skipping
          THEN /\ values' = Append(values, [declared |-> FALSE, text |-> <<>>])
               /\ UNCHANGED parsers
          ELSE /\ parsers' = [parsers EXCEPT ![Root].stage = "expanding", ![Root].working = TRUE,
                     ![Root].frames = <<FrameOf(d.items, NONE, d.normalize)>>,
                     ![Root].parameters = d.parameters,
                     ![Root].declaring = IF d.parameter /\ ~IsKnown(d) THEN d.name ELSE NONE]
               /\ UNCHANGED values
       /\ UNCHANGED <<scenario, outputs, read, skipping, opened, entities, generals, answers, events>>

(* The name is declared by its first declaration, within the limit.        *)
Store(text) ==
    LET d == Current
    IN IF IsKnown(d)
       THEN /\ values' = Append(values, [declared |-> FALSE, text |-> text])
            /\ IF scenario.defaults THEN Tell(<<"duplicate", d.name>>) ELSE UNCHANGED events
            /\ UNCHANGED <<entities, generals>>
       ELSE /\ values' = Append(values, [declared |-> TRUE, text |-> text])
            /\ Tell(<<"declared", d.name>>)
            /\ IF d.parameter
               THEN /\ entities' = [n \in DOMAIN entities \cup {d.name} |->
                          IF n # d.name THEN entities[n]
                          ELSE [kind |-> "internal",
                                value |-> [k \in DOMAIN text |-> text[k].item]]]
                    /\ UNCHANGED generals
               ELSE generals' = generals \cup {d.name} /\ UNCHANGED entities
Full == ~IsKnown(Current) /\ Cardinality(DOMAIN entities) + Cardinality(generals) >= scenario.maxEntities

Idle(parser) == [parser EXCEPT !.stage = "idle", !.working = FALSE, !.ready = NewParser.ready,
                               !.declaring = NONE, !.parameters = <<>>, !.output = 0,
                               !.prefixed = TRUE]

(* The whole literal was expanded in the first pass.                       *)
DeclareAtOnce ==
    LET parser == parsers[Root]
    IN /\ Expanding(Root) /\ parser.frames = <<>>
       /\ IF Full THEN Fail(Root, "LimitExceeded")
          ELSE /\ Store(parser.ready.text)
               /\ skipping' = IF parser.ready.skipped THEN ~parser.standalone ELSE skipping
               /\ parsers' = [parsers EXCEPT ![Root] = Idle(@)]
               /\ UNCHANGED <<scenario, outputs, read, opened, answers>>

(* finish_value_declaration                                                *)
FinishDeclaration ==
    LET parser == parsers[Root]
        output == outputs[parser.output]
    IN /\ parser.stage = "value" /\ parser.working /\ parser.frames = <<>>
       /\ IF Full THEN Fail(Root, "LimitExceeded")
          ELSE /\ outputs' = [outputs EXCEPT ![parser.output].text = <<>>]
               /\ Store(output.text)
               /\ skipping' = output.skipped
               /\ parsers' = [parsers EXCEPT ![Root] =
                     [Idle(@) EXCEPT !.standalone = output.standalone,
                                     !.stage = IF Current.suffix THEN "failed" ELSE "idle"]]
               /\ UNCHANGED <<scenario, read, opened, answers>>

(* A child whose frames are done is finished.                              *)
FinishChild(p) ==
    LET parser == parsers[p]
    IN /\ IsChild(p) /\ parser.working /\ parser.frames = <<>>
       /\ parsers' = [parsers EXCEPT ![p].stage = "finished", ![p].working = FALSE]
       /\ answers' = Answer(p, "expanded")
       /\ UNCHANGED <<scenario, outputs, read, skipping, tables, events>>

Document(c) == scenario.documents[parsers[c].document]

(* What the scanner stops at, in what it has been fed.                     *)
Stops(c) == {k \in 1..parsers[c].fed :
                \/ Kind(Document(c)[k]) = "lex"
                \/ Kind(Document(c)[k]) = "x" /\ ~parsers[c].declared}
Scans(c) == parsers[c].stage = "scanning" /\ parsers[c].encoded
Stop(c) == CHOOSE k \in Stops(c) : \A j \in Stops(c) : k <= j

AtDeclaration(c) ==
    /\ Scans(c) /\ parsers[c].fed <= scenario.maxValue
    /\ Stops(c) # {} /\ Kind(Document(c)[Stop(c)]) = "x"

(* Another parser that is inside its own call may hold the output's lock;   *)
(* an orderly application drives one parser at a time.                     *)
InUse(p) ==
    \E q \in DOMAIN parsers \ {p} :
        /\ parsers[q].output = parsers[p].output
        /\ parsers[q].working \/ (~scenario.orderly /\ AtDeclaration(q))
Contended(p) == ~Expanding(p) /\ InUse(p) /\ Fail(p, "ExternalEntityHandling")

Work(p) ==
    /\ parsers[p].working
    /\ \/ /\ parsers[p].frames # <<>>
          /\ \/ TakeText(p) \/ PopFrame(p) \/ TakeCharacter(p) \/ TakeGeneral(p)
             \/ BadReference(p) \/ Recursion(p) \/ Deeper(p) \/ UnknownParameter(p)
             \/ InternalParameter(p) \/ ReservedParameter(p) \/ ExternalParameter(p)
             \/ BeginExternal(p)
       \/ Contended(p)
       \/ FinishChild(p)

(***************************************************************************)
(* continue_value, from the top.                                           *)
(***************************************************************************)
Called(p) == parsers[p].stage = "value" /\ ~parsers[p].working

(* The declaration's own text goes to the default handler first.           *)
SendPrefix ==
    /\ Called(Root) /\ ~parsers[Root].prefixed
    /\ parsers' = [parsers EXCEPT ![Root].prefixed = TRUE]
    /\ Tell(<<IF IsKnown(Current) THEN "duplicate" ELSE "prefix", Current.name>>)
    /\ UNCHANGED <<scenario, outputs, read, skipping, tables, answers>>

DeliverMarked(p) ==
    /\ Called(p) /\ parsers[p].prefixed
    /\ parsers[p].request.name # NONE /\ ~parsers[p].request.delivered
    /\ answers' = Append(answers, "unread")
    /\ parsers' = [parsers EXCEPT ![p].request.delivered = TRUE,
                                  ![p].request.answer = Len(answers) + 1]
    /\ Tell(<<"request", parsers[p].request.name>>)
    /\ UNCHANGED <<scenario, outputs, read, skipping, tables>>

(* The request is delivered once, and nothing has been read for it.        *)
Deliver(p) ==
    LET request == parsers[p].request
    IN /\ Called(p) /\ parsers[p].prefixed /\ request.name # NONE /\ ~request.delivered
       /\ read' = FALSE
       /\ answers' = Append(answers, "unread")
       /\ parsers' = [parsers EXCEPT ![p].request.delivered = TRUE,
                                     ![p].request.answer = Len(answers) + 1]
       /\ Tell(<<"request", request.name>>)
       /\ UNCHANGED <<scenario, outputs, skipping, tables>>

(* An orderly application resumes a parser when the child it made for the   *)
(* request has finished, failed or is given up, and frees that child.       *)
ChildOf(p) == {c \in Children : parsers[c].parent = p}
Settled(p) == \A c \in ChildOf(p) : parsers[c].stage \in {"scanning", "finished", "failed"}
Freed(ps, p) == [c \in DOMAIN ps |-> IF c \in ChildOf(p) THEN NewParser ELSE ps[c]]

Resume(p) ==
    /\ Called(p) /\ parsers[p].request.delivered
    /\ scenario.orderly => Settled(p)
    /\ outputs' = IF read THEN outputs ELSE Skipped(p)
    /\ LET ps == IF scenario.orderly THEN Freed(parsers, p) ELSE parsers
       IN parsers' = [ps EXCEPT ![p].request = NoRequest, ![p].working = TRUE]
    /\ UNCHANGED <<scenario, read, skipping, tables, answers, events>>

(* value_skip finds the output's lock held.                                *)
ResumeRefused(p) ==
    /\ Called(p) /\ parsers[p].request.delivered /\ ~read
    /\ scenario.orderly => Settled(p)
    /\ InUse(p) /\ Fail(p, "ExternalEntityHandling")

(***************************************************************************)
(* Value children.                                                         *)
(***************************************************************************)
FrameNames(frames) == {frames[k].name : k \in DOMAIN frames} \ {NONE}

(* The names a child must not expand again.                                 *)
FramesOnly(p) == parsers[p].chain \cup FrameNames(parsers[p].frames)
ActiveNames(p) ==
    LET parser == parsers[p]
    IN parser.chain \cup FrameNames(parser.frames) \cup Range(parser.parameters)
         \cup ({parser.declaring} \ {NONE}) \cup {parser.request.name}

(* external_child and inherit_value_context; where they fail, as when the  *)
(* output's lock is held, there is no child and nothing has changed.       *)
MakeChild(p, c) ==
    LET parser == parsers[p]
        deeper == parser.depth + 1 + Named(p) + Len(parser.parameters)
    IN /\ parser.stage = "value" /\ ~parser.working /\ parser.request.delivered
       /\ parsers[c].stage = "none"
       /\ scenario.orderly => ChildOf(p) = {}
       /\ parsers' = [parsers EXCEPT ![c] =
             [NewParser EXCEPT !.stage = "scanning", !.chain = ActiveNames(p),
                               !.depth = deeper, !.output = parser.output, !.parent = p,
                               !.standalone = outputs[parser.output].standalone,
                               !.answer = parser.request.answer,
                               !.document = parser.request.name,
                               !.encoded = parser.request.name \notin scenario.unknown]]
       /\ UNCHANGED <<scenario, outputs, read, skipping, tables, answers, events>>

(* mark_parameter_read: once, when the protocol encoding is known.         *)
MarkRead(c, ready) ==
    /\ read' = IF ready /\ ~parsers[c].initialized THEN TRUE ELSE read
    /\ answers' = IF ready /\ answers[parsers[c].answer] = "unread"
                  THEN Answer(c, "opened") ELSE answers

Feed(c) ==
    /\ parsers[c].stage = "scanning" /\ ~parsers[c].final
    /\ \E n \in {k \in {0, 1, Len(Document(c)) - parsers[c].fed} :
                   parsers[c].fed + k <= Len(Document(c))} :
       \E final \in {FALSE, parsers[c].fed + n = Len(Document(c))} :
         /\ n > 0 \/ final \/ ~parsers[c].initialized
         /\ parsers' = [parsers EXCEPT ![c].fed = @ + n, ![c].final = final,
                                       ![c].initialized = @ \/ parsers[c].encoded]
         /\ MarkRead(c, parsers[c].encoded)
    /\ UNCHANGED <<scenario, outputs, skipping, tables, events>>

(* install_encoding_map, after the first call reported UnknownEncoding.    *)
InstallMap(c) ==
    /\ parsers[c].stage = "scanning" /\ ~parsers[c].encoded /\ parsers[c].fed > 0
    /\ parsers' = [parsers EXCEPT ![c].encoded = TRUE, ![c].initialized = TRUE]
    /\ MarkRead(c, TRUE)
    /\ UNCHANGED <<scenario, outputs, skipping, tables, events>>

OverLimit(c) == Scans(c) /\ parsers[c].fed > scenario.maxValue /\ Fail(c, "LimitExceeded")
LexicalError(c) ==
    /\ Scans(c) /\ parsers[c].fed <= scenario.maxValue
    /\ Stops(c) # {} /\ Kind(Document(c)[Stop(c)]) = "lex"
    /\ Fail(c, "InvalidToken")

(* The first XML declaration drops what came before it, and makes the      *)
(* whole value standalone when it says so.                                 *)
XmlDeclaration(c) ==
    LET item == Document(c)[Stop(c)]
        standalone == outputs[parsers[c].output].standalone
                        \/ parsers[c].standalone \/ item[2] = "yes"
    IN /\ AtDeclaration(c)
       /\ outputs' = [outputs EXCEPT ![parsers[c].output].standalone = standalone]
       /\ parsers' = [parsers EXCEPT ![c].standalone = standalone, ![c].declared = TRUE,
                                     ![c].content = Stop(c)]
       /\ answers' = Answer(c, "declared")
       /\ Tell(<<"xml", item[2]>>)
       /\ UNCHANGED <<scenario, read, skipping, tables>>

DeclarationRefused(c) ==
    AtDeclaration(c) /\ InUse(c) /\ Fail(c, "ExternalEntityHandling")

ScanComplete(c) ==
    /\ Scans(c) /\ parsers[c].fed <= scenario.maxValue
    /\ Stops(c) = {} /\ parsers[c].final
    /\ parsers' = [parsers EXCEPT ![c].stage = "value", ![c].working = TRUE,
                     ![c].frames = <<FrameOf(Drop(Document(c), parsers[c].content), NONE, TRUE)>>]
    /\ UNCHANGED <<scenario, outputs, read, skipping, tables, answers, events>>

Done ==
    /\ parsers[Root].stage = "failed" \/ Len(values) = Len(scenario.literals)
    /\ UNCHANGED vars

Next ==
    \/ Declare \/ DeclareAtOnce \/ FinishDeclaration \/ SendPrefix \/ Done
    \/ \E p \in DOMAIN parsers : Work(p) \/ Deliver(p) \/ Resume(p) \/ ResumeRefused(p)
    \/ \E c \in Children :
          \/ Feed(c) \/ InstallMap(c) \/ OverLimit(c) \/ LexicalError(c)
          \/ XmlDeclaration(c) \/ DeclarationRefused(c) \/ ScanComplete(c)
          \/ \E p \in DOMAIN parsers : MakeChild(p, c)

Spec == Init /\ [][Next]_vars

-----------------------------------------------------------------------------
(***************************************************************************)
(* Properties.                                                             *)
(***************************************************************************)

(* A parser waits for its child until the request the child was made for   *)
(* is answered.  The parsers above one are those that wait for it, directly *)
(* or not: the least set with that parser that has who waits for a member.  *)
Waiting(c) == /\ parsers[c].parent # NONE
              /\ parsers[parsers[c].parent].stage = "value"
              /\ parsers[parsers[c].parent].request.answer = parsers[c].answer
Closed(S) == \A c \in S : Waiting(c) => parsers[c].parent \in S
Above(p) == {q \in DOMAIN parsers : \A S \in SUBSET DOMAIN parsers : p \in S /\ Closed(S) => q \in S}

(* What a parser is expanding, and where it has it from.                   *)
Place(p, as, at, name) == [by |-> p, as |-> as, at |-> at, name |-> name]
Held(p) ==
    LET parser == parsers[p]
    IN {Place(p, "frame", k, parser.frames[k].name) :
          k \in {i \in DOMAIN parser.frames : parser.frames[i].name # NONE}}
         \cup {Place(p, "parameter", k, parser.parameters[k]) : k \in DOMAIN parser.parameters}
         \cup (IF parser.declaring = NONE THEN {} ELSE {Place(p, "declaring", 1, parser.declaring)})
         \cup (IF Waiting(p) THEN {Place(p, "document", 1, parser.document)} ELSE {})

(* From the declaration down to the innermost child that its parents wait   *)
(* for, no parameter entity is being expanded twice, and no more of them    *)
(* than the limit: each parser knows the names and the depth of those it    *)
(* cannot see (inherit_value_context).                                     *)
NoNameTwice ==
    \A p \in DOMAIN parsers :
        LET line == UNION {Held(q) : q \in Above(p)}
        IN /\ \A x, y \in line : x.name = y.name => x = y
           /\ Cardinality({x \in line : x.as # "declaring"}) <= (scenario.maxDepth + 1) - scenario.depth

(* Whoever goes on after the parent resumed, a child never writes into a    *)
(* later declaration's value: each declaration that waited has an output of *)
(* its own, and a child keeps the one it was made with.                     *)
Writers(v) == {v.text[k].by : k \in DOMAIN v.text} \ {Root}
ValuesApart ==
    ~scenario.orderly =>
        \A j, k \in DOMAIN values : j # k => Writers(values[j]) \cap Writers(values[k]) = {}
=============================================================================
