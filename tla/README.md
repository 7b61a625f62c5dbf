# Verification of xeme

xeme is an XML parser in Rust with a Rust interface, an interface compatible with the C library
Expat, a Python binding and a command-line checker. This project models its control in TLA+: what
each call does to the state, in which order, and what happens when it fails. TLC checks the models
on small instances; TLAPS proves the most important facts for every value of the constants.

Paths are relative to the repository. `PROJECT.json` maps every definition to the lines it models and
lists the hazards that the properties are for.

## 1. Inventory

| Component | State | Operations | What is hard | What makes it correct |
|---|---|---|---|---|
| One handle of the C interface (`crates/xeme_expat/src/lib.rs`) | parsing state, error, busy guard, default-dispatch flag, pending fragments, encoding callbacks | Parse, GetBuffer, ParseBuffer, Resume, Stop, DefaultCurrent, setters, Reset, Free | every callback may call back; stops, aborts and failures in any of them | events and fragments delivered once and in order; flags cleared on every way out; a failed document stays failed; encodings released once |
| Families of handles (same file) | lifetime tokens, shared budgets, depth, merged flag | create, external child, Reset, Free, merge, hash salt | a child outlives its parent; addresses are used again; calls from inside callbacks | no token leads to freed memory; a child reaches its own document only |
| Allocation accounting (`crates/xeme_storage/src/tracking.rs`, `allocator.rs`) | live, peak, input bytes and limits per family, a header per block, a scope stack per thread | allocate, resize, free, scopes, limit setters | threads race at every atomic; the backing allocator fails; a block outlives its scope | the count is what the blocks and running calls hold; limits hold at every step |
| Core parser, content (`crates/xeme/src/lib.rs`) | entity sources, element stack, namespace undo records, queued events, recorded error | feed, next_event, set_encoding_map, convert | input in pieces; errors behind queued events; entities that open or close elements | the same events and error as when read at once; bindings and entities undone; errors final |
| Shared declaration tables (`crates/xeme/src/dtd_tables.rs`, `dtd/semantic.rs`, callers) | an owner per family, a lock, tables swapped into the parser that works | external_child, next_event, set_limits, merge_external_subset | threads initialise an owner at once; locks are tried and not waited for; names are reserved and completed later | the first declaration counts; nothing is lost when a call fails; limits hold |
| Document type declaration (`dtd.rs`, `dtd/composition.rs`, `dtd/attlist.rs`, `dtd/grammar.rs`) | declaration in progress, conditional sections, open parameter entities | part of next_event | declarations composed from several entities and scanned in pieces | what is committed does not depend on the pieces; parameter entities nest |
| Entity values (`value.rs`, `value_lexer.rs`) | frames of the value in progress, the output shared with value children, a read marker per family, the place of the lexical scan | part of next_event, external_child | a child in use when the parent resumes; a reference nobody reads; recursion through several parsers; a token cut by a piece | a value is the text its literal and its references mean, or its declaration is left out; the scan does not depend on the cut |
| Start and end tags (`lib.rs` `parse_start`, `end_element`) | element stack, bindings in scope, undo blocks, expansion work | part of next_event | three ways to lower one tag; names compared while they are replaced; bindings applied one by one and undone later | each way gives the same event or error; the bindings are those of the open elements; what is copied is charged |
| Decoder and input (`encoding.rs`) | decoder, retained input, source window, input context | feed, set_encoding_map, resolve_encoding_conversion | input decoded again when the encoding is known; sequences cut by pieces; two representations of the context | nothing lost or decoded twice; positions and raw bytes are the input's |
| Scanners (`tag.rs`, `text.rs`, `lexical.rs`, `reference.rs`, `names.rs`) | position in a token, a start tag's plan, the deferred length | part of next_event | resume in the middle of a token; fast scanners beside slow ones; deferral | the same tokens as a scan of the whole text; none held back for ever; no text scanned again and again |
| Entity budget (`accounting.rs`) | work and direct bytes, limits, reservations | charge, reserve, release | children share it; limits may change | work never passes the limit unnoticed |
| Active entities (`active.rs`) | an index of open names | open, close, lookup | several indexes in the parser of a value | a name is found exactly while it is open |
| Event recycling (`recycling.rs`) | returned storage, bytes, generation | deliver, return | an event of an older configuration comes back | bytes within limits; no storage of another configuration |
| Shared pointers, queues (`crates/xeme_storage/src/shared.rs`, `queue.rs`) | counts, ring buffer | clone, drop, push, pop | storage fails while growing | order kept; freed with the last owner |
| Adapter arena, content models, hashing, strings | data | pure | none of its own | - |
| Command line, Python binding | a loop that feeds and drains | read, feed, drain | none of their own | - |

How they interact. The C interface calls the core: it feeds bytes, pulls one event at a time and calls
the application for each; the application calls the C interface again from inside. A reference to an
external entity makes the application create a child parser, which shares budgets (C) and declaration
tables (core) with its parent, and at its end merges them if they are separate. All memory goes through
the accounting, under the tracker that a call selects for its thread. The core may be used from several
threads; the C interface requires that the calls of a family be serialised.

## 2. Modules

| Module | Models | Run by | Proofs |
|---|---|---|---|
| `ExpatParser` | one C handle and its application | `MCExpatParser` | `ExpatParserProofs`, `ExpatDeliveryProofs` |
| `ExpatFamily` | many C handles | `MCExpatFamily` | `ExpatFamilyProofs` |
| `AllocationTracker` | byte accounting at the grain of atomics | `MCAllocationTracker` | `AllocationTrackerProofs` |
| `ContentParser` | the core parser outside the DTD | `MCContentParser` | `ContentProofs` |
| `ContentReference` | what a document means, by recursion over the whole of it | | |
| `DtdFamily` | declaration tables shared by parsers | `MCDtdFamily` | `DtdFamilyProofs` |
| `DefinitionTable` | what a declaration table promises (abstract) | | `DtdFamilyProofs` (refinement) |
| `InputEncoding`, `InputDecoder` | bytes to text: detection, decoding, the input source and the input context | `MCText` | |
| `InputReference` | a document decoded once, from all of its bytes | | |
| `MarkupText`, `TagPlanner`, `TokenScanner` | text to tokens: resumable scans, deferral, the planner of start tags, the fast paths | `MCText` | |
| `TokenReference` | the tokens of a whole document | | |
| `EntityValue` | entity values and the parsers that read their external parts | `MCValues` | `EntityValueProofs` |
| `EntityValueReference` | the text a literal means | | |
| `ValueScanner`, `ValueScannerReference` | the lexical scanner of external values, and its grammar | `MCValues` | |
| `StartTags`, `StartTagsReference` | start and end tags, and what the tags of a document mean | `MCValues` | |

`SequenceLemmas` holds facts about sequences and counting that `ContentProofs` and `EntityValueProofs` use.
`MCInputDecoder`, `MCTokenScanner`, `MCEntityValue`, `MCValueScanner` and `MCStartTags` hold the inputs of these models.
`MCText` and `MCValues` run models that do not interact beside each other: a behaviour picks one of them and leaves the others at
rest, so the states add up and do not multiply, and one run answers for all.

What these models have in common: the program is written so that its input may come in any pieces, and each is compared with a
reference that has no pieces, no retained state and one path. Where two pieces of code must do the same (the frames of
the adapter and owned events, the planner and the ordinary scan, the context in the source and beside it), both are modelled and
both are compared with the one reference.

### ExpatParser

The core is what the loop sees of it: `tokens` fed and not consumed, the `pending` events of the current
token, a recorded error `coreError`. `state`, `error`, `parseError`, `busy`, `defaultDispatch`,
`defaultPending` and the encoding fields are those of `XML_ParserStruct`. `ctl` says where the guarded
operation is and `frames` is the stack of callbacks. One action is one API call up to its first
callback, or one piece of `run_events_with_frame` between two callbacks. The application's calls
(`Requests`, `Calls`) are enabled when nothing runs and inside every callback; `Loop` is the code's
own progress and `Return` a callback's return. Positions, byte counts, the base URI, user data and content
models do not influence control and are left out. Storage failures are one nondeterministic error.

### ExpatFamily

`parser[h]` is the record at address h; an address that is free holds `Blank`. A lifetime token is a
number; `points` says where it leads, as the `AtomicPtr` in its `Shared` allocation does, so a token
goes on existing when its handle is freed and the address may be given to a new handle. `stack` holds
the calls in progress: a callback of one may start another on any handle that is not busy. The numbers
`core`, `parentCore` and `rootCore` are history: they name the documents, which the code has no
names for. `merges` is the history of all merges, in order, so that a second merge of the same subset
into the same core is seen. A step of the parse loop is not told apart here; what a call does
to its own document is ExpatParser's subject.

### AllocationTracker

Every atomic load, compare-and-swap, maximum and subtraction in `tracking.rs` is one step of a thread's
operation (`pc`, `op`). `owner` and `size` are a block's header, `backing` what the backing allocator
holds for it. Relaxed orderings are not modelled: each property is about one atomic, whose modification
order is total. A compare-and-swap that fails starts again at the load, as in the code.

The test of the relative limit is `next as f32 / direct as f32 > factor`. A count, a quotient and a factor are
modelled as f32 has them: a significand below `Precision` (2^24 in the code) times a power of two from `Scales`.
`Rounded` converts a count (to the nearest, ties to the even significand), and `Amplified` asks whether the rounded quotient
is above the factor, by comparing the exact one with the middle between the factor and its successor. So the code may
let a reservation pass the exact product of factor and input, and the model does: where a count has no exact f32, as
every other one beyond 2^24 bytes, or the factor is no whole number. `Within` is what remains true: exactly `live <= factor * direct`
where the counts are below 2^24 and the factor is whole, and otherwise the same but for three roundings of one part in
2^24 each. The default threshold is 64 MiB, so with the defaults the live counts compared are always beyond 2^24.

### ContentParser and ContentReference

Tokens stand for markup; the decoder is reduced to what it reports. `sources` is the stack of entity
replacement texts over the document, `stack` the open elements, `scopes` and `bindings` the namespace
undo blocks and their effect, `pending` the queue. `feed` may add any number of tokens, also half of one
(`part`). ContentReference defines the events and error of a document by recursion over its grammar,
without stacks or queues; the run compares the two for every cutting of every input.

### DtdFamily and DefinitionTable

Threads call parsers. A call that shares its parser (`external_child`, and `merge_external_subset` for the
child) may run beside others of the same kind; the rest borrow it exclusively, which Rust enforces.
`owner[p]` is `shared_tables`; `slot[p]` and `tables[f]` are swapped by `Lock` and `SwapBack`. A
declaration reserves its name, may be identified, and is committed or withdrawn, perhaps after other
members have run. DefinitionTable is the abstract specification: `TablesImplemented` is its `Spec` under
the mapping that takes a family's entries from wherever they are, slot or owner. Attribute defaults follow the
same rules and are left out.

### InputEncoding, InputDecoder and InputReference

`decoder` is struct Decoder, `source` the document's Source with its `text`, widths, conversions and position, `context`
the InputContext: one that shows the source's own text (native), until a piece is not UTF-8, and one that keeps its own copy
from then on. `Feed` is one call with any number of further bytes; `Publish` takes text out of the source as
tokens do; `InstallMap` and `ResolveConversion` are the application's answers. A byte is a number, but a declaration's beginning and its
encoding name are one byte each, so that detection has few lengths to meet. Compaction and draining, which the code does
at thresholds of kilobytes, are done at two.

### MarkupText, TagPlanner, TokenScanner and TokenReference

Text is a sequence of units, one for a byte. `scan` is struct Scan, the progress of a token that is not complete; `planner` is
TagScanner with its AttributeScanner. Each kind of token has an action of its own, with the mode, the deferral, the scan, the
refusal and the consumption in the order of `next_event_inner` and `next_native_character_data_for_c`. Deferral
(`Defers`) puts a scan off until the text has doubled. Bracket depth in a plain scan is never changed by the code and is left out.

### EntityValue and EntityValueReference

`parsers` has the frames, the request and the declaration of the document and of each value child, `outputs` the values behind their
TryLocks, `read` the family's marker. Any call that takes an output's lock may find it held by another parser's (`InUse`) and then fails
its parser: a step of the expansion, a skip (`ResumeRefused`) or an XML declaration (`DeclarationRefused`); a child that cannot be made is
only not there. A child asks for children in the same way as the document does. The application makes a child or not,
feeds it in pieces, gives up on it, goes on with its parent early, and skips declarations. The reference expands a literal by one recursion, given
what the application did at each request; it says what a value is for an application that finishes its children in order
(`docs/library.md`). For one that does not, it says what each parser has to write (`PiecesKept`), and `ValuesApart` that no child
writes into two values. `NoNameTwice` is about both: it follows the parsers that wait for each other (`Above`) and takes what all
of them are expanding together. The last two need no reference and stand at the end of EntityValue, so that they can be proved.

### ValueScanner and ValueScannerReference

`scanner` is struct ValueScanner; `Scan` runs it over what has arrived. The reference cuts the whole text into tokens by their
grammar. Characters are classes of those the code tells apart.

### StartTags and StartTagsReference

A name, a value and a URI is a sequence of atoms; a reference is one atom. `namespaces` and `scopes` are the bindings and the
undo blocks, `stack` the elements with the two names packed into one string, `expanded` the shared count of work. `ParseStart` with
`framed` is a tag for which there is an adapter frame and which the planner completed; `Started` then chooses between owned events, a
frame with the names as written and a frame with expanded names as `parse_start` does. `MatchedEnd` is an end tag found by its opening
name. The reference has the element's attributes, the bindings in scope from the open start tags alone, and the set of errors a
tag may be refused for: which of several is reported first is not part of it.

## 3. Runs

| Run | Question | Bounds, and why they suffice |
|---|---|---|
| `expat_markup` | Do stops, resumes, aborts, handler changes, nested default callbacks and storage failures lose, repeat or reorder anything, and does a failed document stay failed? | Two calls that feed, two calls from callbacks: a stop and its resume, an abort after a failure, a handler changed under pending fragments. Chunks hold each kind of token, also behind another. |
| `expat_encoding` | Is each encoding instance released once, does each call return, does a cooperative application reach the end? | Two documents (one Reset) and two instances: each may be refused, or be installed and released by Reset or Free. The second is offered to the document after the Reset: within a document an instance in use is never replaced. |
| `expat_family` | Does a token lead to the right document, and is a handle never freed under a call? | Three addresses: root, child, grandchild. Three documents and children: all of these at once, or fewer with one more at a freed or reset address. Three nested calls: a callback's call on another or on its own handle, and the call a callback of that call makes. |
| `tracker_accounting` | Are bytes leaked, released twice, charged outside their family, or limits passed, although the limits change and are read before the swap, and the relative one is compared in rounded numbers? | Two threads, two blocks, one family and the scope of none, sizes 2 and 3 under a ceiling of 5: two reservations that fit alone and not together. Input of 4 bytes or none, factor 1 or 3/2, threshold 0 or 3. Significands of two bits: 5 has no exact form, so a reservation that brings the count to 5 on 4 bytes of input passes factor 1, as 2^24 + 1 does on 2^24 in the code. The proofs cover any number of families. |
| `content` | Are the events and the error those of the document read at once? | 60-odd inputs, each cut everywhere; they bring every token into every context: elements, sections, entities that open or close elements, recursion, fragments, undecodable input, encodings supplied late. Two more with failures of memory anywhere. |
| `dtd_family` | Do the members of a family share one table, keep reservations and limits, and implement DefinitionTable? | Two threads, a document and a child, two names, limits 1 and 2, one failure: owners initialised at once, a name reserved by one and declared by the other. |
| `dtd_merges` | Can two merges wait for each other, and do imports keep declarations? | Two documents whose external subsets are complete, merging from each other and from themselves while a declaration completes. |
| `text` | Does the text of a document depend on its pieces? Do its tokens, their places, and the delay and the work of finding them? | Thirty-one documents of up to a dozen bytes in every encoding, cut at every place, answers early, late or never, a failure of memory at any feed. A hundred and forty texts with each kind of token, whole, broken and at the limit, cut at every place (two cuts for the short ones), with and without deferral and the adapter's paths. |
| `values` | Is a value what its references mean, whatever the application does with them? Does a scan depend on its pieces? Do the three ways of a start tag agree, and are bindings undone? | Thirty declarations with references to depth three and two children. All texts of two characters of 25 classes, those of three that begin a token of several characters, and 1,600 longer ones, in every division. Documents of four tags out of 24, in 17 configurations of separator, triplets, defaults, entities and budget; lists of more than two attributes stand for those of more than eight. |
| `expat_error_stops`, `tracker_backing`, `content_resumed` | Findings, see section 6. | |

Deadlock is checked in the tracker and content runs. In the others the application may stop calling, or its bounded
calls are used up, so the system may really stop. The symmetric runs check no liveness: `dtd_merges` and the
fair runs use no symmetry.

Reachability. The passing runs fire every action and every disjunct of the next-state relations, and each property
has a mutant, listed in `PROJECT.json`: a change to one definition, of the kind a slip in the code would
make (a guard dropped, a reset forgotten, a check before an increment), under which the same run finds the
property violated.

### Properties worth knowing

- `EventsInOrder`, `WholeTags`, `FragmentsInOrder`, `StopHonoured` (ExpatParser): between the loop's
  re-entries nothing is lost or repeated, and a stop takes effect at the end of the tag. The order is said of each two
  neighbours in a log: one is the first of its token, or the next after the one before it.
- `FinishedComplete`: a document that finished without error has been delivered and merged completely.
- `TokensCurrent`, `OwnDocument` (ExpatFamily): a child whose parent was freed or reset reaches nothing,
  also when the address is used again.
- `Progress`: each call returns when its callbacks do, and a document fed to its end by a cooperative application finishes.
- `Accounted`, `CeilingKept`, `AmplificationKept`, `BlocksIntact` (AllocationTracker). `AmplificationKept` says how far the
  relative limit can be passed, as section 2 explains; that it is never passed exactly is false of the code.
- `EventsExpected`, `OutcomeExpected` (ContentParser against ContentReference). Two errors depend on how a
  document is fed and are allowed for: an entity that breaks off is reported as the decoding error of the
  document when that was fed already, and a terminator after a name in the prolog as a syntax error when
  only its beginning was fed.
- `NestingKept` (ContentParser): open entities nest, each undo block has its element, and each announced namespace is closed.
- `TablesImplemented`, `LimitsKept`, `FamilyKept` (DtdFamily): the last is the invariant of the family, who shares a table and what
  a reservation still stands for.
- `DecodedExpected`, `ContextKept`, `PositionsExpected` (InputDecoder): what was read is a beginning of the reference's text, the
  context holds the bytes that any event can still refer to, and a position is the one counted from the start.
- `TokensExpected`, `PlacesExpected`, `DeliveredPromptly`, `ProgressKept` (TokenScanner): the last two are what reparse deferral
  must not cost, a token held back although it is due, and what it must give, work linear in the input.
- `ValuesExpected`, `NoNameTwice`, `ValuesApart` (EntityValue): the last says that no child writes into the values of
  two declarations, whoever goes on after its parent resumed; `ScanExpected` (ValueScanner) includes that a text is looked at
  twice at most; the scanner's own test allows three times.
- `TagsExpected`, `ScopesRestored`, `WorkCharged` (StartTags): no start tag hands out more than it was written with and charged for.

## 4. Fairness

- ExpatParser: weak fairness of `Loop`, plain code of a running call, and of `Return`: a call returns only if
  its callbacks do. `Completion` also assumes an application that resumes a suspended parser and feeds one that is not,
  and says so in the name `CooperativeSpec`.
- ContentParser: weak fairness of the steps of a call that was started (`Answer`, `Scan`). Nothing is assumed of the caller.
- DtdFamily: weak fairness of each thread's own steps: the code never waits, so a thread inside a call can always go on
  if it is scheduled. Nothing forces a thread to start a call.
- AllocationTracker and ExpatFamily state no liveness. A compare-and-swap loop may be starved, as lock-free code may be.

## 5. Proofs

All theorems hold for any finite or infinite number of handles, inputs and names unless an assumption says otherwise,
and rest only on the ASSUMEs of the modules, which say what kind of value a constant is (bounds are natural
numbers, `NoHandle` is no handle, threads and blocks are finite and disjoint, sizes are positive). TLC evaluates them in every run.

- **ExpatParserProofs.** `GuardInv`, the types of `ctl`, `frames` and the two flags with `GuardDiscipline`, is inductive:
  a push or pop of a frame has a lemma of its own, and each group of actions one step. `GuardCorrect` follows.
  `FailedStaysFailed` proves the action property `TerminalError` from the type invariant; `TypeCorrect` needs that every queue
  whose head is taken is not empty.
- **AllocationTrackerProofs.** The sum of the bytes charged to a family is the cardinality of a set with one element for each
  byte, so the lemmas on finite sets replace an induction over holders. `Inv` adds to the sums what each thread knows
  of its operation at its step (`OpOK`), that no two operations work on one block (`Exclusive`), and that a header
  agrees with its block (`Headers`). It is needed because `Accounted` alone does not say that a release has its bytes.
  `AccountedCorrect`, `NoUnderflowCorrect`, `CeilingCorrect`, `BlocksIntactCorrect` and `TypeCorrect` follow.
- **ExpatFamilyProofs.** `Inv` adds to the properties that tokens and cores are numbered alike and no two handles have the same
  (`Numbered`), that a handle is being destroyed exactly under the call that destroys it (`Destroyed`), and that what was
  merged is marked for as long as its handle exists (`Marked`), so that the sequence of merges has each subset once. A step that leaves the identity of a handle alone, one
  that gives it a new token and one that ends it have a lemma each. `TypeCorrect`, `TokensCorrect`, `PinnedCorrect` and
  `MergedCorrect` follow. `OwnDocumentCorrect` also needs `Places`: a handle's root core is its parent's and its depth one more
  (`Rooted`), and only roots are reset. The root that the salt is set on is found by a recursive function
  over the depth; its climb is followed by a minimal counterexample in a set of numbers (`WellFoundedInduction` for
  sets), so no induction over an operator is used.
- **ExpatDeliveryProofs** extends the first module with what one handle delivers.
  - `LoopInv` is `TypeInv`, what the queue of the core may hold at each place of the loop (`Waiting`, `Queued`), and what is still
    to come when a call ends (`Ends`). `WholeTagsCorrect` and `FinishedCorrect` follow: a call leaves the loop with an
    empty queue unless an error dropped it. `StopCorrect` adds `Current`: what waits in the queue belongs to the last event
    dispatched, unless the loop is about to give up.
  - `Owned` says that an encoding that is in use was created and not released; `ConverterCorrect` follows.
  - `Order` says that the last event in the log and the queue are one token's events (`Aligned`), that nothing in the log is later
    than what was consumed (`UpTo`), and that an event waits only behind its predecessor. `Raw` says the same of the
    fragments that were written and those that are pending, taken together (`Chain`), and that those of the current token are
    no longer waiting (`Unread`). `EventsCorrect` and `FragmentsCorrect` follow.
- **DtdFamilyProofs.** `Core` says why a family's tables are in one place: calls borrow as Rust makes them (`CallsSound`), an
  owner that is being published is nobody else's (`OwnersMade`), a lock is held by the one call inside it (`LocksHeld`), and
  a child has its parent's owner (`OwnersShared`). `Reservations` adds what a reserved name stands for. Together they are
  inductive and give `FamilyCorrect`; `LimitsCorrect` is proved for each step from `Core`. `TablesCorrect` is the refinement: `Table`, the entries
  of a family wherever they are, starts as DefinitionTable starts, and every step changes it as one of DefinitionTable's actions
  does or not at all.
- **AllocationTrackerProofs**, again: `AmplificationCorrect` adds to `Inv` what each thread has read on its way to a
  reservation (`Seen`). Limits and input are read at different steps and may change between them; the property holds because
  input only grows and rounding keeps the order of counts (`RoundedMonotone`), so that the test, once passed, is passed by
  every smaller count and larger input (`AmplifiedLess`). `TestHolds` is that invariant; a count is off by at most one part
  in `Precision` when it is rounded (`RoundedNear`), and with that `AmplifiedWithin` draws `Within` from the test.
  `FloatsAssumption` says that significands are below an even `Precision`, that scales at least double, and that every
  count up to the ceiling and the input bound has a scale.
- **ContentProofs.** `ErrorFinalCorrect` needs the guards alone. `NestingCorrect` needs `IInv`. What the
  application was told is the log and the queue taken together, `log \o pending`, so that a delivery changes
  nothing and every other step adds to it (`Tells`) exactly what it does to the element stack and the undo blocks
  (`Accounts`); `Told` says so of states. `ScanKinds` sorts the fourteen scanning actions into those that fail, leave a source, enter a
  source, and read a token, the last into those that leave the stack alone, open an element or shut one; each part of `IInv` then
  has a lemma for each kind. `Nested` and `Indexed` are `EntitiesNested` without the premise that there is no error where the code
  keeps it anyway: an unknown encoding may still be supplied after its error, and parsing goes on from the same stacks. A failed
  start tag announces and withdraws the same namespaces (`CloseBindingsNeutral`, by counting the events and their reversal).
  `TokensAssumption` says that tokens are records, that a tag's name has a prefix, and that the prefixes declared are in `Prefixes`.
- **EntityValueProofs.** `NoNameTwice` is about a line of parsers of any length, and each of them sees its own frames only. `IInv` says
  why that is enough: a name is opened once by a parser, and not when it came with it (`Once`); a parser that asks for a document
  stands still with a name that is not open and a depth that allows one more (`Asks`); and a child that is waited for knows what its
  parent has opened and how deep it is (`Follows`). The last is kept because a parent that is waited for does not move, and because
  one that goes on is not waited for any more: requests are numbered and no number comes again. `NoNameTwiceCorrect` follows
  by a minimal counterexample in the depth: the names of a line are known to its last parser (`Lined`), so what that one opens is new,
  and the limit on its own depth counts them all. `ValuesApartCorrect` needs `Apart`: a child's pieces are in the output it was made
  with and in the value that output became, and every declaration that waits has an output of its own. `ScenariosAssumption` says that
  literals, entities and documents are sequences, that the parameter entities around a declaration are declared and different,
  and that its depth was allowed.

Model-checked only:

- Liveness (`Completion`, `CallReturns`, `CallsReturn`, `Progress`): it needs fairness and ENABLED, which the prover does not treat.
- The comparisons with references (`EventsExpected`, `OutcomeExpected`, `DecodedExpected`, `PositionsExpected`, `TokensExpected`, `PlacesExpected`,
  `DeliveredPromptly`, `ValuesExpected`, `ScanExpected`, `TagsExpected`, `ScopesRestored`): the references are RECURSIVE operators, about which nothing
  can be proved here, and their statements are inductions over data.
- `ContextKept`, `ProgressKept` and `WorkCharged`: safety properties of models that use recursive operators of their own, or
  of modules that do; see the plan.

The type invariant and `NoUnderflow` of AllocationTracker are proved and have no place of their own in a run.

## 6. Findings

Three runs check what a comment or document of the repository says and find that the code does otherwise.

- `expat_error_stops`: the comment in the event loop (`crates/xeme_expat/src/lib.rs:1393`) says that allocation and
  processing errors still stop the callbacks of a tag. An abort after such an error replaces it by the error "aborted", and
  the remaining callbacks run.
- `tracker_backing`: the comment on `live_bytes` (`crates/xeme_storage/src/tracking.rs:41`) says that it covers all live
  backing bytes. A resize through a fresh block holds the old and the new one while only the larger is counted.
- `content_resumed`: `docs/library.md:24` says that parse errors are terminal but for an unresolved encoding. Supplying the encoding
  also takes back the error of a feed that was refused in between.

## 7. Not modelled, and why

- Document type declarations: their grammar, their composition out of parameter entities, conditional sections, content models.
  What is committed to the tables (DtdFamily), the tokens of the internal subset (TokenScanner) and the expansion of values
  (EntityValue) are.
- InputDecoder: the place of an encoding error, the bytes of public identifiers, the sources of internal entities, the cursor
  that callbacks count positions with.
- TokenScanner: CDATA sections, entity sources, text other than white space outside the root, the vectorised forms of searches (the
  same search by other means).
- EntityValue: the accounting of indirect work, the text handed to default handlers, references from the internal subset.
- StartTags: names with converted characters and their encodings, the accounting of indirect work, unparsed entities in values, the
  bindings an external child inherits, several ID attributes, failures of memory, the byte limits of the arena.
- ContentParser takes tokens and attributes as units; TokenScanner and StartTags have what is inside them. The three are not composed:
  a state of one is not a state of another, and their agreement is by the code's own interface, a token and its event.
- Byte budgets of callbacks and input in the C interface: counters that are only added to and compared; their failure is one
  of the storage failures of ExpatParser.
- Entity budget and event recycling: shared counters and a bounded store; in the plan.
- Alignment and provenance of memory, panics inside the standard library, the release and acquire orderings of tokens (calls of
  a family are serialised by contract).
- The storage of the adapter arena: the same events as through the queue. Which tags take it is part of StartTags.
- Hashing: its distribution is not a property of states.
- The command line and the Python binding: clients of the interfaces modelled, with no state of their own.

## 8. Plan

1. `DtdDeclarations`: declarations composed of several entities and scanned in pieces, conditional sections, parameter entities,
   compared with a reference for whole declarations. It interacts with DtdFamily through the
   reservation of names, which becomes its abstract view of the table, and with EntityValue, which suspends it.
2. `EntityBudget` and `EventRecycling`: shared counters with limits, as AllocationTracker; candidates for proofs by cardinality.
3. CDATA sections and entity sources in TokenScanner.
4. Proofs: `ContextKept` of InputDecoder and `ProgressKept` of TokenScanner, whose operators have to be written without recursion first;
   what they say of lengths of text is a sum over a sequence, and may stay with TLC.
