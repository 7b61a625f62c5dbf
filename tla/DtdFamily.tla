----------------------------- MODULE DtdFamily -----------------------------
(***************************************************************************)
(* The entity tables that a document's parsers share                       *)
(* (crates/xeme/src/dtd_tables.rs and its callers in lib.rs, dtd.rs,       *)
(* dtd/semantic.rs and value.rs).  A parser and the parsers of its         *)
(* parameter entities are one family and own one table; the parser of a    *)
(* general entity starts a family of its own with a copy.  While a call    *)
(* needs the table it is swapped into the parser, under a lock that is     *)
(* tried once and never waited for.                                        *)
(*                                                                         *)
(* Threads call the parsers.  A call borrows its parser exclusively, but   *)
(* external_child, and merge_external_subset for its child, only share it. *)
(*                                                                         *)
(* General and parameter entities have separate names and one count: here  *)
(* they are just names.  Attribute defaults follow the same rules and are  *)
(* left out.                                                               *)
(***************************************************************************)
EXTENDS Naturals, FiniteSets

CONSTANTS
  Threads, Parsers, Families, Names,
  Roots,            \* the parsers that exist at first, of unrelated documents
  Limits,           \* values of max_entities the application may choose
  NoParser, NoFamily, NoName, Absent,
  MaxErrors,        \* bound: parsers that fail, but for a lock
  MaxDeclarations   \* bound: entity declarations of each parser

ASSUME RootsAssumption == Roots \subseteq Parsers
ASSUME NamesAssumption == IsFiniteSet(Names) /\ NoName \notin Names
ASSUME NoneAssumption == NoParser \notin Parsers /\ NoFamily \notin Families
ASSUME LimitsAssumption == Limits \subseteq Nat
ASSUME BoundsAssumption == MaxErrors \in Nat /\ MaxDeclarations \in Nat
ASSUME AbsentAssumption ==
  Absent \notin [by : Parsers, number : Nat, state : {"bare", "named", "value", "external"}]

VARIABLES
  live,        \* the parsers that exist
  subset,      \* external_subset: it reads a parameter entity
  parent,      \* History: the parser it was made by, or NoParser
  limit,       \* its own max_entities
  fed,         \* it has been parsing
  finished,
  error,       \* it has recorded an error
  reserved,    \* the name its declaration in progress has reserved
  awaited,     \* the name whose value is still being read
  declared,    \* number of its declarations
  owner,       \* shared_tables, once set
  slot,        \* the tables in the parser
  tables,      \* the tables in each family
  locked,      \* their locks
  made,        \* the families that have been allocated
  call         \* the call each thread is in

parserVars == <<live, subset, parent, fed, finished>>
declVars == <<error, reserved, awaited, declared>>
tableVars == <<slot, tables, locked>>
vars == <<parserVars, limit, declVars, owner, tableVars, made, call>>

Idle == [op |-> "none", at |-> "idle", parser |-> NoParser, other |-> NoParser,
         family |-> NoFamily]

NoEntries == [n \in Names |-> Absent]

Empty(cap) == [entries |-> NoEntries, cap |-> cap]

Init ==
  /\ live = Roots
  /\ \E chosen \in [Roots -> Limits] :
       limit = [p \in Parsers |-> IF p \in Roots THEN chosen[p] ELSE 0]
  /\ subset = [p \in Parsers |-> FALSE] /\ parent = [p \in Parsers |-> NoParser]
  /\ fed = [p \in Parsers |-> FALSE] /\ finished = [p \in Parsers |-> FALSE]
  /\ error = [p \in Parsers |-> FALSE]
  /\ reserved = [p \in Parsers |-> NoName] /\ awaited = [p \in Parsers |-> NoName]
  /\ declared = [p \in Parsers |-> 0]
  /\ owner = [p \in Parsers |-> NoFamily]
  /\ slot = [p \in Parsers |-> Empty(limit[p])]
  /\ tables = [f \in Families |-> Empty(0)] /\ locked = [f \in Families |-> FALSE]
  /\ made = {} /\ call = [t \in Threads |-> Idle]

-----------------------------------------------------------------------------
(***************************************************************************)
(* Calls and what they borrow                                              *)
(***************************************************************************)

SharingOps == {"parameter", "general"}
ExclusiveOps == {"next", "limits", "merge"}

Borrowed(p) == \E t \in Threads : p \in {call[t].parser, call[t].other}
BorrowedExclusively(p) ==
  \E t \in Threads : call[t].op \in ExclusiveOps /\ call[t].parser = p

Goto(t, at) == call' = [call EXCEPT ![t].at = at]
Return(t) == call' = [call EXCEPT ![t] = Idle]
Record(p) == error' = [error EXCEPT ![p] = TRUE]

\* What comes after the owner is known.
AfterOwner(op) == CASE op = "parameter" -> "make" [] op = "merge" -> "other" [] OTHER -> "lock"

\* A call begins by looking for the owner.  Not every call needs one.
Begin(t, op, p, other) ==
  /\ call[t] = Idle /\ p \in live
  /\ IF op \in SharingOps THEN ~BorrowedExclusively(p) ELSE ~Borrowed(p)
  /\ LET at == CASE owner[p] # NoFamily -> AfterOwner(op)
                 [] owner[p] = NoFamily /\ op = "general" -> "make"
                 [] owner[p] = NoFamily /\ op = "limits" -> "work"
                 [] OTHER -> "allocate"
     IN call' = [call EXCEPT ![t] = [op |-> op, at |-> at, parser |-> p, other |-> other,
                                     family |-> NoFamily]]
  /\ UNCHANGED <<live, subset, parent, finished, limit, declVars, owner, tableVars, made>>

\* external_child, without a context and with one.
ExternalChild(t, p) ==
  /\ Begin(t, "parameter", p, NoParser) \/ Begin(t, "general", p, NoParser)
  /\ UNCHANGED fed

\* The parsers that read declarations: in the document type declaration or in
\* a parameter entity.
Declares(p) == p \in Roots \/ subset[p]

\* next_event after input, where it needs the tables.
NextEvent(t, p) ==
  /\ ~finished[p] /\ ~error[p] /\ (Declares(p) \/ owner[p] # NoFamily)
  /\ Begin(t, "next", p, NoParser) /\ fed' = [fed EXCEPT ![p] = TRUE]

\* Limits are set before there is input.
SetLimits(t, p) == ~fed[p] /\ Begin(t, "limits", p, NoParser) /\ UNCHANGED fed

\* A completed child that does not share the tables already.
MergeExternalSubset(t, p, child) ==
  /\ ~error[p] /\ child # p /\ subset[child] /\ finished[child]
  /\ owner[p] = NoFamily \/ owner[p] # owner[child]
  /\ ~BorrowedExclusively(child)
  /\ Begin(t, "merge", p, child) /\ UNCHANGED fed

-----------------------------------------------------------------------------
(***************************************************************************)
(* The owner of the tables                                                 *)
(***************************************************************************)

\* Which parser or family is the next to be used makes no difference.
Fresh(S) == CHOOSE x \in S : TRUE

\* ensure_shared_tables allocates before it sets the owner: two threads may.
AllocateOwner(t) ==
  LET p == call[t].parser IN
  /\ call[t].at = "allocate"
  /\ \/ /\ made # Families /\ UNCHANGED error
        /\ LET f == Fresh(Families \ made) IN
           /\ made' = made \cup {f}
           /\ tables' = [tables EXCEPT ![f] = Empty(slot[p].cap)]
           /\ call' = [call EXCEPT ![t].at = "publish", ![t].family = f]
     \/ /\ IF call[t].op = "parameter" THEN UNCHANGED error ELSE Record(p)
        /\ Return(t) /\ UNCHANGED <<made, tables>>
  /\ UNCHANGED <<parserVars, limit, reserved, awaited, declared, owner, slot, locked>>

\* OnceLock::set: the first one stays.
PublishOwner(t) ==
  LET p == call[t].parser IN
  /\ call[t].at = "publish"
  /\ owner' = IF owner[p] = NoFamily THEN [owner EXCEPT ![p] = call[t].family] ELSE owner
  /\ Goto(t, AfterOwner(call[t].op))
  /\ UNCHANGED <<parserVars, limit, declVars, tableVars, made>>

-----------------------------------------------------------------------------
(***************************************************************************)
(* External children                                                       *)
(***************************************************************************)

NewParser(t, isSubset, family) ==
  LET p == call[t].parser
      child == Fresh(Parsers \ live)
  IN
  /\ live # Parsers /\ live' = live \cup {child}
  /\ parent' = [parent EXCEPT ![child] = p] /\ subset' = [subset EXCEPT ![child] = isSubset]
  /\ limit' = [limit EXCEPT ![child] = limit[p]]
  /\ slot' = [slot EXCEPT ![child] = Empty(limit[p])]
  /\ owner' = [owner EXCEPT ![child] = family]
  /\ UNCHANGED <<fed, finished>>

\* Variant: the owner this call allocated.
AllocatedOwner(t) == IF call[t].family # NoFamily THEN call[t].family ELSE owner[call[t].parser]

\* The owner that was set.
SharedOwner(t) == owner[call[t].parser]

\* A child that shares the tables, or one of a parser that has none.
MakeChild(t) ==
  LET isSubset == call[t].op = "parameter" IN
  /\ call[t].at = "make" /\ Return(t)
  /\ \/ NewParser(t, isSubset, IF isSubset THEN SharedOwner(t) ELSE NoFamily)
     \/ UNCHANGED <<parserVars, limit, owner, slot>>
  /\ UNCHANGED <<declVars, tables, locked, made>>

\* clone_for_general_child
Copied(entry) ==
  IF entry # Absent /\ entry.state = "bare" THEN [entry EXCEPT !.state = "value"] ELSE entry

\* A child with a copy, made under the lock.
CopyTables(t) ==
  LET p == call[t].parser
      copy == [n \in Names |-> Copied(tables[owner[p]].entries[n])]
  IN
  /\ call[t].at = "copy" /\ Return(t)
  /\ locked' = [locked EXCEPT ![owner[p]] = FALSE]
  /\ \/ LET f == Fresh(Families \ made) IN
        /\ made # Families /\ made' = made \cup {f} /\ NewParser(t, FALSE, f)
        /\ tables' = [tables EXCEPT ![f] = [entries |-> copy, cap |-> limit[p]]]
     \/ UNCHANGED <<parserVars, limit, owner, slot, tables, made>>
  /\ UNCHANGED declVars

-----------------------------------------------------------------------------
(***************************************************************************)
(* with_dtd_tables                                                         *)
(***************************************************************************)

\* Variants: nobody looks at the lock; who finds it taken waits.
NeverLocked(f) == FALSE
WaitInstead(t, f) == FALSE

Locked(f) == locked[f]

\* What the call has locked is unlocked.
Unlock(families) == locked' = [f \in Families |-> locked[f] /\ f \notin families]
OtherLocked(t) == IF call[t].op = "merge" THEN {owner[call[t].other]} ELSE {}

\* dtd_busy: the call fails at once.  Only a merge records the error.
Refuse(t, f) ==
  /\ Locked(f) /\ Return(t)
  /\ IF call[t].op = "merge" THEN Record(call[t].parser) ELSE UNCHANGED error
  /\ Unlock(IF call[t].at = "lock" THEN OtherLocked(t) ELSE {})
  /\ UNCHANGED <<slot, tables>>

\* The tables of a merged child are locked first.
LockOther(t) ==
  LET f == owner[call[t].other] IN
  /\ call[t].at = "other"
  /\ \/ /\ f = NoFamily /\ Goto(t, "lock") /\ UNCHANGED <<error, locked>>
     \/ /\ f # NoFamily /\ ~Locked(f)
        /\ locked' = [locked EXCEPT ![f] = TRUE] /\ Goto(t, "lock") /\ UNCHANGED error
     \/ f # NoFamily /\ Refuse(t, f)
  /\ UNCHANGED <<parserVars, limit, reserved, awaited, declared, owner, slot, tables, made>>

\* Scope::new swaps the tables into the parser; a snapshot leaves them.
Lock(t) ==
  LET p == call[t].parser
      f == owner[p]
  IN
  /\ call[t].at = "lock"
  /\ \/ /\ ~Locked(f) /\ locked' = [locked EXCEPT ![f] = TRUE] /\ UNCHANGED error
        /\ \/ /\ call[t].op = "general" /\ Goto(t, "copy") /\ UNCHANGED <<slot, tables>>
           \/ /\ call[t].op # "general" /\ Goto(t, "work")
              /\ slot' = [slot EXCEPT ![p] = tables[f]]
              /\ tables' = [tables EXCEPT ![f] = slot[p]]
     \/ Refuse(t, f)
  /\ UNCHANGED <<parserVars, limit, reserved, awaited, declared, owner, made>>

\* Scope::drop, on every way out.
SwapBack(t) ==
  LET p == call[t].parser IN
  IF owner[p] = NoFamily THEN UNCHANGED <<slot, tables>>
  ELSE /\ tables' = [tables EXCEPT ![owner[p]] = slot[p]]
       /\ slot' = [slot EXCEPT ![p] = tables[owner[p]]]

Leave(t) ==
  /\ call[t].at = "leave" /\ Return(t)
  /\ SwapBack(t) /\ Unlock({owner[call[t].parser]} \cup OtherLocked(t))
  /\ UNCHANGED <<parserVars, limit, declVars, owner, made>>

-----------------------------------------------------------------------------
(***************************************************************************)
(* What a call does with the tables                                        *)
(***************************************************************************)

Count(entries) == Cardinality({n \in Names : entries[n] # Absent})

\* Variant: only the limit of the family counts.
RoomInFamily(p) == Count(slot[p].entries) < slot[p].cap

\* entity_limit: that of the parser and that of the family.
Room(p) == Count(slot[p].entries) < slot[p].cap /\ Count(slot[p].entries) < limit[p]

\* Variant: a declaration replaces what is there.
VacantAlways(p, n) == TRUE

Vacant(p, n) == slot[p].entries[n] = Absent

Put(p, n, entry) == slot' = [slot EXCEPT ![p].entries[n] = entry]
Working(t, op) == call[t].op = op /\ call[t].at = "work"
MayFail == Cardinality({p \in Parsers : error[p]}) < MaxErrors
Declaring(t) == Working(t, "next") /\ ~error[call[t].parser] /\ ~finished[call[t].parser]

\* The declaration of a parser that is in progress.
Entry(p, state) == [by |-> p, number |-> declared[p], state |-> state]

\* reserve_declaration_name.  Of a name that has an entry only the syntax is checked.
Reserve(t, n) ==
  LET p == call[t].parser IN
  /\ Declaring(t) /\ Declares(p) /\ reserved[p] = NoName /\ awaited[p] = NoName
  /\ declared[p] < MaxDeclarations
  /\ Vacant(p, n) /\ Room(p)
  /\ slot' = [slot EXCEPT ![p].entries[n] =
                [by |-> p, number |-> declared[p] + 1, state |-> "bare"]]
  /\ declared' = [declared EXCEPT ![p] = @ + 1]
  /\ reserved' = [reserved EXCEPT ![p] = n]
  /\ UNCHANGED <<parserVars, limit, error, awaited, owner, tables, locked, made, call>>

\* prepare_declaration_reservation: the system identifier has been read.
Identify(t) ==
  LET p == call[t].parser
      n == reserved[p]
  IN
  /\ Declaring(t) /\ n # NoName /\ slot[p].entries[n].state = "bare"
  /\ Put(p, n, Entry(p, "named"))
  /\ UNCHANGED <<parserVars, limit, declVars, owner, tables, locked, made, call>>

\* commit_declaration_unit takes the reservation out and declares the name; or
\* its value has to wait for other entities; or the declaration is wrong; or it
\* is one of those skipped after an unread entity, and the reservation stays.
Commit(t) ==
  LET p == call[t].parser
      n == reserved[p]
      state == slot[p].entries[n].state
      others == Count(slot[p].entries) - 1
  IN
  /\ Declaring(t) /\ n # NoName
  /\ reserved' = [reserved EXCEPT ![p] = NoName]
  /\ \/ /\ others < limit[p] /\ others < slot[p].cap
        /\ Put(p, n, Entry(p, IF state = "bare" THEN "value" ELSE "external"))
        /\ UNCHANGED <<awaited, error, call>>
     \/ /\ state = "bare"
        /\ Put(p, n, Absent) /\ awaited' = [awaited EXCEPT ![p] = n]
        /\ Goto(t, "leave") /\ UNCHANGED error
     \/ /\ MayFail /\ Put(p, n, Absent)
        /\ Record(p) /\ Goto(t, "leave") /\ UNCHANGED awaited
     \/ UNCHANGED <<slot, awaited, error, call>>
  /\ UNCHANGED <<parserVars, limit, declared, owner, tables, locked, made>>

\* finish_value_declaration: the name may have been declared meanwhile.
FinishValue(t) ==
  LET p == call[t].parser
      n == awaited[p]
  IN
  /\ Declaring(t) /\ n # NoName
  /\ awaited' = [awaited EXCEPT ![p] = NoName]
  /\ \/ Vacant(p, n) /\ Room(p) /\ Put(p, n, Entry(p, "value"))
     \/ ~Vacant(p, n) /\ UNCHANGED slot
  /\ UNCHANGED <<parserVars, limit, error, reserved, declared, owner, tables, locked, made, call>>

\* The end of an external subset.
Finish(t) ==
  LET p == call[t].parser IN
  /\ Declaring(t) /\ subset[p] /\ reserved[p] = NoName /\ awaited[p] = NoName
  /\ finished' = [finished EXCEPT ![p] = TRUE] /\ Goto(t, "leave")
  /\ UNCHANGED <<live, subset, parent, fed, limit, declVars, owner, tableVars, made>>

\* An error of any kind, in next_event or an import.  A call that its parser
\* refuses at once leaves the same state.
Fail(t) ==
  /\ MayFail
  /\ Declaring(t) \/ Working(t, "merge")
  /\ Record(call[t].parser) /\ Goto(t, "leave")
  /\ UNCHANGED <<parserVars, limit, reserved, awaited, declared, owner, tableVars, made>>

\* set_limits
ChangeLimits(t) ==
  LET p == call[t].parser IN
  /\ Working(t, "limits") /\ Goto(t, "leave")
  /\ \/ \E cap \in Limits :
          /\ Count(slot[p].entries) <= cap
          /\ limit' = [limit EXCEPT ![p] = cap]
          /\ slot' = IF subset[p] THEN slot ELSE [slot EXCEPT ![p].cap = cap]
     \/ UNCHANGED <<limit, slot>>
  /\ UNCHANGED <<parserVars, declVars, owner, tables, locked, made>>

\* What a merged child has declared.
Source(child) ==
  IF owner[child] = NoFamily THEN slot[child].entries ELSE tables[owner[child]].entries

\* import_dtd_tables, one name: existing entries stay.
Import(t, n) ==
  LET p == call[t].parser
      entry == Source(call[t].other)[n]
  IN
  /\ Working(t, "merge") /\ entry # Absent /\ Vacant(p, n) /\ Room(p)
  /\ Put(p, n, entry)
  /\ UNCHANGED <<parserVars, limit, declVars, owner, tables, locked, made, call>>

\* The call returns: with events, or when everything is imported.
Done(t) ==
  LET p == call[t].parser IN
  /\ \/ Working(t, "next")
     \/ /\ Working(t, "merge")
        /\ \A n \in Names : Source(call[t].other)[n] # Absent => ~Vacant(p, n)
  /\ Goto(t, "leave")
  /\ UNCHANGED <<parserVars, limit, declVars, owner, tableVars, made>>

-----------------------------------------------------------------------------
Application ==
  \E t \in Threads, p \in Parsers :
    \/ ExternalChild(t, p) \/ NextEvent(t, p) \/ SetLimits(t, p)
    \/ \E child \in Parsers : MergeExternalSubset(t, p, child)

Work(t) ==
  \/ Identify(t) \/ Commit(t) \/ FinishValue(t) \/ Finish(t) \/ Fail(t) \/ ChangeLimits(t) \/ Done(t)
  \/ \E n \in Names : Reserve(t, n) \/ Import(t, n)

Step(t) ==
  \/ AllocateOwner(t) \/ PublishOwner(t) \/ MakeChild(t) \/ CopyTables(t)
  \/ LockOther(t) \/ Lock(t) \/ Work(t) \/ Leave(t)

Next == Application \/ \E t \in Threads : Step(t)

Spec == Init /\ [][Next]_vars

\* A call runs on; the application owes none.
FairSpec == Spec /\ \A t \in Threads : WF_vars(Step(t))

-----------------------------------------------------------------------------
(***************************************************************************)
(* Properties                                                              *)
(***************************************************************************)

Entries == [by : Parsers, number : Nat, state : {"bare", "named", "value", "external"}]
Tables == [entries : [Names -> Entries \cup {Absent}], cap : Nat]
Calls ==
  [op : {"none"} \cup SharingOps \cup ExclusiveOps,
   at : {"idle", "allocate", "publish", "make", "copy", "other", "lock", "work", "leave"},
   parser : Parsers \cup {NoParser}, other : Parsers \cup {NoParser},
   family : Families \cup {NoFamily}]

TypeOK ==
  /\ live \subseteq Parsers /\ subset \in [Parsers -> BOOLEAN]
  /\ parent \in [Parsers -> Parsers \cup {NoParser}]
  /\ limit \in [Parsers -> Nat]
  /\ fed \in [Parsers -> BOOLEAN] /\ finished \in [Parsers -> BOOLEAN]
  /\ error \in [Parsers -> BOOLEAN]
  /\ reserved \in [Parsers -> Names \cup {NoName}]
  /\ awaited \in [Parsers -> Names \cup {NoName}]
  /\ declared \in [Parsers -> Nat]
  /\ owner \in [Parsers -> Families \cup {NoFamily}]
  /\ slot \in [Parsers -> Tables] /\ tables \in [Families -> Tables]
  /\ locked \in [Families -> BOOLEAN] /\ made \subseteq Families
  /\ call \in [Threads -> Calls]

\* The parsers that have a family's tables swapped in.
Inside(f) ==
  {call[t].parser : t \in {u \in Threads : /\ call[u].at \in {"work", "leave"}
                                          /\ owner[call[u].parser] = f}}

\* The entries of a family, wherever they are.
View(f) ==
  IF ~locked[f] \/ Inside(f) = {} THEN tables[f] ELSE slot[CHOOSE p \in Inside(f) : TRUE]

Table == [f \in Families |-> IF f \in made THEN View(f).entries ELSE NoEntries]

\* The first declaration counts: whatever the parsers of a family do at the
\* same time, in whichever order they are called, and however a call fails, an
\* entry is never changed but by its own declaration and never lost, a copy is
\* of one moment, and an import adds only what is missing.
Abstract == INSTANCE DefinitionTable WITH used <- made, table <- Table
TablesImplemented == Abstract!Spec

\* A reservation stays in the table until its own declaration takes it out:
\* "a parent declaration owns the first table slot before its child parses".
ReservationsKept ==
  \A p \in Parsers :
    reserved[p] # NoName /\ owner[p] # NoFamily =>
      LET entry == View(owner[p]).entries[reserved[p]] IN
      /\ entry # Absent /\ entry.state \in {"bare", "named"}
      /\ entry.by = p /\ entry.number = declared[p]

\* Parsers never come apart although several threads may initialise an owner at
\* once: a parameter child has its parent's tables, a general child has not, and
\* the tables are in one parser at a time.
FamilyShared ==
  /\ \A p \in Parsers : parent[p] # NoParser =>
       IF subset[p] THEN owner[p] # NoFamily /\ owner[p] = owner[parent[p]]
       ELSE owner[p] = NoFamily \/ owner[p] # owner[parent[p]]
  /\ \A f \in Families, p, q \in Parsers : p \in Inside(f) /\ q \in Inside(f) => p = q

\* What every member of a family relies on: common tables, in one place, in
\* which its own reservation stands.
FamilyKept == TypeOK /\ FamilyShared /\ ReservationsKept

\* A family gets another entry only within its own limit and that of the
\* parser that adds it, although a reservation is taken out and put back, other
\* parsers add entries in between, and limits are set by several members.
LimitStep ==
  \A f \in made :
    Count(View(f).entries)' > Count(View(f).entries) =>
      \E p \in Inside(f) : Count(View(f).entries)' <= limit[p] /\ Count(View(f).entries)' <= View(f).cap
LimitsKept == [][LimitStep]_vars

\* Every call returns: a lock is never waited for, not even by two merges of
\* two families into each other.
CallsReturn == \A t \in Threads : call[t] # Idle ~> call[t] = Idle
=============================================================================
