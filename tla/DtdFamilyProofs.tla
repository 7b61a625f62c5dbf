-------------------------- MODULE DtdFamilyProofs --------------------------
(***************************************************************************)
(* Proofs about DtdFamily, for any number of threads, parsers, families    *)
(* and names.                                                              *)
(*                                                                         *)
(* The tables of a family are in one place at a time: a lock is held by    *)
(* the one call that is under way with it, and only such a call has the    *)
(* tables in its parser.  That rests on what calls borrow, on an owner     *)
(* being set once and never to a family that another parser was given, and *)
(* on what is known of a call at each of its steps.                        *)
(***************************************************************************)
EXTENDS DtdFamily, FiniteSetTheorems, TLAPS

\* A parser that does not exist yet is as it was in the beginning; one that reads
\* a parameter entity was made by another and owns tables.
Born ==
  /\ \A p \in Parsers \ live : reserved[p] = NoName /\ owner[p] = NoFamily
  /\ \A p \in Parsers : parent[p] \in (live \ {p}) \cup {NoParser}
  /\ \A p \in Parsers : subset[p] => p \in live /\ parent[p] # NoParser

\* The steps of each call, and what it knows at them.
StepsOf(op) ==
  CASE op = "parameter" -> {"allocate", "publish", "make"}
    [] op = "general" -> {"make", "lock", "copy"}
    [] op = "next" -> {"allocate", "publish", "lock", "work", "leave"}
    [] op = "limits" -> {"lock", "work", "leave"}
    [] op = "merge" -> {"allocate", "publish", "other", "lock", "work", "leave"}
    [] OTHER -> {}

KnowsOwner(c) ==
  \/ c.at \in {"other", "lock", "copy"}
  \/ c.op = "parameter" /\ c.at = "make"
  \/ c.op \in {"next", "merge"} /\ c.at \in {"work", "leave"}

SoundCall(c) ==
  /\ c.parser \in live /\ c.at \in StepsOf(c.op)
  /\ c.op = "merge" => c.other \in live /\ c.other # c.parser /\ subset[c.other]
  /\ c.op # "merge" => c.other = NoParser
  /\ KnowsOwner(c) => owner[c.parser] # NoFamily

\* An exclusively borrowed parser is in no other call.
CallsSound ==
  /\ \A t \in Threads : call[t] # Idle => SoundCall(call[t])
  /\ \A t, u \in Threads : t # u /\ call[t].op \in ExclusiveOps =>
       call[t].parser # call[u].parser /\ call[t].parser # call[u].other

\* A family that a call has allocated is nobody's until that call publishes it.
Publishing(t) == call[t].at = "publish"
OwnersMade ==
  /\ \A p \in Parsers : owner[p] # NoFamily => owner[p] \in made
  /\ \A t \in Threads : Publishing(t) =>
       /\ call[t].family \in made
       /\ \A p \in Parsers : owner[p] # call[t].family
       /\ \A u \in Threads : Publishing(u) /\ call[u].family = call[t].family => t = u

\* The call has the tables of f in its parser; it has locked them.
Within(t, f) == call[t].at \in {"work", "leave"} /\ owner[call[t].parser] = f
Holds(t, f) ==
  \/ Within(t, f)
  \/ call[t].at = "copy" /\ owner[call[t].parser] = f
  \/ call[t].op = "merge" /\ call[t].at \in {"lock", "work", "leave"} /\ owner[call[t].other] = f

\* A lock is held by exactly one call, and by no call that has returned.
LocksHeld ==
  /\ \A f \in Families : locked[f] <=> \E t \in Threads : Holds(t, f)
  /\ \A f \in Families, t, u \in Threads : Holds(t, f) /\ Holds(u, f) => t = u
  /\ \A t \in Threads : call[t].op = "merge" /\ call[t].at \in {"work", "leave"} =>
       owner[call[t].other] # owner[call[t].parser]

\* A parameter child has its parent's tables, a general child has not.
OwnersShared ==
  \A p \in Parsers : parent[p] # NoParser =>
    IF subset[p] THEN owner[p] # NoFamily /\ owner[p] = owner[parent[p]]
    ELSE owner[p] = NoFamily \/ owner[p] # owner[parent[p]]

Core == TypeOK /\ Born /\ CallsSound /\ OwnersMade /\ LocksHeld /\ OwnersShared

-----------------------------------------------------------------------------
(***************************************************************************)
(* Types                                                                   *)
(***************************************************************************)

Steps == {"idle", "allocate", "publish", "make", "copy", "other", "lock", "work", "leave"}

LEMMA IdleType == Idle \in Calls
BY DEF Idle, Calls

LEMMA GotoType ==
  ASSUME call \in [Threads -> Calls], NEW t \in Threads, NEW at \in Steps, Goto(t, at)
  PROVE  /\ call' \in [Threads -> Calls]
         /\ \A u \in Threads : call'[u] = IF u = t THEN [call[t] EXCEPT !.at = at] ELSE call[u]
         /\ [call[t] EXCEPT !.at = at] \in Calls
<1>1. [call[t] EXCEPT !.at = at] \in Calls
  BY DEF Calls, Steps
<1> QED  BY <1>1 DEF Goto

LEMMA ReturnType ==
  ASSUME call \in [Threads -> Calls], NEW t \in Threads, Return(t)
  PROVE  /\ call' \in [Threads -> Calls]
         /\ \A u \in Threads : call'[u] = IF u = t THEN Idle ELSE call[u]
BY IdleType DEF Return

LEMMA RecordType ==
  ASSUME error \in [Parsers -> BOOLEAN], NEW p, Record(p)
  PROVE  error' \in [Parsers -> BOOLEAN]
BY DEF Record

LEMMA UnlockType ==
  ASSUME locked \in [Families -> BOOLEAN], NEW S, Unlock(S)
  PROVE  /\ locked' \in [Families -> BOOLEAN]
         /\ \A f \in Families : locked'[f] <=> locked[f] /\ f \notin S
<1>1. \A f \in Families : (locked[f] /\ f \notin S) \in BOOLEAN
  OBVIOUS
<1> QED  BY <1>1 DEF Unlock

LEMMA EmptyType == \A cap \in Nat : Empty(cap) \in Tables
BY DEF Empty, NoEntries, Tables

LEMMA FreshIn ==
  ASSUME NEW S, S # {}
  PROVE  Fresh(S) \in S
BY DEF Fresh

\* An entry that a declaration makes, or a copy.
LEMMA EntryType ==
  ASSUME TypeOK, NEW p \in Parsers, NEW state \in {"bare", "named", "value", "external"}
  PROVE  Entry(p, state) \in Entries
BY DEF TypeOK, Entry, Entries

LEMMA CopiedType ==
  ASSUME NEW e \in Entries \cup {Absent}
  PROVE  Copied(e) \in Entries \cup {Absent}
BY DEF Copied, Entries

LEMMA PutType ==
  ASSUME slot \in [Parsers -> Tables], NEW p \in Parsers, NEW n \in Names,
         NEW e \in Entries \cup {Absent}, Put(p, n, e)
  PROVE  /\ slot' \in [Parsers -> Tables]
         /\ \A q \in Parsers : q # p => slot'[q] = slot[q]
         /\ slot'[p].cap = slot[p].cap
         /\ \A m \in Names : slot'[p].entries[m] = IF m = n THEN e ELSE slot[p].entries[m]
<1>1. slot[p] \in Tables
  OBVIOUS
<1>2. slot' = [slot EXCEPT ![p].entries[n] = e]
  BY DEF Put
<1>3. slot' = [slot EXCEPT ![p] = [slot[p] EXCEPT !.entries[n] = e]]
  BY <1>2, Zenon
<1>4. [slot[p] EXCEPT !.entries[n] = e] \in Tables
  BY <1>1 DEF Tables
<1>5. slot' \in [Parsers -> Tables]
  BY <1>3, <1>4
<1>6. \A q \in Parsers : q # p => slot'[q] = slot[q]
  BY <1>3
<1>7. slot'[p] = [slot[p] EXCEPT !.entries[n] = e]
  BY <1>3
<1> QED  BY <1>1, <1>5, <1>6, <1>7 DEF Tables

LEMMA TypeInit == Init => TypeOK
<1> SUFFICES ASSUME Init PROVE TypeOK
  OBVIOUS
<1>1. PICK chosen \in [Roots -> Limits] :
        limit = [p \in Parsers |-> IF p \in Roots THEN chosen[p] ELSE 0]
  BY DEF Init
<1>2. limit \in [Parsers -> Nat]
  BY <1>1, RootsAssumption, LimitsAssumption
<1>3. slot \in [Parsers -> Tables] /\ tables \in [Families -> Tables]
  BY <1>2, EmptyType DEF Init
<1>4. call \in [Threads -> Calls]
  BY IdleType DEF Init
<1> QED  BY <1>2, <1>3, <1>4, RootsAssumption DEF Init, TypeOK

\* What a call is known to be at one of its steps.
LEMMA CallFacts ==
  ASSUME TypeOK, CallsSound, NEW t \in Threads, call[t].at # "idle"
  PROVE  /\ SoundCall(call[t]) /\ call[t] \in Calls /\ call[t].parser \in Parsers
         /\ call[t].op \in SharingOps \cup ExclusiveOps
<1>1. call[t] # Idle
  BY DEF Idle
<1>2. SoundCall(call[t]) /\ call[t] \in Calls /\ live \subseteq Parsers
  BY <1>1 DEF CallsSound, TypeOK
<1>3. call[t].op # "none"
  BY <1>2 DEF SoundCall, StepsOf
<1> QED  BY <1>2, <1>3 DEF SoundCall, Calls

\* A new parser.
Adds(child, p, isSubset, family) ==
  /\ live' = live \cup {child} /\ parent' = [parent EXCEPT ![child] = p]
  /\ subset' = [subset EXCEPT ![child] = isSubset] /\ owner' = [owner EXCEPT ![child] = family]

LEMMA NewParserType ==
  ASSUME TypeOK, NEW t \in Threads, call[t].parser \in Parsers, NEW isSubset \in BOOLEAN,
         NEW family \in Families \cup {NoFamily}, NewParser(t, isSubset, family)
  PROVE  \E child \in Parsers \ live :
           /\ Adds(child, call[t].parser, isSubset, family) /\ live' \subseteq Parsers
           /\ limit' = [limit EXCEPT ![child] = limit[call[t].parser]]
           /\ slot' = [slot EXCEPT ![child] = Empty(limit[call[t].parser])]
           /\ UNCHANGED <<fed, finished>>
           /\ parent' \in [Parsers -> Parsers \cup {NoParser}] /\ subset' \in [Parsers -> BOOLEAN]
           /\ limit' \in [Parsers -> Nat] /\ slot' \in [Parsers -> Tables]
           /\ owner' \in [Parsers -> Families \cup {NoFamily}]
<1> DEFINE child == Fresh(Parsers \ live)
<1>1. child \in Parsers \ live
  <2>1. Parsers \ live # {}
    BY DEF NewParser, TypeOK
  <2> QED  BY <2>1, FreshIn
<1>2. /\ live' = live \cup {child}
      /\ parent' = [parent EXCEPT ![child] = call[t].parser]
      /\ subset' = [subset EXCEPT ![child] = isSubset]
      /\ limit' = [limit EXCEPT ![child] = limit[call[t].parser]]
      /\ slot' = [slot EXCEPT ![child] = Empty(limit[call[t].parser])]
      /\ owner' = [owner EXCEPT ![child] = family] /\ UNCHANGED <<fed, finished>>
  BY DEF NewParser
<1> HIDE DEF child
<1>3. limit[call[t].parser] \in Nat /\ Empty(limit[call[t].parser]) \in Tables
  BY EmptyType DEF TypeOK
<1> QED  BY <1>1, <1>2, <1>3 DEF TypeOK, Adds

-----------------------------------------------------------------------------
(***************************************************************************)
(* What a step of each kind leaves alone                                   *)
(***************************************************************************)

\* The tables of the parser that works, and nobody else's.
WorkFrame(t) ==
  LET p == call[t].parser IN
  /\ call[t].at = "work" /\ call[t].op \in ExclusiveOps
  /\ UNCHANGED <<live, subset, parent, fed, owner, tables, locked, made>>
  /\ call' = call \/ Goto(t, "leave")
  /\ finished' \in [Parsers -> BOOLEAN] /\ error' \in [Parsers -> BOOLEAN]
  /\ limit' \in [Parsers -> Nat] /\ slot' \in [Parsers -> Tables]
  /\ reserved' \in [Parsers -> Names \cup {NoName}]
  /\ awaited' \in [Parsers -> Names \cup {NoName}] /\ declared' \in [Parsers -> Nat]
  /\ \A q \in Parsers : q # p =>
       slot'[q] = slot[q] /\ reserved'[q] = reserved[q] /\ declared'[q] = declared[q]

LEMMA PutInFrame ==
  ASSUME TypeOK, NEW p \in Parsers, NEW n \in Names, NEW e \in Entries \cup {Absent}, Put(p, n, e)
  PROVE  /\ slot' \in [Parsers -> Tables]
         /\ \A q \in Parsers : q # p => slot'[q] = slot[q]
BY PutType DEF TypeOK

LEMMA WorkingFrame ==
  ASSUME TypeOK, CallsSound, NEW t \in Threads, Work(t)
  PROVE  WorkFrame(t)
<1> DEFINE p == call[t].parser
<1>1. call[t].at = "work" /\ call[t].op \in ExclusiveOps
  BY DEF Work, Identify, Commit, FinishValue, Finish, Fail, ChangeLimits, Done, Reserve, Import,
         Declaring, Working, ExclusiveOps
<1>2. p \in Parsers /\ SoundCall(call[t])
  BY <1>1, CallFacts
<1>3. \A state \in {"bare", "named", "value", "external"} : Entry(p, state) \in Entries
  BY <1>2, EntryType
<1> USE DEF WorkFrame
<1>4. CASE Identify(t)
  <2>1. reserved[p] \in Names /\ Put(p, reserved[p], Entry(p, "named"))
    BY <1>2, <1>4 DEF Identify, TypeOK
  <2>2. slot' \in [Parsers -> Tables] /\ \A q \in Parsers : q # p => slot'[q] = slot[q]
    BY <2>1, <1>2, <1>3, PutInFrame
  <2> QED  BY <1>1, <2>2, <1>4 DEF Identify, TypeOK, parserVars, declVars
<1>5. CASE Commit(t)
  <2>1. reserved[p] \in Names /\ reserved' = [reserved EXCEPT ![p] = NoName]
    BY <1>2, <1>5 DEF Commit, TypeOK
  <2>2. \A e \in Entries \cup {Absent} : Put(p, reserved[p], e) =>
          slot' \in [Parsers -> Tables] /\ \A q \in Parsers : q # p => slot'[q] = slot[q]
    BY <2>1, <1>2, PutInFrame
  <2>3. /\ UNCHANGED <<parserVars, limit, declared, owner, tables, locked, made>>
        /\ \/ UNCHANGED <<awaited, error, call>> /\ \E e \in Entries \cup {Absent} : Put(p, reserved[p], e)
           \/ /\ Put(p, reserved[p], Absent) /\ awaited' = [awaited EXCEPT ![p] = reserved[p]]
              /\ Goto(t, "leave") /\ UNCHANGED error
           \/ /\ Put(p, reserved[p], Absent) /\ Record(p) /\ Goto(t, "leave") /\ UNCHANGED awaited
           \/ UNCHANGED <<slot, awaited, error, call>>
    BY <1>5, <1>3 DEF Commit
  <2>4. slot' \in [Parsers -> Tables] /\ \A q \in Parsers : q # p => slot'[q] = slot[q]
    BY <2>2, <2>3 DEF TypeOK
  <2>5. error' \in [Parsers -> BOOLEAN]
    BY <2>3, RecordType DEF TypeOK
  <2>6. awaited' \in [Parsers -> Names \cup {NoName}] /\ reserved' \in [Parsers -> Names \cup {NoName}]
    BY <2>1, <2>3, <1>2 DEF TypeOK
  <2>7. call' = call \/ Goto(t, "leave")
    BY <2>3
  <2>8. \A q \in Parsers : q # p => reserved'[q] = reserved[q]
    BY <2>1 DEF TypeOK
  <2> QED  BY <1>1, <2>3, <2>4, <2>5, <2>6, <2>7, <2>8 DEF parserVars, TypeOK
<1>6. CASE FinishValue(t)
  <2>1. awaited[p] \in Names /\ awaited' = [awaited EXCEPT ![p] = NoName]
    BY <1>2, <1>6 DEF FinishValue, TypeOK
  <2>2. slot' \in [Parsers -> Tables] /\ \A q \in Parsers : q # p => slot'[q] = slot[q]
    <3>1. Put(p, awaited[p], Entry(p, "value")) \/ UNCHANGED slot
      BY <1>6 DEF FinishValue
    <3> QED  BY <3>1, <2>1, <1>2, <1>3, PutInFrame DEF TypeOK
  <2>3. awaited' \in [Parsers -> Names \cup {NoName}]
    BY <2>1, <1>2 DEF TypeOK
  <2> QED  BY <1>1, <2>2, <2>3, <1>6 DEF FinishValue, TypeOK, parserVars, declVars
<1>7. CASE Finish(t)
  <2>1. finished' \in [Parsers -> BOOLEAN]
    BY <1>7 DEF Finish, TypeOK
  <2> QED  BY <1>1, <2>1, <1>7 DEF Finish, TypeOK, declVars, tableVars
<1>8. CASE Fail(t)
  BY <1>1, <1>8, RecordType DEF Fail, TypeOK, parserVars, tableVars
<1>9. CASE ChangeLimits(t)
  <2>1. /\ UNCHANGED <<parserVars, declVars, owner, tables, locked, made>> /\ Goto(t, "leave")
        /\ \/ \E cap \in Limits : /\ limit' = [limit EXCEPT ![p] = cap]
                                  /\ slot' = IF subset[p] THEN slot ELSE [slot EXCEPT ![p].cap = cap]
           \/ UNCHANGED <<limit, slot>>
    BY <1>9 DEF ChangeLimits
  <2>2. \A cap \in Nat : [slot[p] EXCEPT !.cap = cap] \in Tables
    <3>1. slot[p] \in Tables
      BY <1>2 DEF TypeOK
    <3> QED  BY <3>1 DEF Tables
  <2>3. ASSUME NEW cap \in Limits, limit' = [limit EXCEPT ![p] = cap],
               slot' = IF subset[p] THEN slot ELSE [slot EXCEPT ![p].cap = cap]
        PROVE  /\ slot' \in [Parsers -> Tables] /\ limit' \in [Parsers -> Nat]
               /\ \A q \in Parsers : q # p => slot'[q] = slot[q]
    <3>1. cap \in Nat
      BY LimitsAssumption
    <3>2. slot' = slot \/ slot' = [slot EXCEPT ![p] = [slot[p] EXCEPT !.cap = cap]]
      BY <2>3, Zenon
    <3> QED  BY <3>1, <3>2, <2>2, <2>3, <1>2 DEF TypeOK
  <2>4. /\ slot' \in [Parsers -> Tables] /\ limit' \in [Parsers -> Nat]
        /\ \A q \in Parsers : q # p => slot'[q] = slot[q]
    BY <2>1, <2>3 DEF TypeOK
  <2> QED  BY <1>1, <2>1, <2>4 DEF TypeOK, parserVars, declVars
<1>10. CASE Done(t)
  BY <1>1, <1>10 DEF Done, TypeOK, parserVars, declVars, tableVars
<1>11. ASSUME NEW n \in Names, Reserve(t, n) PROVE WorkFrame(t)
  <2>1. [by |-> p, number |-> declared[p] + 1, state |-> "bare"] \in Entries
    BY <1>2 DEF TypeOK, Entries
  <2>2. Put(p, n, [by |-> p, number |-> declared[p] + 1, state |-> "bare"])
    BY <1>11 DEF Reserve, Put
  <2>3. slot' \in [Parsers -> Tables] /\ \A q \in Parsers : q # p => slot'[q] = slot[q]
    BY <2>1, <2>2, <1>2, PutInFrame
  <2>4. declared' = [declared EXCEPT ![p] = @ + 1] /\ reserved' = [reserved EXCEPT ![p] = n]
    BY <1>11 DEF Reserve
  <2>5. /\ declared' \in [Parsers -> Nat] /\ reserved' \in [Parsers -> Names \cup {NoName}]
        /\ \A q \in Parsers : q # p => reserved'[q] = reserved[q] /\ declared'[q] = declared[q]
    BY <2>4, <1>2 DEF TypeOK
  <2> QED  BY <1>1, <2>3, <2>5, <1>11 DEF Reserve, TypeOK, parserVars
<1>12. ASSUME NEW n \in Names, Import(t, n) PROVE WorkFrame(t)
  <2>1. call[t].op = "merge"
    BY <1>12 DEF Import, Working
  <2>2. call[t].other \in Parsers
    BY <2>1, <1>2 DEF SoundCall, TypeOK
  <2>3. Source(call[t].other)[n] \in Entries \cup {Absent}
    BY <2>2 DEF Source, TypeOK, Tables
  <2>4. slot' \in [Parsers -> Tables] /\ \A q \in Parsers : q # p => slot'[q] = slot[q]
    <3>1. Put(p, n, Source(call[t].other)[n])
      BY <1>12 DEF Import
    <3> QED  BY <3>1, <2>3, <1>2, PutInFrame
  <2> QED  BY <1>1, <2>4, <1>12 DEF Import, TypeOK, parserVars, declVars
<1> QED  BY <1>4, <1>5, <1>6, <1>7, <1>8, <1>9, <1>10, <1>11, <1>12 DEF Work

\* A call moves on, and nothing else about it changes.
LEMMA GotoFacts ==
  ASSUME TypeOK, NEW t \in Threads, NEW at \in Steps, Goto(t, at)
  PROVE  /\ call' \in [Threads -> Calls]
         /\ \A u \in Threads : u # t => call'[u] = call[u]
         /\ call'[t].at = at /\ call'[t].op = call[t].op
         /\ call'[t].parser = call[t].parser /\ call'[t].other = call[t].other
         /\ call'[t].family = call[t].family
<1>1. call' \in [Threads -> Calls] /\ \A u \in Threads : u # t => call'[u] = call[u]
  BY GotoType DEF TypeOK
<1>2. call'[t] = [call[t] EXCEPT !.at = at] /\ call[t] \in Calls
  BY GotoType DEF TypeOK
<1> QED  BY <1>1, <1>2 DEF Calls

LEMMA ReturnFacts ==
  ASSUME TypeOK, NEW t \in Threads, Return(t)
  PROVE  /\ call' \in [Threads -> Calls] /\ call'[t] = Idle
         /\ \A u \in Threads : u # t => call'[u] = call[u]
BY ReturnType DEF TypeOK

\* No step takes a parser away, changes what it reads, or changes its owner.
Grows ==
  /\ live \subseteq live'
  /\ \A p \in live : /\ subset'[p] = subset[p] /\ parent'[p] = parent[p]
                     /\ owner[p] # NoFamily => owner'[p] = owner[p]

\* A step of the call of t, which goes on or returns.
Moves(t) ==
  /\ \A u \in Threads : u # t => call'[u] = call[u]
  /\ \/ call'[t] = Idle
     \/ /\ call'[t].op = call[t].op /\ call'[t].parser = call[t].parser
        /\ call'[t].other = call[t].other /\ call'[t].at \in StepsOf(call[t].op)
        /\ KnowsOwner(call'[t]) => owner'[call[t].parser] # NoFamily

LEMMA CallsMove ==
  ASSUME TypeOK, CallsSound, Grows, NEW t \in Threads, call[t].at # "idle", Moves(t)
  PROVE  CallsSound'
<1>1. SoundCall(call[t])
  BY CallFacts
<1>2. ASSUME NEW u \in Threads, call'[u] # Idle PROVE SoundCall(call[u])'
  <2>1. SoundCall(call[u])
    <3>1. CASE u = t
      BY <1>1, <3>1
    <3>2. CASE u # t
      BY <1>2, <3>2 DEF CallsSound, Moves
    <3> QED  BY <3>1, <3>2
  <2>2. CASE u # t
    <3>1. call'[u] = call[u]
      BY <2>2 DEF Moves
    <3>2. call[u].parser \in live' /\ (owner[call[u].parser] # NoFamily => owner'[call[u].parser] # NoFamily)
      BY <2>1 DEF SoundCall, Grows
    <3>3. call[u].op = "merge" => /\ call[u].other \in live' /\ call[u].other # call[u].parser
                                  /\ subset'[call[u].other]
      BY <2>1 DEF SoundCall, Grows
    <3> QED  BY <2>1, <3>1, <3>2, <3>3 DEF SoundCall, KnowsOwner
  <2>3. CASE u = t
    <3>1. /\ call'[t].op = call[t].op /\ call'[t].parser = call[t].parser
          /\ call'[t].other = call[t].other /\ call'[t].at \in StepsOf(call[t].op)
          /\ KnowsOwner(call'[t]) => owner'[call[t].parser] # NoFamily
      BY <1>2, <2>3 DEF Moves
    <3>2. call[t].parser \in live'
      BY <1>1 DEF SoundCall, Grows
    <3>3. call[t].op = "merge" => /\ call[t].other \in live' /\ call[t].other # call[t].parser
                                  /\ subset'[call[t].other]
      BY <1>1 DEF SoundCall, Grows
    <3>4. call[t].op # "merge" => call[t].other = NoParser
      BY <1>1 DEF SoundCall
    <3> QED  BY <2>3, <3>1, <3>2, <3>3, <3>4 DEF SoundCall, KnowsOwner
  <2> QED  BY <2>2, <2>3
<1>3. ASSUME NEW u \in Threads, NEW v \in Threads, u # v, call'[u].op \in ExclusiveOps
      PROVE  call'[u].parser # call'[v].parser /\ call'[u].parser # call'[v].other
  <2>1. \A w \in Threads : \/ call'[w] = Idle
                           \/ /\ call'[w].op = call[w].op /\ call'[w].parser = call[w].parser
                              /\ call'[w].other = call[w].other
    BY DEF Moves
  <2>2. call'[u] # Idle
    BY <1>3 DEF Idle, ExclusiveOps
  <2>3. call[u].op \in ExclusiveOps /\ call'[u].parser = call[u].parser
    BY <1>3, <2>1, <2>2
  <2>4. call[u].parser # call[v].parser /\ call[u].parser # call[v].other
    BY <1>3, <2>3 DEF CallsSound
  <2>5. call'[u].parser # NoParser
    <3>1. SoundCall(call[u]) 
      BY <1>1, <1>2, <2>2, <2>3 DEF CallsSound, Idle, ExclusiveOps
    <3> QED  BY <3>1, <2>3, NoneAssumption DEF SoundCall, TypeOK
  <2> QED  BY <2>1, <2>3, <2>4, <2>5 DEF Idle
<1> QED  BY <1>2, <1>3 DEF CallsSound

\* Only t locks or unlocks: what it holds afterwards was free, or it held it.
LEMMA LocksMove ==
  ASSUME TypeOK, LocksHeld, NEW t \in Threads,
         \A u \in Threads, f \in Families : u # t => (Holds(u, f)' <=> Holds(u, f)),
         \A f \in Families : locked'[f] <=> (locked[f] /\ ~Holds(t, f)) \/ Holds(t, f)',
         \A f \in Families : Holds(t, f)' => Holds(t, f) \/ ~locked[f],
         \A u \in Threads : call'[u].op = "merge" /\ call'[u].at \in {"work", "leave"} =>
           owner'[call'[u].other] # owner'[call'[u].parser]
  PROVE  LocksHeld'
<1>1. ASSUME NEW f \in Families PROVE locked'[f] <=> \E u \in Threads : Holds(u, f)'
  <2>1. locked[f] <=> \E u \in Threads : Holds(u, f)
    BY DEF LocksHeld
  <2>2. \A u \in Threads : Holds(u, f) /\ Holds(t, f) => u = t
    BY DEF LocksHeld
  <2> QED  BY <2>1, <2>2
<1>2. ASSUME NEW f \in Families, NEW u \in Threads, NEW v \in Threads, Holds(u, f)', Holds(v, f)'
      PROVE  u = v
  <2>1. \A w \in Threads : Holds(w, f) => locked[f]
    BY DEF LocksHeld
  <2>2. Holds(u, f) /\ Holds(v, f) => u = v
    BY DEF LocksHeld
  <2> QED  BY <1>2, <2>1, <2>2
<1> QED  BY <1>1, <1>2 DEF LocksHeld

LEMMA CoreInit == Init => Core
<1> SUFFICES ASSUME Init PROVE Core
  OBVIOUS
<1>1. TypeOK
  BY TypeInit
<1>2. Born /\ CallsSound /\ OwnersMade /\ OwnersShared
  BY NoneAssumption DEF Init, Born, CallsSound, OwnersMade, OwnersShared, Idle, ExclusiveOps, Publishing
<1>3. LocksHeld
  BY DEF Init, LocksHeld, Holds, Within, Idle
<1> QED  BY <1>1, <1>2, <1>3 DEF Core

LEMMA WorkCore ==
  ASSUME Core, NEW t \in Threads, Work(t)
  PROVE  Core'
<1> DEFINE p == call[t].parser
<1>1. WorkFrame(t) /\ SoundCall(call[t]) /\ p \in Parsers
  BY WorkingFrame, CallFacts DEF Core, WorkFrame
<1>2. TypeOK'
  <2>1. call' \in [Threads -> Calls]
    BY <1>1, GotoFacts DEF WorkFrame, Core, TypeOK, Steps
  <2> QED  BY <1>1, <2>1 DEF WorkFrame, Core, TypeOK
<1>3. UNCHANGED <<live, subset, parent, owner, locked, made>>
  BY <1>1 DEF WorkFrame
<1>4. /\ \A u \in Threads : u # t => call'[u] = call[u]
      /\ call'[t].op = call[t].op /\ call'[t].parser = p /\ call'[t].other = call[t].other
      /\ call'[t].family = call[t].family
      /\ call[t].at = "work" /\ call'[t].at \in {"work", "leave"}
  BY <1>1, GotoFacts DEF WorkFrame, Core, Steps
<1>5. Born'
  BY <1>1, <1>3 DEF Core, Born, WorkFrame, SoundCall
<1>6. CallsSound'
  <2>1. Grows
    BY <1>3 DEF Grows
  <2>2. Moves(t)
    BY <1>1, <1>3, <1>4 DEF Moves, SoundCall, KnowsOwner, StepsOf, WorkFrame, ExclusiveOps
  <2> QED  BY <2>1, <2>2, <1>4, CallsMove DEF Core
<1>7. OwnersMade'
  <2>1. \A u \in Threads : Publishing(u)' <=> Publishing(u)
    BY <1>4 DEF Publishing
  <2>2. \A u \in Threads : call'[u].family = call[u].family
    BY <1>4
  <2> QED  BY <1>3, <2>1, <2>2 DEF Core, OwnersMade
<1>8. LocksHeld'
  <2>1. \A u \in Threads : /\ call'[u].op = call[u].op /\ call'[u].parser = call[u].parser
                           /\ call'[u].other = call[u].other
                           /\ call'[u].at = call[u].at \/ (call[u].at = "work" /\ call'[u].at = "leave")
    BY <1>4
  <2>2. \A u \in Threads, f \in Families : Holds(u, f)' <=> Holds(u, f)
    BY <1>3, <2>1 DEF Holds, Within
  <2>3. \A u \in Threads : call'[u].op = "merge" /\ call'[u].at \in {"work", "leave"} =>
          owner'[call'[u].other] # owner'[call'[u].parser]
    BY <1>3, <2>1 DEF Core, LocksHeld
  <2> QED  BY <1>3, <2>2, <2>3 DEF Core, LocksHeld
<1>9. OwnersShared'
  BY <1>3 DEF Core, OwnersShared
<1> QED  BY <1>2, <1>5, <1>6, <1>7, <1>8, <1>9 DEF Core

\* What begins: the operation, its parser and, for a merge, the child.
Beginning(t, op, p, other) ==
  /\ Begin(t, op, p, other) /\ fed' \in [Parsers -> BOOLEAN]
  /\ op \in SharingOps \cup ExclusiveOps
  /\ IF op = "merge" THEN /\ other \in Parsers /\ other # p /\ subset[other]
                          /\ ~BorrowedExclusively(other)
     ELSE other = NoParser

LEMMA ApplicationBegins ==
  ASSUME TypeOK, Application
  PROVE  \E t \in Threads, p \in Parsers, other \in Parsers \cup {NoParser}, op \in SharingOps \cup ExclusiveOps :
           Beginning(t, op, p, other)
<1>1. PICK t \in Threads, p \in Parsers :
        \/ ExternalChild(t, p) \/ NextEvent(t, p) \/ SetLimits(t, p)
        \/ \E child \in Parsers : MergeExternalSubset(t, p, child)
  BY DEF Application
<1>2. CASE ExternalChild(t, p)
  <2>1. PICK op \in SharingOps : Begin(t, op, p, NoParser) /\ UNCHANGED fed
    BY <1>2 DEF ExternalChild, SharingOps
  <2>2. Beginning(t, op, p, NoParser)
    BY <2>1 DEF Beginning, TypeOK, SharingOps
  <2> QED  BY <2>2
<1>3. CASE NextEvent(t, p)
  <2>1. Beginning(t, "next", p, NoParser)
    BY <1>3 DEF NextEvent, Beginning, TypeOK, ExclusiveOps
  <2> QED  BY <2>1 DEF ExclusiveOps
<1>4. CASE SetLimits(t, p)
  <2>1. Beginning(t, "limits", p, NoParser)
    BY <1>4 DEF SetLimits, Beginning, TypeOK, ExclusiveOps
  <2> QED  BY <2>1 DEF ExclusiveOps
<1>5. ASSUME NEW child \in Parsers, MergeExternalSubset(t, p, child)
      PROVE  \E other \in Parsers \cup {NoParser}, op \in SharingOps \cup ExclusiveOps :
               Beginning(t, op, p, other)
  <2>1. Beginning(t, "merge", p, child)
    BY <1>5 DEF MergeExternalSubset, Beginning, TypeOK, ExclusiveOps
  <2> QED  BY <2>1 DEF ExclusiveOps
<1> QED  BY <1>1, <1>2, <1>3, <1>4, <1>5

LEMMA BeginFacts ==
  ASSUME TypeOK, Born, NEW t \in Threads, NEW p \in Parsers, NEW other \in Parsers \cup {NoParser},
         NEW op \in SharingOps \cup ExclusiveOps, Beginning(t, op, p, other)
  PROVE  /\ call' \in [Threads -> Calls] /\ call[t] = Idle
         /\ \A u \in Threads : u # t => call'[u] = call[u]
         /\ call'[t].op = op /\ call'[t].parser = p /\ call'[t].other = other
         /\ call'[t].at \in StepsOf(op) \ {"publish", "leave", "copy"}
         /\ KnowsOwner(call'[t]) => owner[p] # NoFamily
         /\ call'[t].at = "work" => owner[p] = NoFamily /\ op = "limits"
         /\ op = "merge" => call'[t].at \in {"other", "allocate"}
         /\ p \in live /\ (op = "merge" => other \in live)
<1> DEFINE at == CASE owner[p] # NoFamily -> AfterOwner(op)
                   [] owner[p] = NoFamily /\ op = "general" -> "make"
                   [] owner[p] = NoFamily /\ op = "limits" -> "work"
                   [] OTHER -> "allocate"
           new == [op |-> op, at |-> at, parser |-> p, other |-> other, family |-> NoFamily]
<1>1. call[t] = Idle /\ p \in live /\ call' = [call EXCEPT ![t] = new]
  BY DEF Beginning, Begin
<1>2. /\ at \in StepsOf(op) \ {"publish", "leave", "copy"} /\ at \in Steps
      /\ at \in {"lock", "other"} => owner[p] # NoFamily
      /\ at = "make" /\ op = "parameter" => owner[p] # NoFamily
      /\ at = "work" => owner[p] = NoFamily /\ op = "limits"
      /\ op = "merge" => at \in {"other", "allocate"}
  BY DEF StepsOf, Steps, AfterOwner, SharingOps, ExclusiveOps
<1> HIDE DEF at
<1>3. new \in Calls
  BY <1>2 DEF Calls, Steps
<1>4. call' \in [Threads -> Calls] /\ call'[t] = new /\ \A u \in Threads : u # t => call'[u] = call[u]
  BY <1>1, <1>3 DEF TypeOK
<1>5. op = "merge" => other \in live
  BY DEF Beginning, Born
<1> QED  BY <1>1, <1>2, <1>4, <1>5 DEF KnowsOwner

LEMMA BeginCore ==
  ASSUME Core, NEW t \in Threads, NEW p \in Parsers, NEW other \in Parsers \cup {NoParser},
         NEW op \in SharingOps \cup ExclusiveOps, Beginning(t, op, p, other)
  PROVE  Core'
<1>1. /\ call' \in [Threads -> Calls] /\ call[t] = Idle
      /\ \A u \in Threads : u # t => call'[u] = call[u]
      /\ call'[t].op = op /\ call'[t].parser = p /\ call'[t].other = other
      /\ call'[t].at \in StepsOf(op) \ {"publish", "leave", "copy"}
      /\ KnowsOwner(call'[t]) => owner[p] # NoFamily
      /\ call'[t].at = "work" => owner[p] = NoFamily /\ op = "limits"
      /\ op = "merge" => call'[t].at \in {"other", "allocate"}
      /\ p \in live /\ (op = "merge" => other \in live)
  BY BeginFacts DEF Core
<1>2. UNCHANGED <<live, subset, parent, finished, limit, declVars, owner, tableVars, made>>
  BY DEF Beginning, Begin
<1>3. TypeOK'
  BY <1>1, <1>2 DEF Beginning, Core, TypeOK, declVars, tableVars
<1>4. Born'
  BY <1>2 DEF Core, Born, declVars
<1>5. CallsSound'
  <2>1. SoundCall(call[t])'
    <3>1. op = "merge" => other # p /\ subset[other]
      BY DEF Beginning
    <3>2. op # "merge" => other = NoParser
      BY DEF Beginning
    <3> QED  BY <1>1, <1>2, <3>1, <3>2 DEF SoundCall
  <2>2. ASSUME NEW u \in Threads, u # t, call'[u] # Idle PROVE SoundCall(call[u])'
    <3>1. call'[u] = call[u] /\ SoundCall(call[u])
      BY <1>1, <2>2 DEF Core, CallsSound
    <3> QED  BY <1>2, <3>1 DEF SoundCall, KnowsOwner
  <2>3. ASSUME NEW v \in Threads, v # t, op \in ExclusiveOps
        PROVE  p # call[v].parser /\ p # call[v].other
    <3>1. ~Borrowed(p)
      BY <2>3 DEF Beginning, Begin, SharingOps, ExclusiveOps
    <3> QED  BY <3>1 DEF Borrowed
  <2>4. ASSUME NEW u \in Threads, u # t, call[u].op \in ExclusiveOps
        PROVE  call[u].parser # p /\ call[u].parser # other
    <3>1. call[u].parser # p
      BY <2>4 DEF Beginning, Begin, Borrowed, BorrowedExclusively
    <3>2. call[u].parser # NoParser
      <4>1. call[u] # Idle
        BY <2>4 DEF Idle, ExclusiveOps
      <4> QED  BY <4>1, NoneAssumption DEF Core, CallsSound, SoundCall, TypeOK
    <3>3. op = "merge" => call[u].parser # other
      BY <2>4 DEF Beginning, BorrowedExclusively
    <3> QED  BY <3>1, <3>2, <3>3 DEF Beginning
  <2>5. \A u, v \in Threads : u # v /\ call'[u].op \in ExclusiveOps =>
          call'[u].parser # call'[v].parser /\ call'[u].parser # call'[v].other
    BY <1>1, <2>3, <2>4 DEF Core, CallsSound
  <2> QED  BY <2>1, <2>2, <2>5 DEF CallsSound
<1>6. OwnersMade'
  <2>1. \A u \in Threads : Publishing(u)' => u # t /\ Publishing(u)
    BY <1>1 DEF Publishing
  <2> QED  BY <1>1, <1>2, <2>1 DEF Core, OwnersMade
<1>7. LocksHeld'
  <2>1. \A u \in Threads, f \in Families : u # t => (Holds(u, f)' <=> Holds(u, f))
    BY <1>1, <1>2 DEF Holds, Within
  <2>2. \A f \in Families : ~Holds(t, f) /\ ~Holds(t, f)'
    BY <1>1, <1>2, NoneAssumption DEF Holds, Within, Idle
  <2>3. \A u \in Threads : call'[u].op = "merge" /\ call'[u].at \in {"work", "leave"} =>
          owner'[call'[u].other] # owner'[call'[u].parser]
    BY <1>1, <1>2 DEF Core, LocksHeld
  <2>4. locked' = locked
    BY <1>2 DEF tableVars
  <2> QED  BY <2>1, <2>2, <2>3, <2>4, LocksMove DEF Core
<1>8. OwnersShared'
  BY <1>2 DEF Core, OwnersShared
<1> QED  BY <1>3, <1>4, <1>5, <1>6, <1>7, <1>8 DEF Core

LEMMA FreshFamily ==
  ASSUME TypeOK, made # Families
  PROVE  Fresh(Families \ made) \in Families \ made
<1>1. Families \ made # {}
  BY DEF TypeOK
<1> QED  BY <1>1, FreshIn

\* A call that returns holds nothing.
LEMMA NothingHeld ==
  ASSUME NEW t \in Threads, call'[t] = Idle
  PROVE  \A f \in Families : ~Holds(t, f)'
BY DEF Holds, Within, Idle

LEMMA AllocateFacts ==
  ASSUME TypeOK, CallsSound, NEW t \in Threads, AllocateOwner(t)
  PROVE  \/ \E f \in Families \ made :
              /\ made' = made \cup {f} /\ tables' = [tables EXCEPT ![f] = Empty(slot[call[t].parser].cap)]
              /\ tables' \in [Families -> Tables] /\ UNCHANGED error
              /\ call' \in [Threads -> Calls] /\ \A u \in Threads : u # t => call'[u] = call[u]
              /\ call'[t].at = "publish" /\ call'[t].op = call[t].op
              /\ call'[t].parser = call[t].parser /\ call'[t].other = call[t].other
              /\ call'[t].family = f
         \/ Return(t) /\ UNCHANGED <<made, tables>> /\ error' \in [Parsers -> BOOLEAN]
<1> DEFINE p == call[t].parser
<1>1. p \in Parsers /\ call[t] \in Calls
  BY CallFacts DEF AllocateOwner
<1>2. CASE /\ made # Families /\ UNCHANGED error
           /\ LET f == Fresh(Families \ made) IN
              /\ made' = made \cup {f}
              /\ tables' = [tables EXCEPT ![f] = Empty(slot[p].cap)]
              /\ call' = [call EXCEPT ![t].at = "publish", ![t].family = f]
  <2> DEFINE f == Fresh(Families \ made)
             new == [call[t] EXCEPT !.at = "publish", !.family = f]
  <2>1. f \in Families \ made
    BY <1>2, FreshFamily
  <2>2. made' = made \cup {f} /\ tables' = [tables EXCEPT ![f] = Empty(slot[p].cap)]
    BY <1>2
  <2>3. call' = [call EXCEPT ![t].at = "publish", ![t].family = f]
    BY <1>2
  <2> HIDE DEF f
  <2>4. new \in Calls /\ new.at = "publish" /\ new.op = call[t].op /\ new.parser = call[t].parser
        /\ new.other = call[t].other /\ new.family = f
    BY <1>1, <2>1 DEF Calls
  <2>5. call'[t] = new /\ call' \in [Threads -> Calls] /\ \A u \in Threads : u # t => call'[u] = call[u]
    BY <2>3, <2>4 DEF TypeOK, Calls
  <2>6. tables' \in [Families -> Tables]
    <3>1. slot[p].cap \in Nat
      BY <1>1 DEF TypeOK, Tables
    <3> QED  BY <2>2, <3>1, EmptyType DEF TypeOK
  <2> QED  BY <1>2, <2>1, <2>2, <2>4, <2>5, <2>6
<1>3. CASE /\ IF call[t].op = "parameter" THEN UNCHANGED error ELSE Record(p)
           /\ Return(t) /\ UNCHANGED <<made, tables>>
  BY <1>3, RecordType DEF TypeOK
<1> QED  BY <1>2, <1>3 DEF AllocateOwner

LEMMA AllocateCore ==
  ASSUME Core, NEW t \in Threads, AllocateOwner(t)
  PROVE  Core'
<1>1. /\ call[t].at = "allocate" /\ SoundCall(call[t]) /\ call[t].op \in {"parameter", "next", "merge"}
  BY CallFacts DEF AllocateOwner, Core, SoundCall, StepsOf
<1>2. UNCHANGED <<live, subset, parent, fed, finished, limit, reserved, awaited, declared, owner, slot, locked>>
  BY DEF AllocateOwner, parserVars
<1>3. ASSUME NEW f \in Families \ made, made' = made \cup {f}, tables' \in [Families -> Tables], UNCHANGED error,
             call' \in [Threads -> Calls], \A u \in Threads : u # t => call'[u] = call[u],
             call'[t].at = "publish", call'[t].op = call[t].op, call'[t].parser = call[t].parser,
             call'[t].other = call[t].other, call'[t].family = f
      PROVE  Core'
  <2>1. TypeOK' /\ Born' /\ OwnersShared'
    BY <1>2, <1>3 DEF Core, TypeOK, Born, OwnersShared
  <2>2. CallsSound'
    <3>1. Grows /\ Moves(t)
      BY <1>1, <1>2, <1>3 DEF Grows, Moves, StepsOf, KnowsOwner
    <3> QED  BY <1>1, <3>1, CallsMove DEF Core
  <2>3. OwnersMade'
    <3>1. \A u \in Threads : u # t => (Publishing(u)' <=> Publishing(u)) /\ call'[u].family = call[u].family
      BY <1>3 DEF Publishing
    <3>2. \A p \in Parsers : owner[p] # f
      BY <1>3, NoneAssumption DEF Core, OwnersMade
    <3>3. \A u \in Threads : Publishing(u) => call[u].family # f
      BY <1>3 DEF Core, OwnersMade
    <3> QED  BY <1>2, <1>3, <3>1, <3>2, <3>3 DEF Core, OwnersMade
  <2>4. LocksHeld'
    <3>1. \A u \in Threads, g \in Families : Holds(u, g)' <=> Holds(u, g)
      BY <1>1, <1>2, <1>3 DEF Holds, Within
    <3> QED  BY <1>2, <1>3, <3>1 DEF Core, LocksHeld
  <2> QED  BY <2>1, <2>2, <2>3, <2>4 DEF Core
<1>4. ASSUME Return(t), UNCHANGED <<made, tables>>, error' \in [Parsers -> BOOLEAN]
      PROVE  Core'
  <2>1. /\ call' \in [Threads -> Calls] /\ call'[t] = Idle
        /\ \A u \in Threads : u # t => call'[u] = call[u]
    BY <1>4, ReturnFacts DEF Core
  <2>2. TypeOK' /\ Born' /\ OwnersShared'
    BY <1>2, <1>4, <2>1 DEF Core, TypeOK, Born, OwnersShared
  <2>3. CallsSound'
    BY <1>1, <1>2, <2>1, CallsMove DEF Core, Grows, Moves
  <2>4. OwnersMade'
    <3>1. \A u \in Threads : Publishing(u)' => u # t /\ Publishing(u)
      BY <2>1 DEF Publishing, Idle
    <3> QED  BY <1>2, <1>4, <2>1, <3>1 DEF Core, OwnersMade
  <2>5. LocksHeld'
    <3>1. \A u \in Threads, g \in Families : Holds(u, g)' <=> Holds(u, g)
      BY <1>1, <1>2, <2>1 DEF Holds, Within, Idle
    <3> QED  BY <1>2, <2>1, <3>1 DEF Core, LocksHeld, Idle
  <2> QED  BY <2>2, <2>3, <2>4, <2>5 DEF Core
<1> QED  BY <1>3, <1>4, AllocateFacts DEF Core

LEMMA PublishFacts ==
  ASSUME TypeOK, CallsSound, NEW t \in Threads, PublishOwner(t)
  PROVE  /\ call[t].at = "publish" /\ SoundCall(call[t]) /\ call[t].op \in {"parameter", "next", "merge"}
         /\ call' \in [Threads -> Calls] /\ \A u \in Threads : u # t => call'[u] = call[u]
         /\ call'[t].at = AfterOwner(call[t].op) /\ call'[t].op = call[t].op
         /\ call'[t].parser = call[t].parser /\ call'[t].other = call[t].other
         /\ AfterOwner(call[t].op) \in {"make", "lock", "other"}
<1>1. call[t].at = "publish" /\ SoundCall(call[t]) /\ call[t].op \in {"parameter", "next", "merge"}
  BY CallFacts DEF PublishOwner, SoundCall, StepsOf
<1>2. AfterOwner(call[t].op) \in {"make", "lock", "other"}
  BY <1>1 DEF AfterOwner
<1> QED  BY <1>1, <1>2, GotoFacts DEF PublishOwner, Steps

LEMMA PublishCore ==
  ASSUME Core, NEW t \in Threads, PublishOwner(t)
  PROVE  Core'
<1> DEFINE p == call[t].parser
           f == call[t].family
<1>1. /\ call[t].at = "publish" /\ SoundCall(call[t]) /\ call[t].op \in {"parameter", "next", "merge"}
      /\ call' \in [Threads -> Calls] /\ \A u \in Threads : u # t => call'[u] = call[u]
      /\ call'[t].at = AfterOwner(call[t].op) /\ call'[t].op = call[t].op
      /\ call'[t].parser = call[t].parser /\ call'[t].other = call[t].other
      /\ AfterOwner(call[t].op) \in {"make", "lock", "other"}
  BY PublishFacts DEF Core
<1>2. UNCHANGED <<live, subset, parent, fed, finished, limit, error, reserved, awaited, declared,
                  slot, tables, locked, made>>
  BY DEF PublishOwner, parserVars, declVars, tableVars
<1>3. owner' = IF owner[p] = NoFamily THEN [owner EXCEPT ![p] = f] ELSE owner
  BY DEF PublishOwner
<1>4. /\ p \in live /\ live \subseteq Parsers /\ f \in made /\ f \in Families /\ f # NoFamily
      /\ \A q \in Parsers : owner[q] # f
      /\ \A u \in Threads : Publishing(u) /\ call[u].family = f => t = u
  BY <1>1, NoneAssumption DEF Core, OwnersMade, Publishing, SoundCall, TypeOK
<1>5. owner' \in [Parsers -> Families \cup {NoFamily}]
  BY <1>3, <1>4 DEF Core, TypeOK
<1>6. /\ \A q \in Parsers : q # p => owner'[q] = owner[q]
      /\ owner'[p] = IF owner[p] = NoFamily THEN f ELSE owner[p]
  BY <1>3, <1>4 DEF Core, TypeOK
<1>7. TypeOK' /\ Born'
  BY <1>1, <1>2, <1>4, <1>5, <1>6 DEF Core, TypeOK, Born
<1>8. CallsSound'
  <2>1. Grows
    BY <1>2, <1>4, <1>6 DEF Grows
  <2>2. Moves(t)
    BY <1>1, <1>4, <1>6 DEF Moves, StepsOf, AfterOwner
  <2> QED  BY <1>1, <2>1, <2>2, CallsMove DEF Core
<1>9. OwnersMade'
  <2>1. \A u \in Threads : Publishing(u)' => u # t /\ Publishing(u)
    BY <1>1 DEF Publishing
  <2>2. \A u \in Threads : Publishing(u)' => call'[u].family = call[u].family /\ call[u].family # f
    BY <1>1, <1>4, <2>1
  <2>3. \A u \in Threads : Publishing(u)' =>
          /\ call'[u].family \in made' /\ \A q \in Parsers : owner'[q] # call'[u].family
    BY <1>2, <1>4, <1>6, <2>1, <2>2 DEF Core, OwnersMade
  <2>4. \A q \in Parsers : owner'[q] # NoFamily => owner'[q] \in made'
    BY <1>2, <1>4, <1>6 DEF Core, OwnersMade
  <2> QED  BY <2>1, <2>2, <2>3, <2>4 DEF Core, OwnersMade
<1>10. LocksHeld'
  <2>1. ASSUME NEW u \in Threads, u # t, call[u].at \in {"copy", "work", "leave"}
               \/ (call[u].op = "merge" /\ call[u].at = "lock")
        PROVE  owner[p] = NoFamily => call[u].parser # p
    <3>1. SoundCall(call[u]) /\ call[u].op \in SharingOps \cup ExclusiveOps
      BY <2>1, CallFacts DEF Core
    <3>2. CASE call[u].op = "general"
      BY <2>1, <3>1, <3>2 DEF SoundCall, KnowsOwner, StepsOf
    <3>3. CASE call[u].op = "parameter"
      BY <2>1, <3>1, <3>3 DEF SoundCall, StepsOf
    <3>4. CASE call[u].op \in ExclusiveOps
      BY <2>1, <3>4 DEF Core, CallsSound
    <3> QED  BY <3>1, <3>2, <3>3, <3>4 DEF SharingOps
  <2>2. ASSUME NEW u \in Threads, u # t, call[u].op = "merge"
        PROVE  owner[p] = NoFamily => call[u].other # p
    <3>1. SoundCall(call[u])
      BY <2>2 DEF Core, CallsSound, Idle
    <3>2. subset[call[u].other] /\ call[u].other \in Parsers
      BY <2>2, <3>1 DEF SoundCall, Core, TypeOK
    <3>3. owner[call[u].other] # NoFamily
      BY <3>2, NoneAssumption DEF Core, Born, OwnersShared, TypeOK
    <3> QED  BY <3>3
  <2>3. \A u \in Threads : call[u] # Idle => /\ call[u].parser \in Parsers
                                             /\ call[u].op = "merge" => call[u].other \in Parsers
    BY DEF Core, CallsSound, SoundCall, TypeOK
  <2>4. ASSUME NEW u \in Threads, NEW g \in Families, u # t PROVE Holds(u, g)' <=> Holds(u, g)
    <3>1. call'[u] = call[u]
      BY <1>1, <2>4
    <3>2. call[u].at \in {"copy", "work", "leave"} => owner'[call[u].parser] = owner[call[u].parser]
      BY <1>6, <2>1, <2>3, <2>4 DEF Idle
    <3>3. call[u].op = "merge" => owner'[call[u].other] = owner[call[u].other]
      BY <1>6, <2>2, <2>3, <2>4 DEF Idle
    <3> QED  BY <3>1, <3>2, <3>3 DEF Holds, Within
  <2>5. \A g \in Families : ~Holds(t, g) /\ ~Holds(t, g)'
    <3>1. call'[t].at \in {"make", "lock", "other"} /\ (call[t].op = "merge" => call'[t].at = "other")
      BY <1>1 DEF AfterOwner
    <3> QED  BY <1>1, <3>1 DEF Holds, Within
  <2>6. ASSUME NEW u \in Threads, call'[u].op = "merge", call'[u].at \in {"work", "leave"}
        PROVE  owner'[call'[u].other] # owner'[call'[u].parser]
    <3>1. u # t /\ call'[u] = call[u] /\ call[u] # Idle
      BY <1>1, <2>6 DEF Idle
    <3>2. owner[call[u].other] # owner[call[u].parser]
      BY <2>6, <3>1 DEF Core, LocksHeld
    <3>3. owner'[call[u].other] = owner[call[u].other] /\ owner'[call[u].parser] = owner[call[u].parser]
      BY <1>6, <2>1, <2>2, <2>3, <2>6, <3>1
    <3> QED  BY <3>1, <3>2, <3>3
  <2> QED  BY <1>2, <2>4, <2>5, <2>6, LocksMove DEF Core
<1>11. OwnersShared'
  <2>1. ASSUME NEW q \in Parsers, parent[q] # NoParser
        PROVE  IF subset[q] THEN owner'[q] # NoFamily /\ owner'[q] = owner'[parent[q]]
               ELSE owner'[q] = NoFamily \/ owner'[q] # owner'[parent[q]]
    <3>1. parent[q] \in Parsers /\ parent[q] # q
      BY <2>1 DEF Core, Born, TypeOK
    <3>2. IF subset[q] THEN owner[q] # NoFamily /\ owner[q] = owner[parent[q]]
          ELSE owner[q] = NoFamily \/ owner[q] # owner[parent[q]]
      BY <2>1 DEF Core, OwnersShared
    <3>3. CASE subset[q]
      BY <1>4, <1>6, <3>1, <3>2, <3>3
    <3>4. CASE ~subset[q]
      BY <1>4, <1>6, <3>1, <3>2, <3>4
    <3> QED  BY <3>3, <3>4
  <2> QED  BY <1>2, <2>1 DEF OwnersShared
<1> QED  BY <1>7, <1>8, <1>9, <1>10, <1>11 DEF Core

\* A child that was not there before: no call knows it.
LEMMA ChildBorn ==
  ASSUME Core, NEW p \in live, NEW child \in Parsers \ live, NEW isSubset \in BOOLEAN,
         NEW family \in Families \cup {NoFamily}, Adds(child, p, isSubset, family),
         UNCHANGED reserved,
         IF isSubset THEN family = owner[p] /\ family # NoFamily
         ELSE family = NoFamily \/ family # owner[p]
  PROVE  /\ Born' /\ OwnersShared' /\ Grows
         /\ \A q \in Parsers : q # child => owner'[q] = owner[q]
         /\ owner'[child] = family /\ owner[child] = NoFamily
         /\ \A u \in Threads, f \in Families :
              /\ call[u].at \in {"copy", "work", "leave"} =>
                   (owner'[call[u].parser] = f <=> owner[call[u].parser] = f)
              /\ call[u].op = "merge" => (owner'[call[u].other] = f <=> owner[call[u].other] = f)
         /\ \A u \in Threads : call[u].op = "merge" =>
              /\ owner'[call[u].other] = owner[call[u].other]
              /\ owner'[call[u].parser] = owner[call[u].parser]
<1>1. p \in Parsers /\ child \in Parsers /\ live \subseteq Parsers /\ p # child
  BY DEF Core, TypeOK
<1>2. /\ \A q \in Parsers : q # child =>
           owner'[q] = owner[q] /\ parent'[q] = parent[q] /\ subset'[q] = subset[q]
      /\ owner'[child] = family /\ parent'[child] = p /\ subset'[child] = isSubset
      /\ owner[child] = NoFamily
  BY <1>1 DEF Core, TypeOK, Born, Adds
<1>3. Born'
  <2>1. \A q \in Parsers \ live' : reserved'[q] = NoName /\ owner'[q] = NoFamily
    BY <1>2 DEF Core, Born, Adds
  <2>2. \A q \in Parsers : parent'[q] \in (live' \ {q}) \cup {NoParser}
    BY <1>1, <1>2 DEF Core, Born, Adds
  <2>3. \A q \in Parsers : subset'[q] => q \in live' /\ parent'[q] # NoParser
    BY <1>1, <1>2, NoneAssumption DEF Core, Born, Adds
  <2> QED  BY <2>1, <2>2, <2>3 DEF Born
<1>4. OwnersShared'
  <2>1. ASSUME NEW q \in Parsers, parent'[q] # NoParser
        PROVE  IF subset'[q] THEN owner'[q] # NoFamily /\ owner'[q] = owner'[parent'[q]]
               ELSE owner'[q] = NoFamily \/ owner'[q] # owner'[parent'[q]]
    <3>1. CASE q = child
      BY <1>1, <1>2, <3>1
    <3>2. CASE q # child
      <4>1. parent'[q] = parent[q] /\ parent[q] \in live /\ parent[q] # child
        BY <1>2, <2>1, <3>2 DEF Core, Born
      <4>2. owner'[parent'[q]] = owner[parent[q]]
        BY <1>1, <1>2, <4>1
      <4> QED  BY <1>2, <2>1, <3>2, <4>1, <4>2 DEF Core, OwnersShared
    <3> QED  BY <3>1, <3>2
  <2> QED  BY <2>1 DEF OwnersShared
<1>5. Grows
  BY <1>1, <1>2 DEF Grows, Adds
<1>6. \A u \in Threads : call[u].at # "idle" =>
        /\ call[u].parser \in live /\ (call[u].op = "merge" => call[u].other \in live)
  BY CallFacts DEF Core, SoundCall
<1>7. \A u \in Threads : call[u].at # "idle" =>
        /\ owner'[call[u].parser] = owner[call[u].parser]
        /\ call[u].op = "merge" => owner'[call[u].other] = owner[call[u].other]
  BY <1>1, <1>2, <1>6
<1>8. \A u \in Threads : call[u].op = "merge" => call[u].at # "idle"
  BY DEF Core, CallsSound, SoundCall, StepsOf, Idle
<1> QED  BY <1>2, <1>3, <1>4, <1>5, <1>7, <1>8

LEMMA MakeFacts ==
  ASSUME Core, NEW t \in Threads, MakeChild(t)
  PROVE  /\ call[t].at = "make" /\ SoundCall(call[t]) /\ call[t].op \in {"parameter", "general"}
         /\ call' \in [Threads -> Calls] /\ call'[t] = Idle
         /\ \A u \in Threads : u # t => call'[u] = call[u]
         /\ UNCHANGED <<declVars, tables, locked, made, fed, finished>>
<1>1. call[t].at = "make" /\ SoundCall(call[t]) /\ call[t].op \in {"parameter", "general"}
  BY CallFacts DEF MakeChild, Core, SoundCall, StepsOf
<1>2. UNCHANGED <<declVars, tables, locked, made, fed, finished>>
  BY DEF MakeChild, NewParser, parserVars
<1> QED  BY <1>1, <1>2, ReturnFacts DEF MakeChild, Core

LEMMA MakeCore ==
  ASSUME Core, NEW t \in Threads, MakeChild(t)
  PROVE  Core'
<1> DEFINE p == call[t].parser
           isSubset == call[t].op = "parameter"
           family == IF isSubset THEN owner[p] ELSE NoFamily
<1>1. /\ call[t].at = "make" /\ SoundCall(call[t]) /\ call[t].op \in {"parameter", "general"}
      /\ call' \in [Threads -> Calls] /\ call'[t] = Idle
      /\ \A u \in Threads : u # t => call'[u] = call[u]
      /\ UNCHANGED <<declVars, tables, locked, made, fed, finished>>
  BY MakeFacts
<1>2. p \in live /\ p \in Parsers /\ (isSubset => owner[p] # NoFamily)
  BY <1>1 DEF SoundCall, KnowsOwner, Core, TypeOK
<1>3. \A u \in Threads : Publishing(u)' => u # t /\ Publishing(u) /\ call'[u] = call[u]
  BY <1>1 DEF Publishing, Idle
<1>4. \A f \in Families : ~Holds(t, f) /\ ~Holds(t, f)'
  BY <1>1, NothingHeld DEF Holds, Within
<1>5. CASE NewParser(t, isSubset, family)
  <2>1. isSubset \in BOOLEAN /\ family \in Families \cup {NoFamily}
    BY <1>2 DEF Core, TypeOK
  <2> HIDE DEF isSubset, family
  <2>2. PICK child \in Parsers \ live :
           /\ Adds(child, p, isSubset, family) /\ live' \subseteq Parsers
           /\ parent' \in [Parsers -> Parsers \cup {NoParser}] /\ subset' \in [Parsers -> BOOLEAN]
           /\ limit' \in [Parsers -> Nat] /\ slot' \in [Parsers -> Tables]
           /\ owner' \in [Parsers -> Families \cup {NoFamily}]
    BY <1>2, <1>5, <2>1, NewParserType DEF Core
  <2>3. IF isSubset THEN family = owner[p] /\ family # NoFamily
        ELSE family = NoFamily \/ family # owner[p]
    BY <1>2 DEF isSubset, family
  <2>4. UNCHANGED reserved
    BY <1>1 DEF declVars
  <2>5. /\ Born' /\ OwnersShared' /\ Grows
        /\ \A q \in Parsers : q # child => owner'[q] = owner[q]
        /\ owner'[child] = family
        /\ \A u \in Threads, f \in Families :
             /\ call[u].at \in {"copy", "work", "leave"} =>
                  (owner'[call[u].parser] = f <=> owner[call[u].parser] = f)
             /\ call[u].op = "merge" => (owner'[call[u].other] = f <=> owner[call[u].other] = f)
        /\ \A u \in Threads : call[u].op = "merge" =>
             /\ owner'[call[u].other] = owner[call[u].other]
             /\ owner'[call[u].parser] = owner[call[u].parser]
    BY <1>2, <2>1, <2>2, <2>3, <2>4, ChildBorn
  <2>6. TypeOK'
    BY <1>1, <2>2 DEF Core, TypeOK, declVars
  <2>7. CallsSound'
    BY <1>1, <2>5, CallsMove DEF Core, Moves
  <2>8. OwnersMade'
    <3>1. \A q \in Parsers : owner'[q] # NoFamily => \E r \in Parsers : owner'[q] = owner[r]
      <4>1. owner'[child] # NoFamily => owner'[child] = owner[p]
        BY <2>5 DEF family
      <4> QED  BY <1>2, <2>5, <4>1
    <3> QED  BY <1>1, <1>3, <3>1, NoneAssumption DEF Core, OwnersMade, TypeOK, Calls
  <2>9. LocksHeld'
    <3>1. \A u \in Threads, f \in Families : u # t => (Holds(u, f)' <=> Holds(u, f))
      BY <1>1, <2>5 DEF Holds, Within
    <3>2. \A u \in Threads : call'[u].op = "merge" /\ call'[u].at \in {"work", "leave"} =>
            owner'[call'[u].other] # owner'[call'[u].parser]
      BY <1>1, <2>5 DEF Core, LocksHeld, Idle
    <3> QED  BY <1>1, <1>4, <3>1, <3>2, LocksMove DEF Core
  <2> QED  BY <2>5, <2>6, <2>7, <2>8, <2>9 DEF Core
<1>6. CASE UNCHANGED <<parserVars, limit, owner, slot>>
  <2>1. TypeOK' /\ Born' /\ OwnersShared'
    BY <1>1, <1>6 DEF Core, TypeOK, Born, OwnersShared, declVars, parserVars
  <2>2. CallsSound'
    BY <1>1, <1>6, CallsMove DEF Core, Moves, Grows, parserVars
  <2>3. OwnersMade'
    BY <1>1, <1>3, <1>6 DEF Core, OwnersMade, TypeOK, Calls
  <2>4. LocksHeld'
    <3>1. \A u \in Threads, f \in Families : u # t => (Holds(u, f)' <=> Holds(u, f))
      BY <1>1, <1>6 DEF Holds, Within
    <3>2. \A u \in Threads : call'[u].op = "merge" /\ call'[u].at \in {"work", "leave"} =>
            owner'[call'[u].other] # owner'[call'[u].parser]
      BY <1>1, <1>6 DEF Core, LocksHeld, Idle
    <3> QED  BY <1>1, <1>4, <3>1, <3>2, LocksMove DEF Core
  <2> QED  BY <2>1, <2>2, <2>3, <2>4 DEF Core
<1> QED  BY <1>5, <1>6 DEF MakeChild, SharedOwner

LEMMA CopyFacts ==
  ASSUME Core, NEW t \in Threads, CopyTables(t)
  PROVE  /\ call[t].at = "copy" /\ SoundCall(call[t]) /\ call[t].op = "general"
         /\ call' \in [Threads -> Calls] /\ call'[t] = Idle
         /\ \A u \in Threads : u # t => call'[u] = call[u]
         /\ owner[call[t].parser] \in made /\ made \subseteq Families
         /\ locked' = [locked EXCEPT ![owner[call[t].parser]] = FALSE]
         /\ UNCHANGED <<declVars, fed, finished>>
<1>1. call[t].at = "copy" /\ SoundCall(call[t]) /\ call[t].op = "general"
  BY CallFacts DEF CopyTables, Core, SoundCall, StepsOf
<1>2. owner[call[t].parser] \in made
  BY <1>1 DEF Core, SoundCall, KnowsOwner, OwnersMade, TypeOK
<1>3. UNCHANGED <<declVars, fed, finished>>
  BY DEF CopyTables, NewParser, parserVars
<1> QED  BY <1>1, <1>2, <1>3, ReturnFacts DEF CopyTables, Core, TypeOK

LEMMA CopyCore ==
  ASSUME Core, NEW t \in Threads, CopyTables(t)
  PROVE  Core'
<1> DEFINE p == call[t].parser
           copy == [n \in Names |-> Copied(tables[owner[p]].entries[n])]
<1>1. /\ call[t].at = "copy" /\ SoundCall(call[t]) /\ call[t].op = "general"
      /\ call' \in [Threads -> Calls] /\ call'[t] = Idle
      /\ \A u \in Threads : u # t => call'[u] = call[u]
      /\ owner[p] \in made /\ made \subseteq Families
      /\ locked' = [locked EXCEPT ![owner[p]] = FALSE]
      /\ UNCHANGED <<declVars, fed, finished>>
  BY CopyFacts
<1>2. p \in live /\ p \in Parsers
  BY <1>1 DEF SoundCall, Core, TypeOK
<1>3. \A u \in Threads : Publishing(u)' => u # t /\ Publishing(u) /\ call'[u] = call[u]
  BY <1>1 DEF Publishing, Idle
<1>4. /\ \A f \in Families : (Holds(t, f) <=> f = owner[p]) /\ ~Holds(t, f)'
      /\ \A f \in Families : locked'[f] <=> locked[f] /\ ~Holds(t, f)
  BY <1>1, NothingHeld DEF Holds, Within, Core, TypeOK
<1>5. locked' \in [Families -> BOOLEAN]
  BY <1>1 DEF Core, TypeOK
<1>6. ASSUME NEW f \in Families \ made, NEW isSubset \in BOOLEAN, isSubset = FALSE,
             made' = made \cup {f}, NewParser(t, isSubset, f),
             tables' = [tables EXCEPT ![f] = [entries |-> copy, cap |-> limit[p]]]
      PROVE  Core'
  <2>1. PICK child \in Parsers \ live :
           /\ Adds(child, p, isSubset, f) /\ live' \subseteq Parsers
           /\ parent' \in [Parsers -> Parsers \cup {NoParser}] /\ subset' \in [Parsers -> BOOLEAN]
           /\ limit' \in [Parsers -> Nat] /\ slot' \in [Parsers -> Tables]
           /\ owner' \in [Parsers -> Families \cup {NoFamily}]
    BY <1>2, <1>6, NewParserType DEF Core
  <2>2. UNCHANGED reserved
    BY <1>1 DEF declVars
  <2>3. /\ f \in Families \cup {NoFamily}
        /\ IF isSubset THEN f = owner[p] /\ f # NoFamily ELSE f = NoFamily \/ f # owner[p]
    BY <1>1, <1>6
  <2>4. /\ Born' /\ OwnersShared' /\ Grows
        /\ \A q \in Parsers : q # child => owner'[q] = owner[q]
        /\ owner'[child] = f
        /\ \A u \in Threads, g \in Families :
             /\ call[u].at \in {"copy", "work", "leave"} =>
                  (owner'[call[u].parser] = g <=> owner[call[u].parser] = g)
             /\ call[u].op = "merge" => (owner'[call[u].other] = g <=> owner[call[u].other] = g)
        /\ \A u \in Threads : call[u].op = "merge" =>
             /\ owner'[call[u].other] = owner[call[u].other]
             /\ owner'[call[u].parser] = owner[call[u].parser]
    BY <1>2, <2>1, <2>2, <2>3, ChildBorn
  <2>5. tables' \in [Families -> Tables]
    <3>1. \A n \in Names : tables[owner[p]].entries[n] \in Entries \cup {Absent}
      BY <1>1 DEF Core, TypeOK, Tables
    <3>2. copy \in [Names -> Entries \cup {Absent}]
      BY <3>1, CopiedType
    <3>3. [entries |-> copy, cap |-> limit[p]] \in Tables
      BY <1>2, <3>2 DEF Core, TypeOK, Tables
    <3> QED  BY <1>6, <3>3 DEF Core, TypeOK
  <2>6. TypeOK'
    BY <1>1, <1>5, <1>6, <2>1, <2>5 DEF Core, TypeOK, declVars
  <2>7. CallsSound'
    BY <1>1, <2>4, CallsMove DEF Core, Moves
  <2>8. OwnersMade'
    <3>1. \A u \in Threads : Publishing(u) => call[u].family # f
      BY <1>6 DEF Core, OwnersMade
    <3>2. \A q \in Parsers : owner'[q] = f \/ owner'[q] = owner[q]
      BY <2>4
    <3>3. \A q \in Parsers : owner'[q] # NoFamily => owner'[q] \in made'
      BY <1>6, <3>2 DEF Core, OwnersMade
    <3>4. ASSUME NEW u \in Threads, Publishing(u)'
          PROVE  call'[u].family \in made' /\ \A q \in Parsers : owner'[q] # call'[u].family
      <4>1. Publishing(u) /\ call'[u] = call[u]
        BY <1>3, <3>4
      <4> QED  BY <1>6, <3>1, <3>2, <4>1 DEF Core, OwnersMade
    <3> QED  BY <1>3, <3>3, <3>4 DEF Core, OwnersMade
  <2>9. LocksHeld'
    <3>1. \A u \in Threads, g \in Families : u # t => (Holds(u, g)' <=> Holds(u, g))
      BY <1>1, <2>4 DEF Holds, Within
    <3>2. \A u \in Threads : call'[u].op = "merge" /\ call'[u].at \in {"work", "leave"} =>
            owner'[call'[u].other] # owner'[call'[u].parser]
      BY <1>1, <2>4 DEF Core, LocksHeld, Idle
    <3> QED  BY <1>4, <3>1, <3>2, LocksMove DEF Core
  <2> QED  BY <2>4, <2>6, <2>7, <2>8, <2>9 DEF Core
<1>7. CASE UNCHANGED <<parserVars, limit, owner, slot, tables, made>>
  <2>1. TypeOK' /\ Born' /\ OwnersShared'
    BY <1>1, <1>5, <1>7 DEF Core, TypeOK, Born, OwnersShared, declVars, parserVars
  <2>2. CallsSound'
    BY <1>1, <1>7, CallsMove DEF Core, Moves, Grows, parserVars
  <2>3. OwnersMade'
    BY <1>3, <1>7 DEF Core, OwnersMade
  <2>4. LocksHeld'
    <3>1. \A u \in Threads, f \in Families : u # t => (Holds(u, f)' <=> Holds(u, f))
      BY <1>1, <1>7 DEF Holds, Within
    <3>2. \A u \in Threads : call'[u].op = "merge" /\ call'[u].at \in {"work", "leave"} =>
            owner'[call'[u].other] # owner'[call'[u].parser]
      BY <1>1, <1>7 DEF Core, LocksHeld, Idle
    <3> QED  BY <1>4, <3>1, <3>2, LocksMove DEF Core
  <2> QED  BY <2>1, <2>2, <2>3, <2>4 DEF Core
<1>8. made # Families => Fresh(Families \ made) \in Families \ made
  BY FreshFamily DEF Core
<1> QED  BY <1>6, <1>7, <1>8 DEF CopyTables

\* A step that leaves the parsers and their owners alone.
LEMMA LockingCore ==
  ASSUME Core, NEW t \in Threads, call[t].at # "idle", TypeOK',
         UNCHANGED <<live, subset, parent, reserved, owner, made>>,
         Moves(t), call'[t].at # "publish",
         \A f \in Families : locked'[f] <=> (locked[f] /\ ~Holds(t, f)) \/ Holds(t, f)',
         \A f \in Families : Holds(t, f)' => Holds(t, f) \/ ~locked[f],
         call'[t].op = "merge" /\ call'[t].at \in {"work", "leave"} =>
           owner[call[t].other] # owner[call[t].parser]
  PROVE  Core'
<1>1. \A u \in Threads : u # t => call'[u] = call[u]
  BY DEF Moves
<1>2. Born' /\ OwnersShared'
  BY DEF Core, Born, OwnersShared
<1>3. CallsSound'
  BY CallsMove DEF Core, Grows
<1>4. OwnersMade'
  <2>1. \A u \in Threads : Publishing(u)' => u # t /\ Publishing(u)
    BY <1>1 DEF Publishing
  <2> QED  BY <1>1, <2>1 DEF Core, OwnersMade
<1>5. LocksHeld'
  <2>1. \A u \in Threads, f \in Families : u # t => (Holds(u, f)' <=> Holds(u, f))
    BY <1>1 DEF Holds, Within
  <2>2. \A u \in Threads : call'[u].op = "merge" /\ call'[u].at \in {"work", "leave"} =>
          owner'[call'[u].other] # owner'[call'[u].parser]
    <3>1. call'[t].op = "merge" => call'[t].parser = call[t].parser /\ call'[t].other = call[t].other
      BY DEF Moves, Idle
    <3> QED  BY <1>1, <3>1 DEF Core, LocksHeld
  <2> QED  BY <2>1, <2>2, LocksMove DEF Core
<1> QED  BY <1>2, <1>3, <1>4, <1>5 DEF Core

LEMMA RefuseCore ==
  ASSUME Core, NEW t \in Threads, call[t].at \in {"other", "lock"}, NEW f \in Families, Refuse(t, f),
         UNCHANGED <<parserVars, limit, reserved, awaited, declared, owner, made>>
  PROVE  /\ Core' /\ call'[t] = Idle /\ \A u \in Threads : u # t => call'[u] = call[u]
         /\ UNCHANGED <<slot, tables>>
<1>1. /\ call' \in [Threads -> Calls] /\ call'[t] = Idle
      /\ \A u \in Threads : u # t => call'[u] = call[u]
  BY ReturnFacts DEF Refuse, Core
<1>2. UNCHANGED <<slot, tables>> /\ error' \in [Parsers -> BOOLEAN]
  BY RecordType DEF Refuse, Core, TypeOK
<1>3. /\ locked' \in [Families -> BOOLEAN]
      /\ \A g \in Families : locked'[g] <=> locked[g] /\ ~Holds(t, g)
  <2>1. /\ locked' \in [Families -> BOOLEAN]
        /\ \A g \in Families :
             locked'[g] <=> locked[g] /\ g \notin (IF call[t].at = "lock" THEN OtherLocked(t) ELSE {})
    BY UnlockType DEF Refuse, Core, TypeOK
  <2>2. \A g \in Families :
          Holds(t, g) <=> g \in (IF call[t].at = "lock" THEN OtherLocked(t) ELSE {})
    BY DEF Holds, Within, OtherLocked
  <2> QED  BY <2>1, <2>2
<1>4. \A g \in Families : ~Holds(t, g)'
  BY <1>1, NothingHeld
<1>5. UNCHANGED <<live, subset, parent, fed, finished, limit, reserved, awaited, declared, owner, made>>
  BY DEF parserVars
<1>6. TypeOK'
  BY <1>1, <1>2, <1>3, <1>5 DEF Core, TypeOK
<1>7. Moves(t) /\ call'[t].at # "publish" /\ call'[t].op # "merge"
  BY <1>1 DEF Moves, Idle
<1>8. Core'
  BY <1>3, <1>4, <1>5, <1>6, <1>7, LockingCore
<1> QED  BY <1>1, <1>2, <1>8

LEMMA OtherHasOwner ==
  ASSUME Core, NEW t \in Threads, call[t].at # "idle", call[t].op = "merge"
  PROVE  call[t].other \in Parsers /\ owner[call[t].other] \in Families
<1>1. call[t].other \in Parsers /\ subset[call[t].other]
  BY CallFacts DEF Core, SoundCall, TypeOK
<1> QED  BY <1>1, NoneAssumption DEF Core, Born, OwnersShared, TypeOK

LEMMA LockOtherCore ==
  ASSUME Core, NEW t \in Threads, LockOther(t)
  PROVE  /\ Core' /\ UNCHANGED <<slot, tables, owner, made>>
         /\ \A f \in Families : ~Within(t, f) /\ ~Within(t, f)'
         /\ \A u \in Threads : u # t => call'[u] = call[u]
<1> DEFINE f == owner[call[t].other]
<1>1. call[t].at = "other" /\ SoundCall(call[t]) /\ call[t].op = "merge"
  BY CallFacts DEF LockOther, Core, SoundCall, StepsOf
<1>2. f \in Families /\ f # NoFamily /\ owner[call[t].parser] # NoFamily
  BY <1>1, OtherHasOwner, NoneAssumption DEF SoundCall, KnowsOwner
<1>3. UNCHANGED <<parserVars, limit, reserved, awaited, declared, owner, slot, tables, made>>
  BY DEF LockOther
<1>4. CASE ~Locked(f) /\ locked' = [locked EXCEPT ![f] = TRUE] /\ Goto(t, "lock") /\ UNCHANGED error
  <2>1. /\ call' \in [Threads -> Calls] /\ \A u \in Threads : u # t => call'[u] = call[u]
        /\ call'[t].at = "lock" /\ call'[t].op = call[t].op
        /\ call'[t].parser = call[t].parser /\ call'[t].other = call[t].other
    BY <1>4, GotoFacts DEF Core, Steps
  <2>2. /\ locked' \in [Families -> BOOLEAN] /\ ~locked[f]
        /\ \A g \in Families : locked'[g] <=> locked[g] \/ g = f
    BY <1>2, <1>4 DEF Core, TypeOK, Locked
  <2>3. TypeOK'
    BY <1>3, <1>4, <2>1, <2>2 DEF Core, TypeOK, parserVars
  <2>4. Moves(t)
    BY <1>1, <1>2, <1>3, <2>1 DEF Moves, StepsOf
  <2>5. \A g \in Families : ~Holds(t, g) /\ (Holds(t, g)' <=> g = f)
    BY <1>1, <1>3, <2>1 DEF Holds, Within
  <2>6. Core'
    BY <1>1, <1>3, <2>1, <2>2, <2>3, <2>4, <2>5, LockingCore DEF parserVars
  <2> QED  BY <1>1, <1>3, <2>1, <2>6 DEF Within
<1>5. CASE Refuse(t, f)
  <2>1. Core' /\ call'[t] = Idle /\ \A u \in Threads : u # t => call'[u] = call[u]
    BY <1>1, <1>2, <1>3, <1>5, RefuseCore
  <2> QED  BY <1>1, <1>3, <2>1 DEF Within, Idle
<1> QED  BY <1>2, <1>4, <1>5 DEF LockOther

LEMMA LockFacts ==
  ASSUME Core, NEW t \in Threads, call[t].at = "lock"
  PROVE  /\ SoundCall(call[t]) /\ call[t].op \in {"general", "next", "limits", "merge"}
         /\ call[t].parser \in Parsers /\ owner[call[t].parser] \in Families
         /\ \A g \in Families : Holds(t, g) <=> call[t].op = "merge" /\ owner[call[t].other] = g
<1>1. SoundCall(call[t]) /\ call[t].op \in {"general", "next", "limits", "merge"}
      /\ call[t].parser \in Parsers
  BY CallFacts DEF Core, SoundCall, StepsOf
<1>2. owner[call[t].parser] \in Families
  BY <1>1 DEF SoundCall, KnowsOwner, Core, TypeOK
<1> QED  BY <1>1, <1>2 DEF Holds, Within

\* Taking the lock: a general child's parent keeps its tables, anyone else gets them.
Takes(t, at) ==
  LET f == owner[call[t].parser] IN
  /\ ~locked[f] /\ locked' = [locked EXCEPT ![f] = TRUE] /\ UNCHANGED error /\ Goto(t, at)
  /\ UNCHANGED <<parserVars, limit, reserved, awaited, declared, owner, made>>

LEMMA TakeCore ==
  ASSUME Core, NEW t \in Threads, call[t].at = "lock", NEW at \in {"copy", "work"}, Takes(t, at),
         at = "copy" <=> call[t].op = "general",
         slot' \in [Parsers -> Tables], tables' \in [Families -> Tables]
  PROVE  /\ Core' /\ \A u \in Threads : u # t => call'[u] = call[u]
         /\ call'[t].at = at /\ call'[t].parser = call[t].parser
<1> DEFINE f == owner[call[t].parser]
<1>1. /\ SoundCall(call[t]) /\ call[t].op \in {"general", "next", "limits", "merge"}
      /\ call[t].parser \in Parsers /\ f \in Families
      /\ \A g \in Families : Holds(t, g) <=> call[t].op = "merge" /\ owner[call[t].other] = g
  BY LockFacts
<1>2. UNCHANGED <<parserVars, limit, error, reserved, awaited, declared, owner, made>>
  BY DEF Takes
<1>3. /\ call' \in [Threads -> Calls] /\ \A u \in Threads : u # t => call'[u] = call[u]
      /\ call'[t].at = at /\ call'[t].op = call[t].op
      /\ call'[t].parser = call[t].parser /\ call'[t].other = call[t].other
  BY GotoFacts DEF Core, Steps, Takes
<1>4. /\ locked' \in [Families -> BOOLEAN] /\ ~locked[f]
      /\ \A g \in Families : locked'[g] <=> locked[g] \/ g = f
  BY <1>1 DEF Core, TypeOK, Takes
<1>5. TypeOK'
  BY <1>2, <1>3, <1>4 DEF Core, TypeOK, parserVars
<1>6. Moves(t)
  BY <1>1, <1>2, <1>3, NoneAssumption DEF Moves, StepsOf
<1>7. \A g \in Families : Holds(t, g)' <=> g = f \/ Holds(t, g)
  <2>1. at = "copy" => call[t].op # "merge"
    OBVIOUS
  <2> QED  BY <1>1, <1>2, <1>3, <2>1 DEF Holds, Within
<1>8. call[t].op = "merge" => owner[call[t].other] # f
  <2>1. call[t].op = "merge" => owner[call[t].other] \in Families
    BY OtherHasOwner
  <2>2. \A g \in Families : Holds(t, g) => locked[g]
    BY DEF Core, LocksHeld
  <2> QED  BY <1>1, <1>4, <2>1, <2>2
<1>9. \A g \in Families : Holds(t, g) => locked[g]
  BY DEF Core, LocksHeld
<1>10. Core'
  BY <1>2, <1>3, <1>4, <1>5, <1>6, <1>7, <1>8, <1>9, LockingCore DEF parserVars
<1> QED  BY <1>3, <1>10

LEMMA LockCore ==
  ASSUME Core, NEW t \in Threads, Lock(t)
  PROVE  /\ Core' /\ call[t].at = "lock" /\ \A u \in Threads : u # t => call'[u] = call[u]
         /\ UNCHANGED <<owner, made, limit, reserved, declared>>
         /\ \/ UNCHANGED <<slot, tables>> /\ call'[t].at \in {"idle", "copy"}
            \/ /\ call'[t].at = "work" /\ call'[t].parser = call[t].parser
               /\ slot' = [slot EXCEPT ![call[t].parser] = tables[owner[call[t].parser]]]
               /\ tables' = [tables EXCEPT ![owner[call[t].parser]] = slot[call[t].parser]]
<1> DEFINE p == call[t].parser
           f == owner[p]
<1>1. call[t].at = "lock" /\ UNCHANGED <<parserVars, limit, reserved, awaited, declared, owner, made>>
  BY DEF Lock
<1>2. p \in Parsers /\ f \in Families
  BY <1>1, LockFacts
<1>3. CASE ~Locked(f) /\ locked' = [locked EXCEPT ![f] = TRUE] /\ UNCHANGED error
           /\ call[t].op = "general" /\ Goto(t, "copy") /\ UNCHANGED <<slot, tables>>
  <2>1. Takes(t, "copy") /\ slot' \in [Parsers -> Tables] /\ tables' \in [Families -> Tables]
    BY <1>1, <1>3 DEF Takes, Locked, Core, TypeOK
  <2>2. Core' /\ call'[t].at = "copy" /\ \A u \in Threads : u # t => call'[u] = call[u]
    BY <1>1, <1>3, <2>1, TakeCore
  <2> QED  BY <1>1, <1>3, <2>2
<1>4. CASE ~Locked(f) /\ locked' = [locked EXCEPT ![f] = TRUE] /\ UNCHANGED error
           /\ call[t].op # "general" /\ Goto(t, "work")
           /\ slot' = [slot EXCEPT ![p] = tables[f]] /\ tables' = [tables EXCEPT ![f] = slot[p]]
  <2>1. Takes(t, "work") /\ slot' \in [Parsers -> Tables] /\ tables' \in [Families -> Tables]
    BY <1>1, <1>2, <1>4 DEF Takes, Locked, Core, TypeOK
  <2>2. Core' /\ call'[t].at = "work" /\ call'[t].parser = p
        /\ \A u \in Threads : u # t => call'[u] = call[u]
    BY <1>1, <1>4, <2>1, TakeCore
  <2> QED  BY <1>1, <1>4, <2>2
<1>5. CASE Refuse(t, f)
  <2>1. /\ Core' /\ call'[t] = Idle /\ \A u \in Threads : u # t => call'[u] = call[u]
        /\ UNCHANGED <<slot, tables>>
    BY <1>1, <1>2, <1>5, RefuseCore
  <2> QED  BY <1>1, <2>1 DEF Idle
<1> QED  BY <1>3, <1>4, <1>5 DEF Lock

LEMMA LeaveCore ==
  ASSUME Core, NEW t \in Threads, Leave(t)
  PROVE  /\ Core' /\ call[t].at = "leave" /\ call'[t] = Idle /\ call[t].parser \in Parsers
         /\ \A u \in Threads : u # t => call'[u] = call[u]
         /\ UNCHANGED <<owner, made, limit, reserved, declared>>
         /\ owner[call[t].parser] = NoFamily => UNCHANGED <<slot, tables>>
         /\ owner[call[t].parser] # NoFamily =>
              /\ tables' = [tables EXCEPT ![owner[call[t].parser]] = slot[call[t].parser]]
              /\ slot' = [slot EXCEPT ![call[t].parser] = tables[owner[call[t].parser]]]
<1> DEFINE p == call[t].parser
<1>1. call[t].at = "leave" /\ SoundCall(call[t]) /\ call[t].op \in ExclusiveOps /\ p \in Parsers
  BY CallFacts DEF Leave, Core, SoundCall, StepsOf, ExclusiveOps
<1>2. /\ call' \in [Threads -> Calls] /\ call'[t] = Idle
      /\ \A u \in Threads : u # t => call'[u] = call[u]
  BY ReturnFacts DEF Leave, Core
<1>3. UNCHANGED <<parserVars, limit, declVars, owner, made>>
  BY DEF Leave
<1>4. /\ owner[p] = NoFamily => UNCHANGED <<slot, tables>>
      /\ owner[p] # NoFamily =>
           /\ tables' = [tables EXCEPT ![owner[p]] = slot[p]]
           /\ slot' = [slot EXCEPT ![p] = tables[owner[p]]]
  BY DEF Leave, SwapBack
<1>5. slot' \in [Parsers -> Tables] /\ tables' \in [Families -> Tables]
  <2>1. CASE owner[p] = NoFamily
    BY <1>4, <2>1 DEF Core, TypeOK
  <2>2. CASE owner[p] # NoFamily
    <3>1. owner[p] \in Families
      BY <1>1, <2>2 DEF Core, TypeOK
    <3> QED  BY <1>1, <1>4, <2>2, <3>1 DEF Core, TypeOK
  <2> QED  BY <2>1, <2>2
<1>6. /\ locked' \in [Families -> BOOLEAN]
      /\ \A g \in Families : locked'[g] <=> locked[g] /\ ~Holds(t, g)
  <2>1. /\ locked' \in [Families -> BOOLEAN]
        /\ \A g \in Families : locked'[g] <=> locked[g] /\ g \notin ({owner[p]} \cup OtherLocked(t))
    BY UnlockType DEF Leave, Core, TypeOK
  <2>2. \A g \in Families : Holds(t, g) <=> g \in {owner[p]} \cup OtherLocked(t)
    BY <1>1 DEF Holds, Within, OtherLocked
  <2> QED  BY <2>1, <2>2
<1>7. \A g \in Families : ~Holds(t, g)'
  BY <1>2, NothingHeld
<1>8. TypeOK'
  BY <1>2, <1>3, <1>5, <1>6 DEF Core, TypeOK, parserVars, declVars
<1>9. Moves(t) /\ call'[t].at # "publish" /\ call'[t].op # "merge"
  BY <1>2 DEF Moves, Idle
<1>10. Core'
  BY <1>1, <1>3, <1>6, <1>7, <1>8, <1>9, LockingCore DEF parserVars, declVars
<1> QED  BY <1>1, <1>2, <1>3, <1>4, <1>10 DEF declVars

\* The inductive invariant.
LEMMA CoreStep ==
  ASSUME Core, [Next]_vars
  PROVE  Core'
<1>1. CASE Application
  BY <1>1, ApplicationBegins, BeginCore DEF Core
<1>2. ASSUME NEW t \in Threads, Step(t) PROVE Core'
  <2>1. CASE AllocateOwner(t)
    BY <2>1, AllocateCore
  <2>2. CASE PublishOwner(t)
    BY <2>2, PublishCore
  <2>3. CASE MakeChild(t)
    BY <2>3, MakeCore
  <2>4. CASE CopyTables(t)
    BY <2>4, CopyCore
  <2>5. CASE LockOther(t)
    BY <2>5, LockOtherCore
  <2>6. CASE Lock(t)
    BY <2>6, LockCore
  <2>7. CASE Work(t)
    BY <2>7, WorkCore
  <2>8. CASE Leave(t)
    BY <2>8, LeaveCore
  <2> QED  BY <1>2, <2>1, <2>2, <2>3, <2>4, <2>5, <2>6, <2>7, <2>8 DEF Step
<1>3. CASE UNCHANGED vars
  <2>1. /\ UNCHANGED <<live, subset, parent, fed, finished, limit, error, reserved, awaited, declared>>
        /\ UNCHANGED <<owner, slot, tables, locked, made, call>>
    BY <1>3 DEF vars, parserVars, declVars, tableVars
  <2>2. TypeOK' /\ Born' /\ CallsSound' /\ OwnersMade' /\ OwnersShared'
    BY <2>1 DEF Core, TypeOK, Born, CallsSound, SoundCall, KnowsOwner, OwnersMade, OwnersShared, Publishing
  <2>3. LocksHeld'
    BY <2>1 DEF Core, LocksHeld, Holds, Within
  <2> QED  BY <2>2, <2>3 DEF Core
<1> QED  BY <1>1, <1>2, <1>3 DEF Next

\* The types, for any sets of threads, parsers, families and names.
THEOREM TypeCorrect == Spec => []TypeOK
<1>1. Core => TypeOK
  BY DEF Core
<1> QED  BY <1>1, CoreInit, CoreStep, PTL DEF Spec

-----------------------------------------------------------------------------
(***************************************************************************)
(* The entries of a family, wherever they are                              *)
(***************************************************************************)

Viewed ==
  \A f \in Families :
    /\ \A t \in Threads : Within(t, f) => View(f) = slot[call[t].parser]
    /\ (\A t \in Threads : ~Within(t, f)) => View(f) = tables[f]

LEMMA ViewIs == Core => Viewed
<1> SUFFICES ASSUME Core PROVE Viewed
  OBVIOUS
<1> SUFFICES ASSUME NEW f \in Families
             PROVE  /\ \A t \in Threads : Within(t, f) => View(f) = slot[call[t].parser]
                    /\ (\A t \in Threads : ~Within(t, f)) => View(f) = tables[f]
  BY DEF Viewed
<1>1. Inside(f) = {call[u].parser : u \in {v \in Threads : Within(v, f)}}
  BY DEF Inside, Within
<1>2. ASSUME NEW t \in Threads, Within(t, f) PROVE View(f) = slot[call[t].parser]
  <2>1. \A u \in Threads : Within(u, f) => u = t
    BY <1>2 DEF Core, LocksHeld, Holds
  <2>2. Inside(f) = {call[t].parser}
    BY <1>1, <1>2, <2>1
  <2>3. locked[f]
    BY <1>2 DEF Core, LocksHeld, Holds
  <2>4. View(f) = slot[CHOOSE p \in Inside(f) : TRUE]
    BY <2>2, <2>3 DEF View
  <2>5. (CHOOSE p \in Inside(f) : TRUE) \in Inside(f)
    BY <2>2
  <2> QED  BY <2>2, <2>4, <2>5
<1>3. ASSUME \A t \in Threads : ~Within(t, f) PROVE View(f) = tables[f]
  BY <1>1, <1>3 DEF View
<1> QED  BY <1>2, <1>3

LEMMA ViewIsNext == Core' => Viewed'
BY ViewIs, PTL

LEMMA ViewType ==
  ASSUME Core, NEW f \in Families
  PROVE  View(f) \in Tables
<1>1. \A t \in Threads : Within(t, f) => slot[call[t].parser] \in Tables
  <2>1. \A t \in Threads : Within(t, f) => call[t].parser \in Parsers
    BY CallFacts DEF Within, Core
  <2> QED  BY <2>1 DEF Core, TypeOK
<1> QED  BY <1>1, ViewIs DEF Viewed, Core, TypeOK

\* The same parsers have the tables as before, and neither changed.
LEMMA ViewStays ==
  ASSUME Core, Core', NEW f \in Families,
         \A u \in Threads : Within(u, f)' <=> Within(u, f),
         \A u \in Threads : Within(u, f) =>
           call'[u].parser = call[u].parser /\ slot'[call[u].parser] = slot[call[u].parser],
         tables'[f] = tables[f]
  PROVE  View(f)' = View(f)
<1>1. Viewed /\ Viewed'
  BY ViewIs, ViewIsNext
<1>2. CASE \E u \in Threads : Within(u, f)
  <2>1. PICK u \in Threads : Within(u, f)
    BY <1>2
  <2>2. View(f) = slot[call[u].parser] /\ View(f)' = slot'[call'[u].parser]
    BY <1>1, <2>1 DEF Viewed
  <2> QED  BY <2>1, <2>2
<1>3. CASE \A u \in Threads : ~Within(u, f)
  <2>1. View(f) = tables[f] /\ View(f)' = tables'[f]
    BY <1>1, <1>3 DEF Viewed
  <2> QED  BY <2>1
<1> QED  BY <1>2, <1>3

\* The parser that works in a family, and the only one.
LEMMA OneWithin ==
  ASSUME Core, NEW f \in Families, NEW t \in Threads, NEW u \in Threads, Within(t, f), Within(u, f)
  PROVE  t = u
BY DEF Core, LocksHeld, Holds

\* What a parser works with is not shared with another family.
LEMMA WithinAlone ==
  ASSUME Core, NEW f \in Families, NEW t \in Threads, NEW u \in Threads,
         Within(u, f), call[t].parser = call[u].parser, call[t].at \in {"lock", "work", "leave"},
         call[t].op # "general"
  PROVE  t = u
<1>1. SoundCall(call[t]) /\ call[t].op \in ExclusiveOps
  BY CallFacts DEF Core, SoundCall, StepsOf, SharingOps
<1> QED  BY <1>1 DEF Core, CallsSound

\* A step that changes no family's entries, and may found a family.
Founds(f) ==
  /\ made' = made \cup {f}
  /\ \/ View(f)'.entries = NoEntries
     \/ \E g \in made : View(f)'.entries = [n \in Names |-> Copied(View(g).entries[n])]

QuietStep ==
  /\ Grows /\ UNCHANGED <<reserved, declared>>
  /\ \A f \in made : View(f)' = View(f)
  /\ UNCHANGED made \/ \E f \in Families \ made : Founds(f)

LEMMA BeginQuiet ==
  ASSUME Core, Core', NEW t \in Threads, NEW p \in Parsers, NEW other \in Parsers \cup {NoParser},
         NEW op \in SharingOps \cup ExclusiveOps, Beginning(t, op, p, other)
  PROVE  QuietStep
<1>1. /\ call[t] = Idle /\ call'[t].parser = p /\ \A u \in Threads : u # t => call'[u] = call[u]
      /\ call'[t].at \in StepsOf(op) \ {"publish", "leave", "copy"}
      /\ call'[t].at = "work" => owner[p] = NoFamily
  BY BeginFacts DEF Core
<1>2. UNCHANGED <<live, subset, parent, finished, limit, declVars, owner, tableVars, made>>
  BY DEF Beginning, Begin
<1>3. \A u \in Threads, f \in Families : Within(u, f)' <=> Within(u, f)
  BY <1>1, <1>2, NoneAssumption DEF Within, Idle
<1>4. \A u \in Threads, f \in Families : Within(u, f) => call'[u].parser = call[u].parser
  BY <1>1 DEF Within, Idle
<1>5. \A f \in Families : View(f)' = View(f)
  BY <1>2, <1>3, <1>4, ViewStays DEF tableVars
<1> QED  BY <1>2, <1>5 DEF QuietStep, Grows, declVars, Core, TypeOK

LEMMA AllocateQuiet ==
  ASSUME Core, Core', NEW t \in Threads, AllocateOwner(t)
  PROVE  QuietStep
<1>1. call[t].at = "allocate" /\ UNCHANGED <<live, subset, parent, reserved, declared, owner, slot>>
  BY DEF AllocateOwner, parserVars
<1>2. Grows
  BY <1>1 DEF Grows
<1>3. ASSUME \A u \in Threads : u # t => call'[u] = call[u], call'[t].at \in {"idle", "publish"}
      PROVE  \A u \in Threads, f \in Families :
               /\ Within(u, f)' <=> Within(u, f)
               /\ Within(u, f) => call'[u].parser = call[u].parser
  BY <1>1, <1>3 DEF Within
<1>4. ASSUME NEW f \in Families \ made, made' = made \cup {f},
             tables' = [tables EXCEPT ![f] = Empty(slot[call[t].parser].cap)],
             \A u \in Threads : u # t => call'[u] = call[u], call'[t].at = "publish"
      PROVE  QuietStep
  <2>1. \A g \in made : g \in Families /\ tables'[g] = tables[g]
    BY <1>4 DEF Core, TypeOK
  <2>2. \A g \in made : View(g)' = View(g)
    BY <1>1, <1>3, <1>4, <2>1, ViewStays
  <2>3. \A u \in Threads : ~Within(u, f)'
    <3>1. \A u \in Threads : ~Within(u, f)
      BY <1>4, CallFacts, NoneAssumption DEF Core, OwnersMade, Within
    <3> QED  BY <1>3, <1>4, <3>1
  <2>4. View(f)' = tables'[f]
    BY <2>3, ViewIsNext DEF Viewed
  <2>5. View(f)'.entries = NoEntries
    BY <1>4, <2>4 DEF Core, TypeOK, Empty
  <2> QED  BY <1>1, <1>2, <1>4, <2>2, <2>5 DEF QuietStep, Founds
<1>5. ASSUME Return(t), UNCHANGED <<made, tables>> PROVE QuietStep
  <2>1. /\ \A u \in Threads : u # t => call'[u] = call[u]
        /\ call'[t].at \in {"idle", "publish"}
    BY <1>5, ReturnFacts DEF Core, Idle
  <2>2. \A g \in made : View(g)' = View(g)
    BY <1>1, <1>3, <1>5, <2>1, ViewStays DEF Core, TypeOK
  <2> QED  BY <1>1, <1>2, <1>5, <2>2 DEF QuietStep
<1> QED  BY <1>4, <1>5, AllocateFacts DEF Core

LEMMA PublishQuiet ==
  ASSUME Core, Core', NEW t \in Threads, PublishOwner(t)
  PROVE  QuietStep
<1> DEFINE p == call[t].parser
<1>1. /\ call[t].at = "publish" /\ SoundCall(call[t]) /\ call[t].op \in {"parameter", "next", "merge"}
      /\ \A u \in Threads : u # t => call'[u] = call[u]
      /\ call'[t].at \in {"make", "lock", "other"}
  BY PublishFacts DEF Core
<1>2. UNCHANGED <<live, subset, parent, reserved, declared, slot, tables, made>>
  BY DEF PublishOwner, parserVars, declVars, tableVars
<1>3. /\ \A q \in Parsers : q # p => owner'[q] = owner[q]
      /\ owner[p] # NoFamily => owner'[p] = owner[p]
  BY DEF PublishOwner, Core, TypeOK
<1>4. Grows
  BY <1>2, <1>3 DEF Grows, Core, TypeOK
<1>5. ASSUME NEW u \in Threads, u # t, call[u].at \in {"work", "leave"}
      PROVE  owner'[call[u].parser] = owner[call[u].parser]
  <2>1. call[u].parser \in Parsers /\ SoundCall(call[u]) /\ call[u].op \in ExclusiveOps
    BY <1>5, CallFacts DEF Core, SoundCall, StepsOf, SharingOps
  <2>2. call[u].parser # p
    BY <1>5, <2>1 DEF Core, CallsSound
  <2> QED  BY <1>3, <2>1, <2>2
<1>6. \A u \in Threads, f \in Families :
        /\ Within(u, f)' <=> Within(u, f)
        /\ Within(u, f) => call'[u].parser = call[u].parser
  BY <1>1, <1>5 DEF Within
<1>7. \A f \in made : View(f)' = View(f)
  BY <1>2, <1>6, ViewStays DEF Core, TypeOK
<1> QED  BY <1>2, <1>4, <1>7 DEF QuietStep

LEMMA MakeQuiet ==
  ASSUME Core, Core', NEW t \in Threads, MakeChild(t)
  PROVE  QuietStep
<1> DEFINE p == call[t].parser
           isSubset == call[t].op = "parameter"
           family == IF isSubset THEN owner[p] ELSE NoFamily
<1>1. /\ call[t].at = "make" /\ SoundCall(call[t]) /\ call'[t] = Idle
      /\ \A u \in Threads : u # t => call'[u] = call[u]
      /\ UNCHANGED <<declVars, tables, locked, made, fed, finished>>
  BY MakeFacts
<1>2. p \in live /\ p \in Parsers /\ (isSubset => owner[p] # NoFamily)
  BY <1>1 DEF SoundCall, KnowsOwner, Core, TypeOK
<1>3. CASE NewParser(t, isSubset, family)
  <2>1. isSubset \in BOOLEAN /\ family \in Families \cup {NoFamily}
    BY <1>2 DEF Core, TypeOK
  <2>2. IF isSubset THEN family = owner[p] /\ family # NoFamily
        ELSE family = NoFamily \/ family # owner[p]
    BY <1>2
  <2> HIDE DEF isSubset, family
  <2>3. PICK child \in Parsers \ live :
          Adds(child, p, isSubset, family) /\ slot' = [slot EXCEPT ![child] = Empty(limit[p])]
    BY <1>2, <1>3, <2>1, NewParserType DEF Core
  <2>4. UNCHANGED reserved
    BY <1>1 DEF declVars
  <2>5. /\ Grows
        /\ \A u \in Threads, f \in Families : call[u].at \in {"copy", "work", "leave"} =>
             (owner'[call[u].parser] = f <=> owner[call[u].parser] = f)
    BY <1>2, <2>1, <2>2, <2>3, <2>4, ChildBorn
  <2>6. \A u \in Threads, f \in Families : Within(u, f)' <=> Within(u, f)
    BY <1>1, <2>5 DEF Within, Idle
  <2>7. \A u \in Threads, f \in Families : Within(u, f) =>
          call'[u].parser = call[u].parser /\ slot'[call[u].parser] = slot[call[u].parser]
    <3>1. \A u \in Threads, f \in Families : Within(u, f) => u # t /\ call[u].parser \in live
      BY <1>1, CallFacts DEF Within, Core, SoundCall
    <3>2. \A q \in live : slot'[q] = slot[q]
      BY <2>3 DEF Core, TypeOK
    <3> QED  BY <1>1, <3>1, <3>2
  <2>8. \A f \in made : View(f)' = View(f)
    BY <1>1, <2>6, <2>7, ViewStays DEF Core, TypeOK
  <2> QED  BY <1>1, <2>5, <2>8 DEF QuietStep, declVars
<1>4. CASE UNCHANGED <<parserVars, limit, owner, slot>>
  <2>1. \A u \in Threads, f \in Families :
          /\ Within(u, f)' <=> Within(u, f)
          /\ Within(u, f) => call'[u].parser = call[u].parser
    BY <1>1, <1>4 DEF Within, Idle
  <2>2. \A f \in made : View(f)' = View(f)
    BY <1>1, <1>4, <2>1, ViewStays DEF Core, TypeOK
  <2> QED  BY <1>1, <1>4, <2>2 DEF QuietStep, declVars, Grows, parserVars
<1> QED  BY <1>3, <1>4 DEF MakeChild, SharedOwner

LEMMA CopyQuiet ==
  ASSUME Core, Core', NEW t \in Threads, CopyTables(t)
  PROVE  QuietStep
<1> DEFINE p == call[t].parser
           copy == [n \in Names |-> Copied(tables[owner[p]].entries[n])]
<1>1. /\ call[t].at = "copy" /\ SoundCall(call[t]) /\ call'[t] = Idle
      /\ \A u \in Threads : u # t => call'[u] = call[u]
      /\ owner[p] \in made /\ made \subseteq Families
      /\ UNCHANGED <<declVars, fed, finished>>
  BY CopyFacts
<1>2. p \in live /\ p \in Parsers
  BY <1>1 DEF SoundCall, Core, TypeOK
<1>3. \A u \in Threads, f \in Families : Within(u, f) => u # t /\ call[u].parser \in live
  BY <1>1, CallFacts DEF Within, Core, SoundCall
<1>4. ASSUME NEW f \in Families \ made, NEW isSubset \in BOOLEAN, isSubset = FALSE,
             made' = made \cup {f}, NewParser(t, isSubset, f),
             tables' = [tables EXCEPT ![f] = [entries |-> copy, cap |-> limit[p]]]
      PROVE  QuietStep
  <2>1. PICK child \in Parsers \ live :
          Adds(child, p, isSubset, f) /\ slot' = [slot EXCEPT ![child] = Empty(limit[p])]
    BY <1>2, <1>4, NewParserType DEF Core
  <2>2. UNCHANGED reserved
    BY <1>1 DEF declVars
  <2>3. /\ f \in Families \cup {NoFamily}
        /\ IF isSubset THEN f = owner[p] /\ f # NoFamily ELSE f = NoFamily \/ f # owner[p]
    BY <1>1, <1>4
  <2>4. /\ Grows
        /\ \A u \in Threads, g \in Families : call[u].at \in {"copy", "work", "leave"} =>
             (owner'[call[u].parser] = g <=> owner[call[u].parser] = g)
    BY <1>2, <2>1, <2>2, <2>3, ChildBorn
  <2>5. \A u \in Threads, g \in Families : Within(u, g)' <=> Within(u, g)
    BY <1>1, <2>4 DEF Within, Idle
  <2>6. \A u \in Threads, g \in Families : Within(u, g) =>
          call'[u].parser = call[u].parser /\ slot'[call[u].parser] = slot[call[u].parser]
    <3>1. \A q \in live : slot'[q] = slot[q]
      BY <2>1 DEF Core, TypeOK
    <3> QED  BY <1>1, <1>3, <3>1
  <2>7. \A g \in made : View(g)' = View(g)
    <3>1. \A g \in made : tables'[g] = tables[g]
      BY <1>1, <1>4 DEF Core, TypeOK
    <3> QED  BY <1>1, <2>5, <2>6, <3>1, ViewStays
  <2>8. View(f)' = tables'[f]
    <3>1. \A u \in Threads : ~Within(u, f)
      BY <1>4, NoneAssumption, CallFacts DEF Core, OwnersMade, Within
    <3> QED  BY <2>5, <3>1, ViewIsNext DEF Viewed
  <2>9. View(owner[p]) = tables[owner[p]]
    <3>1. \A u \in Threads : ~Within(u, owner[p])
      BY <1>1, <1>3 DEF Core, LocksHeld, Holds
    <3> QED  BY <1>1, <3>1, ViewIs DEF Viewed
  <2>10. View(f)'.entries = [n \in Names |-> Copied(View(owner[p]).entries[n])]
    BY <1>4, <2>8, <2>9 DEF Core, TypeOK
  <2> QED  BY <1>1, <1>4, <2>4, <2>7, <2>10 DEF QuietStep, Founds, declVars
<1>5. CASE UNCHANGED <<parserVars, limit, owner, slot, tables, made>>
  <2>1. \A u \in Threads, f \in Families :
          /\ Within(u, f)' <=> Within(u, f)
          /\ Within(u, f) => call'[u].parser = call[u].parser
    BY <1>1, <1>5 DEF Within, Idle
  <2>2. \A f \in made : View(f)' = View(f)
    BY <1>1, <1>5, <2>1, ViewStays
  <2> QED  BY <1>1, <1>5, <2>2 DEF QuietStep, declVars, Grows, parserVars
<1>6. made # Families => Fresh(Families \ made) \in Families \ made
  BY FreshFamily DEF Core
<1> QED  BY <1>4, <1>5, <1>6 DEF CopyTables

LEMMA LockOtherQuiet ==
  ASSUME Core, Core', NEW t \in Threads, LockOther(t)
  PROVE  QuietStep
<1>1. /\ UNCHANGED <<slot, tables, owner, made>>
      /\ \A f \in Families : ~Within(t, f) /\ ~Within(t, f)'
      /\ \A u \in Threads : u # t => call'[u] = call[u]
  BY LockOtherCore
<1>2. UNCHANGED <<live, subset, parent, reserved, declared>>
  BY DEF LockOther, parserVars
<1>3. \A u \in Threads, f \in Families :
        /\ Within(u, f)' <=> Within(u, f)
        /\ Within(u, f) => call'[u].parser = call[u].parser
  BY <1>1 DEF Within
<1>4. \A f \in made : View(f)' = View(f)
  BY <1>1, <1>3, ViewStays DEF Core, TypeOK
<1> QED  BY <1>1, <1>2, <1>4 DEF QuietStep, Grows

\* The tables go from their family to the parser.
LEMMA LockQuiet ==
  ASSUME Core, Core', NEW t \in Threads, Lock(t)
  PROVE  QuietStep
<1> DEFINE p == call[t].parser
<1>0. PICK f : f = owner[p]
  OBVIOUS
<1>1. /\ call[t].at = "lock" /\ \A u \in Threads : u # t => call'[u] = call[u]
      /\ UNCHANGED <<owner, made, reserved, declared>>
      /\ \/ UNCHANGED <<slot, tables>> /\ call'[t].at \in {"idle", "copy"}
         \/ /\ call'[t].at = "work" /\ call'[t].parser = call[t].parser
            /\ slot' = [slot EXCEPT ![p] = tables[f]] /\ tables' = [tables EXCEPT ![f] = slot[p]]
  BY <1>0, LockCore
<1>2. Grows
  BY <1>1 DEF Grows, Lock, parserVars
<1>3. p \in Parsers /\ f \in Families /\ SoundCall(call[t]) /\ call[t].op \in {"general"} \cup ExclusiveOps
  BY <1>0, <1>1, LockFacts DEF ExclusiveOps
<1>4. \A g \in Families : ~Within(t, g)
  BY <1>1 DEF Within
<1>5. CASE UNCHANGED <<slot, tables>> /\ call'[t].at \in {"idle", "copy"}
  <2>1. \A u \in Threads, g \in Families :
          /\ Within(u, g)' <=> Within(u, g)
          /\ Within(u, g) => call'[u].parser = call[u].parser
    BY <1>1, <1>4, <1>5 DEF Within
  <2>2. \A g \in made : View(g)' = View(g)
    BY <1>5, <2>1, ViewStays DEF Core, TypeOK
  <2> QED  BY <1>1, <1>2, <2>2 DEF QuietStep
<1>6. CASE /\ call'[t].at = "work" /\ call'[t].parser = call[t].parser
           /\ slot' = [slot EXCEPT ![p] = tables[f]] /\ tables' = [tables EXCEPT ![f] = slot[p]]
  <2>1. Within(t, f)'
    BY <1>0, <1>1, <1>6 DEF Within
  <2>2. \A u \in Threads : ~Within(u, f)
    <3>1. \A u \in Threads : Within(u, f) => u # t /\ Within(u, f)'
      BY <1>1, <1>4 DEF Within
    <3>2. \A u \in Threads : Within(u, f)' => u = t
      BY <1>3, <2>1 DEF Core, LocksHeld, Holds
    <3> QED  BY <3>1, <3>2
  <2>3. View(f) = tables[f]
    BY <1>3, <2>2, ViewIs DEF Viewed
  <2>4. View(f)' = slot'[p]
    BY <1>3, <1>6, <2>1, ViewIsNext DEF Viewed
  <2>5. View(f)' = View(f)
    BY <1>3, <1>6, <2>3, <2>4 DEF Core, TypeOK
  <2>6. ASSUME NEW g \in Families, g # f PROVE View(g)' = View(g)
    <3>1. \A u \in Threads :
            /\ Within(u, g)' <=> Within(u, g)
            /\ Within(u, g) => call'[u].parser = call[u].parser
      BY <1>0, <1>1, <1>4, <1>6, <2>6 DEF Within
    <3>2. \A u \in Threads : Within(u, g) => call[u].parser # p
      BY <1>0, <2>6 DEF Within
    <3>3. tables'[g] = tables[g]
      BY <1>3, <1>6, <2>6 DEF Core, TypeOK
    <3>4. \A u \in Threads : Within(u, g) => slot'[call[u].parser] = slot[call[u].parser]
      BY <1>6, <3>2, CallFacts DEF Core, TypeOK, Within
    <3> QED  BY <3>1, <3>3, <3>4, ViewStays
  <2> QED  BY <1>1, <1>2, <1>3, <2>5, <2>6 DEF QuietStep, Core, TypeOK
<1> QED  BY <1>1, <1>5, <1>6

\* And back.
LEMMA LeaveQuiet ==
  ASSUME Core, Core', NEW t \in Threads, Leave(t)
  PROVE  QuietStep
<1> DEFINE p == call[t].parser
<1>0. PICK f : f = owner[p]
  OBVIOUS
<1>1. /\ call[t].at = "leave" /\ call'[t] = Idle /\ p \in Parsers
      /\ \A u \in Threads : u # t => call'[u] = call[u]
      /\ UNCHANGED <<owner, made, reserved, declared>>
      /\ f = NoFamily => UNCHANGED <<slot, tables>>
      /\ f # NoFamily => /\ tables' = [tables EXCEPT ![f] = slot[p]]
                         /\ slot' = [slot EXCEPT ![p] = tables[f]]
  BY <1>0, LeaveCore
<1>2. Grows
  BY <1>1 DEF Grows, Leave, parserVars
<1>3. ASSUME NEW g \in Families, g # f PROVE View(g)' = View(g)
  <2>1. \A u \in Threads :
          /\ Within(u, g)' <=> Within(u, g)
          /\ Within(u, g) => call'[u].parser = call[u].parser
    BY <1>0, <1>1, <1>3 DEF Within, Idle
  <2>2. \A u \in Threads : Within(u, g) => call[u].parser # p
    BY <1>0, <1>3 DEF Within
  <2>3. tables'[g] = tables[g]
    BY <1>1, <1>3 DEF Core, TypeOK
  <2>4. \A u \in Threads : Within(u, g) => slot'[call[u].parser] = slot[call[u].parser]
    BY <1>1, <2>2, CallFacts DEF Core, TypeOK, Within
  <2> QED  BY <2>1, <2>3, <2>4, ViewStays
<1>4. ASSUME f \in Families PROVE View(f)' = View(f)
  <2>1. Within(t, f) /\ \A u \in Threads : Within(u, f) => u = t
    BY <1>0, <1>1, <1>4, OneWithin DEF Within
  <2>2. \A u \in Threads : ~Within(u, f)'
    BY <1>1, <2>1 DEF Within, Idle
  <2>3. View(f) = slot[p] /\ View(f)' = tables'[f]
    BY <1>4, <2>1, <2>2, ViewIs, ViewIsNext DEF Viewed
  <2> QED  BY <1>1, <1>4, <2>3, NoneAssumption DEF Core, TypeOK
<1>5. \A g \in made : View(g)' = View(g)
  BY <1>3, <1>4 DEF Core, TypeOK
<1> QED  BY <1>1, <1>2, <1>5 DEF QuietStep

\* What a step of its own does to the entries of a family is what it does to its parser's.
LEMMA WorkViews ==
  ASSUME Core, Core', NEW t \in Threads, Work(t)
  PROVE  /\ WorkFrame(t) /\ call[t].parser \in Parsers
         /\ \A f \in made : f # owner[call[t].parser] => View(f)' = View(f)
         /\ \A f \in Families : f = owner[call[t].parser] =>
              View(f) = slot[call[t].parser] /\ View(f)' = slot'[call[t].parser]
<1> DEFINE p == call[t].parser
<1>1. WorkFrame(t) /\ p \in Parsers
  BY WorkingFrame, CallFacts DEF Core, WorkFrame
<1>2. /\ \A u \in Threads : /\ call'[u].parser = call[u].parser
                            /\ call'[u].at = call[u].at \/ (u = t /\ call'[u].at = "leave")
      /\ call[t].at = "work" /\ call'[t].at \in {"work", "leave"}
  BY <1>1, GotoFacts DEF WorkFrame, Core, Steps
<1>3. \A u \in Threads, g \in Families : Within(u, g)' <=> Within(u, g)
  BY <1>1, <1>2 DEF Within, WorkFrame
<1>4. ASSUME NEW g \in made, g # owner[p] PROVE View(g)' = View(g)
  <2>1. g \in Families /\ tables'[g] = tables[g]
    BY <1>1 DEF WorkFrame, Core, TypeOK
  <2>2. \A u \in Threads : Within(u, g) => call[u].parser # p
    BY <1>4 DEF Within
  <2>3. \A u \in Threads : Within(u, g) => slot'[call[u].parser] = slot[call[u].parser]
    BY <1>1, <2>2, CallFacts DEF Core, Within, WorkFrame
  <2> QED  BY <1>2, <1>3, <2>1, <2>3, ViewStays
<1>5. ASSUME NEW f \in Families, f = owner[p] PROVE View(f) = slot[p] /\ View(f)' = slot'[p]
  <2>1. Within(t, f) /\ Within(t, f)'
    BY <1>1, <1>2, <1>3, <1>5 DEF Within
  <2> QED  BY <1>2, <1>5, <2>1, ViewIs, ViewIsNext DEF Viewed
<1> QED  BY <1>1, <1>4, <1>5

-----------------------------------------------------------------------------
(***************************************************************************)
(* Reservations                                                            *)
(***************************************************************************)

\* The entry of the declaration that p has in progress.
Standing(p, entry) ==
  /\ entry # Absent /\ entry.state \in {"bare", "named"}
  /\ entry.by = p /\ entry.number = declared[p]

\* Only a parser that owns tables has reserved a name in them.
Reservations ==
  \A p \in Parsers : reserved[p] # NoName =>
    owner[p] \in Families /\ Standing(p, View(owner[p]).entries[reserved[p]])

\* What a parser's step does to one name: nothing, or one of three things.
OthersKept(p, n) == \A m \in Names : m # n => slot'[p].entries[m] = slot[p].entries[m]

Unchanged(p) ==
  /\ \A m \in Names : slot'[p].entries[m] = slot[p].entries[m]
  /\ UNCHANGED <<reserved, declared>> \/ reserved'[p] = NoName

Added(p, n) ==
  /\ slot[p].entries[n] = Absent /\ slot'[p].entries[n] \in Entries
  /\ Room(p) /\ slot'[p].cap = slot[p].cap /\ OthersKept(p, n)
  /\ \/ UNCHANGED <<reserved, declared>>
     \/ /\ reserved'[p] = n /\ owner[p] # NoFamily
        /\ slot'[p].entries[n] = [by |-> p, number |-> declared'[p], state |-> "bare"]

Continued(p, n, state) ==
  /\ n = reserved[p] /\ Standing(p, slot[p].entries[n]) /\ OthersKept(p, n)
  /\ state \in (IF slot[p].entries[n].state = "bare" THEN {"named", "value"} ELSE {"external"})
  /\ slot'[p].entries[n] = [slot[p].entries[n] EXCEPT !.state = state]
  /\ (UNCHANGED <<reserved, declared>> /\ state = "named") \/ reserved'[p] = NoName

Withdrawn(p, n) ==
  /\ n = reserved[p] /\ Standing(p, slot[p].entries[n]) /\ OthersKept(p, n)
  /\ slot'[p].entries[n] = Absent /\ reserved'[p] = NoName

WorkChange(p) ==
  \/ Unchanged(p)
  \/ \E n \in Names :
       Added(p, n) \/ Withdrawn(p, n) \/ \E state \in Abstract!States : Continued(p, n, state)

\* The declaration in progress, by name.
LEMMA StandingEntry ==
  ASSUME TypeOK, NEW p \in Parsers, NEW entry \in Entries, Standing(p, entry),
         NEW state \in {"bare", "named", "value", "external"}
  PROVE  Entry(p, state) = [entry EXCEPT !.state = state]
BY DEF Entries, Standing, Entry

LEMMA WorkChanges ==
  ASSUME Core, Core', Reservations, NEW t \in Threads, Work(t)
  PROVE  WorkChange(call[t].parser)
<1> DEFINE p == call[t].parser
<1>1. /\ WorkFrame(t) /\ p \in Parsers
      /\ \A f \in Families : f = owner[p] => View(f) = slot[p]
  BY WorkViews
<1>2. /\ slot \in [Parsers -> Tables] /\ slot[p] \in Tables /\ declared[p] \in Nat
      /\ \A n \in Names : slot[p].entries[n] \in Entries \cup {Absent}
  BY <1>1 DEF Core, TypeOK, Tables
<1>3. reserved[p] # NoName =>
        reserved[p] \in Names /\ Standing(p, slot[p].entries[reserved[p]])
  BY <1>1 DEF Reservations, Core, TypeOK
<1>4. \A n \in Names, e \in Entries \cup {Absent} : Put(p, n, e) =>
        OthersKept(p, n) /\ slot'[p].entries[n] = e /\ slot'[p].cap = slot[p].cap
  BY <1>1, <1>2, PutType DEF OthersKept
<1>5. \A state \in {"bare", "named", "value", "external"} : Entry(p, state) \in Entries
  BY <1>1, EntryType DEF Core
<1>6. reserved[p] # NoName =>
        /\ slot[p].entries[reserved[p]] \in Entries
        /\ \A state \in {"bare", "named", "value", "external"} :
             Entry(p, state) = [slot[p].entries[reserved[p]] EXCEPT !.state = state]
  BY <1>1, <1>2, <1>3, StandingEntry DEF Core, Standing
<1>7. CASE Identify(t)
  <2>1. /\ reserved[p] # NoName /\ slot[p].entries[reserved[p]].state = "bare"
        /\ Put(p, reserved[p], Entry(p, "named")) /\ UNCHANGED <<reserved, declared>>
    BY <1>7 DEF Identify, declVars
  <2>2. Continued(p, reserved[p], "named")
    BY <1>3, <1>4, <1>5, <1>6, <2>1 DEF Continued
  <2> QED  BY <1>3, <2>1, <2>2 DEF WorkChange, Abstract!States
<1>8. CASE Commit(t)
  <2> DEFINE n == reserved[p]
             state == slot[p].entries[n].state
             next == IF state = "bare" THEN "value" ELSE "external"
  <2>1. n # NoName /\ reserved' = [reserved EXCEPT ![p] = NoName]
    BY <1>8 DEF Commit
  <2>2. reserved'[p] = NoName /\ n \in Names /\ Standing(p, slot[p].entries[n])
    BY <1>1, <1>3, <2>1 DEF Core, TypeOK
  <2>3. Put(p, n, Entry(p, next)) \/ Put(p, n, Absent) \/ UNCHANGED slot
    BY <1>8 DEF Commit
  <2>4. CASE Put(p, n, Entry(p, next))
    <3>1. next \in {"value", "external"} /\ (state = "bare" <=> next = "value")
      OBVIOUS
    <3>2. Continued(p, n, next)
      BY <1>4, <1>5, <1>6, <2>1, <2>2, <2>4, <3>1 DEF Continued
    <3> QED  BY <2>2, <3>1, <3>2 DEF WorkChange, Abstract!States
  <2>5. CASE Put(p, n, Absent)
    <3>1. Withdrawn(p, n)
      BY <1>4, <2>2, <2>5 DEF Withdrawn
    <3> QED  BY <2>2, <3>1 DEF WorkChange
  <2>6. CASE UNCHANGED slot
    BY <2>2, <2>6 DEF WorkChange, Unchanged
  <2> QED  BY <2>3, <2>4, <2>5, <2>6
<1>9. CASE FinishValue(t)
  <2>1. /\ UNCHANGED <<reserved, declared>> /\ awaited[p] \in Names
        /\ \/ Vacant(p, awaited[p]) /\ Room(p) /\ Put(p, awaited[p], Entry(p, "value"))
           \/ UNCHANGED slot
    BY <1>1, <1>9 DEF FinishValue, Core, TypeOK
  <2>2. CASE Vacant(p, awaited[p]) /\ Room(p) /\ Put(p, awaited[p], Entry(p, "value"))
    <3>1. Added(p, awaited[p])
      BY <1>4, <1>5, <2>1, <2>2 DEF Added, Vacant
    <3> QED  BY <2>1, <3>1 DEF WorkChange
  <2>3. CASE UNCHANGED slot
    BY <2>1, <2>3 DEF WorkChange, Unchanged
  <2> QED  BY <2>1, <2>2, <2>3
<1>10. CASE Finish(t)
  BY <1>10 DEF Finish, WorkChange, Unchanged, declVars, tableVars
<1>11. CASE Fail(t)
  BY <1>11 DEF Fail, WorkChange, Unchanged, tableVars
<1>12. CASE ChangeLimits(t)
  <2>1. UNCHANGED <<reserved, declared>>
    BY <1>12 DEF ChangeLimits, declVars
  <2>2. slot' = slot \/ \E cap \in Limits : slot' = [slot EXCEPT ![p].cap = cap]
    BY <1>12 DEF ChangeLimits
  <2>3. \A m \in Names : slot'[p].entries[m] = slot[p].entries[m]
    <3>1. ASSUME NEW cap \in Limits, slot' = [slot EXCEPT ![p].cap = cap]
          PROVE  slot'[p].entries = slot[p].entries
      <4>1. slot' = [slot EXCEPT ![p] = [slot[p] EXCEPT !.cap = cap]]
        BY <3>1, Zenon
      <4> QED  BY <1>1, <1>2, <4>1 DEF Tables
    <3> QED  BY <2>2, <3>1
  <2> QED  BY <2>1, <2>3 DEF WorkChange, Unchanged
<1>13. CASE Done(t)
  BY <1>13 DEF Done, WorkChange, Unchanged, declVars, tableVars
<1>14. ASSUME NEW n \in Names, Reserve(t, n) PROVE WorkChange(p)
  <2>1. /\ slot[p].entries[n] = Absent /\ Room(p)
        /\ Put(p, n, [by |-> p, number |-> declared[p] + 1, state |-> "bare"])
        /\ declared' = [declared EXCEPT ![p] = @ + 1] /\ reserved' = [reserved EXCEPT ![p] = n]
    BY <1>14 DEF Reserve, Put, Vacant
  <2>2. [by |-> p, number |-> declared[p] + 1, state |-> "bare"] \in Entries
    BY <1>1, <1>2 DEF Entries
  <2>3. declared'[p] = declared[p] + 1 /\ reserved'[p] = n
    BY <1>1, <2>1 DEF Core, TypeOK
  <2>4. owner[p] # NoFamily
    <3>1. Working(t, "next")
      BY <1>14 DEF Reserve, Declaring
    <3> QED  BY <3>1, CallFacts DEF Core, Working, SoundCall, KnowsOwner
  <2>5. Added(p, n)
    BY <1>4, <2>1, <2>2, <2>3, <2>4 DEF Added
  <2> QED  BY <2>5 DEF WorkChange
<1>15. ASSUME NEW n \in Names, Import(t, n) PROVE WorkChange(p)
  <2>1. /\ Working(t, "merge") /\ slot[p].entries[n] = Absent /\ Room(p)
        /\ Source(call[t].other)[n] # Absent /\ Put(p, n, Source(call[t].other)[n])
        /\ UNCHANGED <<reserved, declared>>
    BY <1>15 DEF Import, Vacant, declVars
  <2>2. Source(call[t].other)[n] \in Entries
    <3>1. call[t].other \in Parsers /\ owner[call[t].other] \in Families
      BY <2>1, OtherHasOwner DEF Working
    <3> QED  BY <2>1, <3>1 DEF Source, Core, TypeOK, Tables
  <2>3. Added(p, n)
    BY <1>4, <2>1, <2>2 DEF Added
  <2> QED  BY <2>3 DEF WorkChange
<1> QED  BY <1>7, <1>8, <1>9, <1>10, <1>11, <1>12, <1>13, <1>14, <1>15 DEF Work

LEMMA WorkReservations ==
  ASSUME Core, Core', Reservations, NEW t \in Threads, Work(t)
  PROVE  Reservations'
<1> DEFINE p == call[t].parser
<1>1. /\ WorkFrame(t) /\ p \in Parsers
      /\ \A f \in made : f # owner[p] => View(f)' = View(f)
      /\ \A f \in Families : f = owner[p] => View(f) = slot[p] /\ View(f)' = slot'[p]
  BY WorkViews
<1>2. WorkChange(p)
  BY WorkChanges
<1>3. owner' = owner /\ (owner[p] # NoFamily => owner[p] \in Families)
  BY <1>1 DEF WorkFrame, Core, TypeOK
<1> SUFFICES ASSUME NEW q \in Parsers, reserved'[q] # NoName
             PROVE  owner[q] \in Families /\ Standing(q, View(owner[q]).entries[reserved[q]])'
  BY <1>3 DEF Reservations
<1>4. CASE q # p
  <2>1. /\ reserved'[q] = reserved[q] /\ declared'[q] = declared[q]
        /\ owner[q] \in Families /\ owner[q] \in made /\ reserved[q] \in Names
        /\ Standing(q, View(owner[q]).entries[reserved[q]])
    BY <1>1, <1>4, NoneAssumption DEF WorkFrame, Reservations, Core, OwnersMade, TypeOK
  <2>2. PICK f \in Families : f = owner[q]
    BY <2>1
  <2>3. View(f)'.entries[reserved[q]] = View(f).entries[reserved[q]]
    <3>1. CASE f # owner[p]
      BY <1>1, <2>1, <2>2, <3>1
    <3>2. CASE f = owner[p]
      <4>1. View(f) = slot[p] /\ View(f)' = slot'[p]
        BY <1>1, <3>2
      <4>2. Standing(q, slot[p].entries[reserved[q]])
        BY <2>1, <2>2, <4>1
      <4>3. CASE Unchanged(p)
        BY <2>1, <4>1, <4>3 DEF Unchanged
      <4>4. ASSUME NEW n \in Names,
                   Added(p, n) \/ Withdrawn(p, n) \/ \E state \in Abstract!States : Continued(p, n, state)
            PROVE  n # reserved[q] /\ OthersKept(p, n)
        BY <1>4, <4>2, <4>4 DEF Added, Withdrawn, Continued, Standing
      <4> QED  BY <1>2, <2>1, <4>1, <4>3, <4>4 DEF WorkChange, OthersKept
    <3> QED  BY <3>1, <3>2
  <2> QED  BY <1>3, <2>1, <2>2, <2>3 DEF Standing
<1>5. CASE q = p
  <2>0. /\ WorkChange(q) /\ \A f \in Families : f = owner[q] => View(f) = slot[q] /\ View(f)' = slot'[q]
    BY <1>1, <1>2, <1>5
  <2>1. Unchanged(q) \/ \E n \in Names : Added(q, n) \/ Continued(q, n, "named")
    BY <2>0 DEF WorkChange, Withdrawn, Continued
  <2>2. ASSUME UNCHANGED <<reserved, declared>>
        PROVE  /\ owner[q] \in Families /\ reserved[q] \in Names
               /\ Standing(q, slot[q].entries[reserved[q]])
    BY <1>1, <2>0, <2>2 DEF Reservations, Core, TypeOK
  <2>3. owner[q] \in Families
    <3>1. owner[q] # NoFamily \/ UNCHANGED <<reserved, declared>>
      BY <1>5, <2>1 DEF Unchanged, Added, Continued
    <3> QED  BY <1>3, <1>5, <2>2, <3>1
  <2>4. PICK f \in Families : f = owner[q]
    BY <2>3
  <2>5. View(f)' = slot'[q]
    BY <2>0, <2>4
  <2>6. Standing(q, slot[q].entries[reserved[q]])'
    <3>1. CASE Unchanged(q)
      BY <1>5, <2>2, <3>1 DEF Unchanged, Standing
    <3>2. ASSUME NEW n \in Names, Added(q, n) PROVE Standing(q, slot[q].entries[reserved[q]])'
      <4>1. CASE UNCHANGED <<reserved, declared>>
        BY <2>2, <3>2, <4>1 DEF Added, OthersKept, Standing
      <4>2. CASE reserved'[q] = n /\ slot'[q].entries[n] = [by |-> q, number |-> declared'[q], state |-> "bare"]
        BY <3>2, <4>2, AbsentAssumption DEF Added, Standing, Entries
      <4> QED  BY <3>2, <4>1, <4>2 DEF Added
    <3>3. ASSUME NEW n \in Names, Continued(q, n, "named") PROVE Standing(q, slot[q].entries[reserved[q]])'
      <4>1. UNCHANGED <<reserved, declared>> /\ n = reserved[q] /\ Standing(q, slot[q].entries[n])
        BY <1>5, <3>3 DEF Continued
      <4>2. slot[q].entries[n] \in Entries
        BY <4>1 DEF Core, TypeOK, Tables, Standing
      <4>3. [slot[q].entries[n] EXCEPT !.state = "named"] \in Entries
        BY <4>2 DEF Entries
      <4>4. slot'[q].entries[n] = [slot[q].entries[n] EXCEPT !.state = "named"]
        BY <3>3 DEF Continued
      <4> QED  BY <4>1, <4>2, <4>3, <4>4, AbsentAssumption DEF Standing, Entries
    <3> QED  BY <2>1, <3>1, <3>2, <3>3
  <2> QED  BY <1>3, <1>5, <2>3, <2>4, <2>5, <2>6 DEF Standing
<1> QED  BY <1>4, <1>5

\* The steps that are not a call's own work change no entries.
LEMMA StepIsQuiet ==
  ASSUME Core, Core', [Next]_vars, \A t \in Threads : ~Work(t)
  PROVE  QuietStep
<1>1. CASE Application
  BY <1>1, ApplicationBegins, BeginQuiet DEF Core
<1>2. ASSUME NEW t \in Threads, Step(t) PROVE QuietStep
  <2>1. CASE AllocateOwner(t)
    BY <2>1, AllocateQuiet
  <2>2. CASE PublishOwner(t)
    BY <2>2, PublishQuiet
  <2>3. CASE MakeChild(t)
    BY <2>3, MakeQuiet
  <2>4. CASE CopyTables(t)
    BY <2>4, CopyQuiet
  <2>5. CASE LockOther(t)
    BY <2>5, LockOtherQuiet
  <2>6. CASE Lock(t)
    BY <2>6, LockQuiet
  <2>7. CASE Leave(t)
    BY <2>7, LeaveQuiet
  <2> QED  BY <1>2, <2>1, <2>2, <2>3, <2>4, <2>5, <2>6, <2>7 DEF Step
<1>3. CASE UNCHANGED vars
  <2>1. /\ UNCHANGED <<live, subset, parent, reserved, declared, owner, slot, tables, made, call>>
    BY <1>3 DEF vars, parserVars, declVars, tableVars
  <2>2. \A f \in made : View(f)' = View(f)
    BY <2>1, ViewStays DEF Within, Core, TypeOK
  <2> QED  BY <2>1, <2>2 DEF QuietStep, Grows
<1> QED  BY <1>1, <1>2, <1>3 DEF Next

LEMMA QuietReservations ==
  ASSUME Core, Reservations, QuietStep
  PROVE  Reservations'
<1> SUFFICES ASSUME NEW p \in Parsers, reserved'[p] # NoName
             PROVE  owner'[p] \in Families /\ Standing(p, View(owner[p]).entries[reserved[p]])'
  BY DEF Reservations
<1>1. /\ owner[p] \in Families /\ Standing(p, View(owner[p]).entries[reserved[p]])
      /\ UNCHANGED <<reserved, declared>>
  BY DEF Reservations, QuietStep
<1>2. PICK f \in Families : f = owner[p]
  BY <1>1
<1>3. p \in live
  BY <1>1, NoneAssumption DEF Core, Born
<1>4. owner'[p] = f
  BY <1>2, <1>3, NoneAssumption DEF QuietStep, Grows
<1>5. f \in made
  BY <1>2, NoneAssumption DEF Core, OwnersMade
<1>6. View(f)' = View(f)
  BY <1>5 DEF QuietStep
<1> QED  BY <1>1, <1>2, <1>4, <1>6 DEF Standing

\* The inductive invariant of the properties below.
IInv == Core /\ Reservations

LEMMA IInvInit == Init => IInv
BY CoreInit DEF Init, IInv, Reservations

LEMMA IInvStep ==
  ASSUME IInv, [Next]_vars
  PROVE  IInv'
<1>1. Core'
  BY CoreStep DEF IInv
<1>2. Reservations'
  <2>1. CASE \E t \in Threads : Work(t)
    BY <1>1, <2>1, WorkReservations DEF IInv
  <2>2. CASE \A t \in Threads : ~Work(t)
    BY <1>1, <2>2, StepIsQuiet, QuietReservations DEF IInv
  <2> QED  BY <2>1, <2>2
<1> QED  BY <1>1, <1>2 DEF IInv

\* What the theorems below rest on: the inductive invariant holds throughout.
THEOREM Invariance == Spec => []IInv
BY IInvInit, IInvStep, PTL DEF Spec

\* The parsers of a family have its tables in common and in one place at a time,
\* whichever threads set an owner first, and a reservation stands in them until
\* its own declaration takes it out.
THEOREM FamilyCorrect == Spec => []FamilyKept
<1>1. IInv => FamilyKept
  <2> SUFFICES ASSUME IInv PROVE FamilyKept
    OBVIOUS
  <2>1. \A f \in Families, p, q \in Parsers : p \in Inside(f) /\ q \in Inside(f) => p = q
    <3>1. \A f \in Families, p \in Parsers : p \in Inside(f) =>
            \E t \in Threads : Within(t, f) /\ p = call[t].parser
      BY DEF Inside, Within
    <3> QED  BY <3>1, OneWithin DEF IInv
  <2>2. FamilyShared
    BY <2>1 DEF FamilyShared, IInv, Core, OwnersShared
  <2>3. ReservationsKept
    BY DEF ReservationsKept, IInv, Reservations, Standing
  <2> QED  BY <2>2, <2>3 DEF FamilyKept, IInv, Core
<1> QED  BY <1>1, Invariance, PTL

-----------------------------------------------------------------------------
(***************************************************************************)
(* Limits                                                                  *)
(***************************************************************************)

LEMMA CountType ==
  ASSUME NEW e
  PROVE  Count(e) \in Nat /\ IsFiniteSet({n \in Names : e[n] # Absent})
<1>1. IsFiniteSet({n \in Names : e[n] # Absent})
  BY NamesAssumption, FS_Subset
<1> QED  BY <1>1, FS_CardinalityType DEF Count

\* Entries that are there already do not count again.
LEMMA CountKept ==
  ASSUME NEW d, NEW e, \A n \in Names : e[n] # Absent => d[n] # Absent
  PROVE  Count(e) <= Count(d)
<1>1. {n \in Names : e[n] # Absent} \subseteq {n \in Names : d[n] # Absent}
  OBVIOUS
<1> QED  BY <1>1, CountType, FS_Subset DEF Count

LEMMA CountAdded ==
  ASSUME NEW d, NEW e, NEW m \in Names, \A n \in Names : n # m => e[n] = d[n]
  PROVE  Count(e) <= Count(d) + 1
<1> DEFINE D == {n \in Names : d[n] # Absent}
           E == {n \in Names : e[n] # Absent}
<1>1. IsFiniteSet(D) /\ Count(d) = Cardinality(D) /\ Cardinality(D) \in Nat
  BY CountType DEF Count
<1>2. E \subseteq D \cup {m} /\ Count(e) = Cardinality(E)
  BY DEF Count
<1> HIDE DEF D, E
<1>3. IsFiniteSet(D \cup {m}) /\ Cardinality(D \cup {m}) <= Cardinality(D) + 1
  <2>1. /\ IsFiniteSet(D \cup {m})
        /\ Cardinality(D \cup {m}) = IF m \in D THEN Cardinality(D) ELSE Cardinality(D) + 1
    BY <1>1, FS_AddElement, Zenon
  <2> QED  BY <1>1, <2>1
<1>4. Cardinality(E) <= Cardinality(D \cup {m})
  BY <1>2, <1>3, FS_Subset
<1>5. Cardinality(E) \in Nat /\ Cardinality(D \cup {m}) \in Nat
  BY <1>2, <1>3, FS_Subset, FS_CardinalityType
<1> QED  BY <1>1, <1>2, <1>3, <1>4, <1>5

\* A family gets another entry only within its limit and that of the parser that
\* adds it, in every step.
THEOREM LimitsCorrect == Spec => LimitsKept
<1>1. ASSUME IInv, IInv', [Next]_vars PROVE LimitStep
  <2>1. Core /\ Core' /\ Reservations
    BY <1>1 DEF IInv
  <2> SUFFICES ASSUME NEW f \in made, Count(View(f).entries)' > Count(View(f).entries)
               PROVE  \E p \in Inside(f) : /\ Count(View(f).entries)' <= limit[p]
                                           /\ Count(View(f).entries)' <= View(f).cap
    BY DEF LimitStep
  <2>2. f \in Families
    BY <2>1 DEF Core, TypeOK
  <2> DEFINE d == View(f).entries
             e == View(f)'.entries
  <2>3. Count(View(f).entries)' = Count(e)
    BY DEF Count
  <2>4. Count(d) \in Nat /\ Count(e) \in Nat /\ Count(e) > Count(d)
    BY <2>3, CountType
  <2>5. ~(\A n \in Names : e[n] # Absent => d[n] # Absent)
    BY <2>4, CountKept
  <2>6. PICK t \in Threads : Work(t)
    BY <1>1, <2>1, <2>5, StepIsQuiet DEF QuietStep
  <2> DEFINE p == call[t].parser
  <2>7. /\ WorkFrame(t) /\ p \in Parsers
        /\ \A g \in made : g # owner[p] => View(g)' = View(g)
        /\ \A g \in Families : g = owner[p] => View(g) = slot[p] /\ View(g)' = slot'[p]
    BY <2>1, <2>6, WorkViews
  <2>8. f = owner[p] /\ View(f) = slot[p] /\ View(f)' = slot'[p]
    BY <2>2, <2>5, <2>7
  <2>9. PICK n \in Names : Added(p, n)
    <3>1. ~Unchanged(p)
      BY <2>5, <2>8 DEF Unchanged
    <3>2. ASSUME NEW n \in Names, NEW state, Withdrawn(p, n) \/ Continued(p, n, state)
          PROVE  FALSE
      <4>1. slot[p].entries[n] # Absent /\ \A m \in Names : m # n => slot'[p].entries[m] = slot[p].entries[m]
        BY <3>2 DEF Withdrawn, Continued, Standing, OthersKept
      <4> QED  BY <2>5, <2>8, <4>1
    <3> QED  BY <2>1, <2>6, <3>1, <3>2, WorkChanges DEF WorkChange
  <2>10. Count(d) < View(f).cap /\ Count(d) < limit[p]
    BY <2>8, <2>9 DEF Added, Room
  <2>11. Count(e) <= Count(d) + 1
    BY <2>8, <2>9, CountAdded DEF Added, OthersKept
  <2>12. limit[p] \in Nat /\ View(f).cap \in Nat
    BY <2>1, <2>2, <2>7, ViewType DEF Core, TypeOK, Tables
  <2>13. Count(e) <= limit[p] /\ Count(e) <= View(f).cap
    BY <2>4, <2>10, <2>11, <2>12
  <2>14. p \in Inside(f)
    BY <2>7, <2>8 DEF Inside, WorkFrame
  <2> QED  BY <2>3, <2>13, <2>14
<1> QED  BY <1>1, Invariance, PTL DEF Spec, LimitsKept

-----------------------------------------------------------------------------
(***************************************************************************)
(* The declaration table that the families implement                       *)
(***************************************************************************)

\* The table as a function, and its type.
TableOf ==
  /\ Table = [f \in Families |-> Table[f]]
  /\ \A f \in Families : Table[f] = IF f \in made THEN View(f).entries ELSE NoEntries
TableType == \A f \in Families : Table[f] \in [Names -> Entries \cup {Absent}]

LEMMA TableIs == TableOf
BY DEF Table, View, Inside, TableOf

LEMMA TableIsNext == TableOf'
BY TableIs, PTL

LEMMA EntriesType == Core => TableType
<1> SUFFICES ASSUME Core, NEW f \in Families PROVE Table[f] \in [Names -> Entries \cup {Absent}]
  BY DEF TableType
<1>1. NoEntries \in [Names -> Entries \cup {Absent}]
  BY DEF NoEntries
<1>2. View(f).entries \in [Names -> Entries \cup {Absent}]
  BY ViewType DEF Tables
<1> QED  BY <1>1, <1>2, TableIs DEF TableOf

LEMMA EntriesTypeNext == Core' => TableType'
BY EntriesType, PTL

LEMMA SameTable ==
  ASSUME \A f \in Families : Table'[f] = Table[f]
  PROVE  Table' = Table
BY TableIs, TableIsNext DEF TableOf

\* One name of one family changes.
LEMMA EntryChanges ==
  ASSUME Core, Core', NEW f \in made, NEW n \in Names, UNCHANGED made,
         \A g \in made : g # f => View(g)' = View(g),
         \A m \in Names : m # n => View(f)'.entries[m] = View(f).entries[m]
  PROVE  Abstract!Change(f, n, Table'[f][n])
<1>1. f \in Families
  BY DEF Core, TypeOK
<1>2. \A g \in Families : g # f => Table'[g] = Table[g]
  BY TableIs, TableIsNext DEF TableOf
<1>3. /\ Table[f] = View(f).entries /\ Table'[f] = View(f)'.entries
      /\ Table[f] \in [Names -> Entries \cup {Absent}]
      /\ Table'[f] \in [Names -> Entries \cup {Absent}]
  BY <1>1, EntriesType, EntriesTypeNext, TableIs, TableIsNext DEF TableOf, TableType
<1> DEFINE e == Table'[f][n]
<1>4. Table'[f] = [Table[f] EXCEPT ![n] = e]
  BY <1>3
<1>5. Table' = [Table EXCEPT ![f] = [Table[f] EXCEPT ![n] = e]]
  <2>1. \A g \in Families : Table'[g] = IF g = f THEN [Table[f] EXCEPT ![n] = e] ELSE Table[g]
    BY <1>1, <1>2, <1>4
  <2> QED  BY <1>1, <2>1, TableIs, TableIsNext DEF TableOf
<1>6. Table' = [Table EXCEPT ![f][n] = e]
  BY <1>5, Zenon
<1> QED  BY <1>6 DEF Abstract!Change

LEMMA QuietImplements ==
  ASSUME Core, Core', QuietStep
  PROVE  [Abstract!Next]_<<made, Table>>
<1>1. \A f \in made : f \in Families /\ View(f)' = View(f)
  BY DEF QuietStep, Core, TypeOK
<1>2. CASE UNCHANGED made
  <2>1. \A f \in Families : Table'[f] = Table[f]
    BY <1>1, <1>2, TableIs, TableIsNext DEF TableOf
  <2> QED  BY <1>2, <2>1, SameTable
<1>3. ASSUME NEW f \in Families \ made, Founds(f) PROVE Abstract!Found(f)
  <2>1. made' = made \cup {f}
    BY <1>3 DEF Founds
  <2>2. /\ \A g \in Families : g # f => Table'[g] = Table[g]
        /\ Table[f] = NoEntries /\ Table'[f] = View(f)'.entries
    BY <1>1, <1>3, <2>1, TableIs, TableIsNext DEF TableOf
  <2>3. CASE View(f)'.entries = NoEntries
    <3>1. \A g \in Families : Table'[g] = Table[g]
      BY <2>2, <2>3
    <3>2. UNCHANGED Table
      BY <3>1, SameTable
    <3> QED  BY <1>3, <2>1, <3>2 DEF Abstract!Found
  <2>4. ASSUME NEW g \in made, View(f)'.entries = [n \in Names |-> Copied(View(g).entries[n])]
        PROVE  Abstract!Found(f)
    <3>1. Table[g] = View(g).entries
      BY <1>1, TableIs DEF TableOf
    <3>2. View(f)'.entries = [n \in Names |-> Abstract!Copied(Table[g][n])]
      BY <2>4, <3>1 DEF Copied, Abstract!Copied
    <3>3. \A h \in Families :
            Table'[h] = IF h = f THEN [n \in Names |-> Abstract!Copied(Table[g][n])] ELSE Table[h]
      BY <2>2, <3>2
    <3>4. Table' = [Table EXCEPT ![f] = [n \in Names |-> Abstract!Copied(Table[g][n])]]
      BY <3>3, TableIs, TableIsNext DEF TableOf
    <3> QED  BY <1>3, <2>1, <3>4 DEF Abstract!Found
  <2> QED  BY <1>3, <2>3, <2>4 DEF Founds
<1> QED  BY <1>2, <1>3 DEF QuietStep, Abstract!Next

LEMMA WorkImplements ==
  ASSUME Core, Core', Reservations, NEW t \in Threads, Work(t)
  PROVE  [Abstract!Next]_<<made, Table>>
<1>1. PICK p \in Parsers : p = call[t].parser
  BY WorkViews
<1>2. /\ WorkFrame(t) /\ \A f \in made : f # owner[p] => View(f)' = View(f)
      /\ \A f \in Families : f = owner[p] => View(f) = slot[p] /\ View(f)' = slot'[p]
  BY <1>1, WorkViews
<1>3. UNCHANGED made /\ WorkChange(p)
  BY <1>1, <1>2, WorkChanges DEF WorkFrame
<1>4. CASE owner[p] \notin made \/ Unchanged(p)
  <2>1. ASSUME NEW f \in made PROVE View(f)'.entries = View(f).entries
    <3>1. CASE f # owner[p]
      BY <1>2, <3>1
    <3>2. CASE f = owner[p]
      <4>1. f \in Families
        BY DEF Core, TypeOK
      <4>2. /\ View(f).entries \in [Names -> Entries \cup {Absent}]
            /\ View(f)'.entries \in [Names -> Entries \cup {Absent}]
        BY <1>3, <4>1, EntriesType, EntriesTypeNext, TableIs, TableIsNext DEF TableOf, TableType
      <4>3. \A n \in Names : View(f)'.entries[n] = View(f).entries[n]
        BY <1>2, <1>4, <3>2, <4>1 DEF Unchanged
      <4> QED  BY <4>2, <4>3
    <3> QED  BY <3>1, <3>2
  <2>2. \A f \in Families : Table'[f] = Table[f]
    BY <1>3, <2>1, TableIs, TableIsNext DEF TableOf
  <2> QED  BY <1>3, <2>2, SameTable
<1>5. ASSUME NEW f \in made, f = owner[p], NEW n \in Names,
             Added(p, n) \/ Withdrawn(p, n) \/ \E state \in Abstract!States : Continued(p, n, state)
      PROVE  Abstract!Add(f, n) \/ Abstract!Continue(f, n) \/ Abstract!Withdraw(f, n)
  <2>1. f \in Families /\ View(f) = slot[p] /\ View(f)' = slot'[p]
    BY <1>2, <1>5 DEF Core, TypeOK
  <2>2. /\ Table[f][n] = slot[p].entries[n] /\ Table'[f][n] = slot'[p].entries[n]
        /\ Table[f][n] \in Entries \cup {Absent}
    BY <1>3, <2>1, EntriesType, TableIs, TableIsNext DEF TableOf, TableType
  <2>3. OthersKept(p, n)
    BY <1>5 DEF Added, Withdrawn, Continued
  <2>4. Abstract!Change(f, n, Table'[f][n])
    BY <1>2, <1>3, <1>5, <2>1, <2>3, EntryChanges DEF OthersKept
  <2>5. CASE Added(p, n)
    <3>1. Table[f][n] = Absent /\ Abstract!IsEntry(Table'[f][n])
      BY <2>2, <2>5, AbsentAssumption DEF Added, Entries, Abstract!IsEntry, Abstract!States
    <3> QED  BY <2>4, <3>1 DEF Abstract!Add
  <2>6. CASE Withdrawn(p, n)
    <3>1. Abstract!Reserved(Table[f][n]) /\ Table'[f][n] = Absent
      BY <2>2, <2>6 DEF Withdrawn, Standing, Abstract!Reserved
    <3> QED  BY <2>4, <3>1 DEF Abstract!Withdraw
  <2>7. ASSUME NEW state \in Abstract!States, Continued(p, n, state)
        PROVE  Abstract!Continue(f, n)
    <3>1. Abstract!Reserved(Table[f][n]) /\ state \in Abstract!Later(Table[f][n].state)
      BY <2>2, <2>7 DEF Continued, Standing, Abstract!Reserved, Abstract!Later
    <3>2. Table'[f][n] = [Table[f][n] EXCEPT !.state = state]
      BY <2>2, <2>7 DEF Continued
    <3> QED  BY <2>4, <3>1, <3>2 DEF Abstract!Continue
  <2> QED  BY <1>5, <2>5, <2>6, <2>7
<1>6. made \subseteq Families
  BY DEF Core, TypeOK
<1> QED  BY <1>3, <1>4, <1>5, <1>6 DEF WorkChange, Abstract!Next

\* The first declaration counts: whatever the parsers of a family do at the same
\* time, their entries are a declaration table.
THEOREM TablesCorrect == Spec => TablesImplemented
<1>1. Init => Abstract!Init
  <2> SUFFICES ASSUME Init PROVE Abstract!Init
    OBVIOUS
  <2>1. made = {}
    BY DEF Init
  <2>2. Table = [f \in Families |-> NoEntries]
    BY <2>1, TableIs DEF TableOf
  <2> QED  BY <2>1, <2>2 DEF Abstract!Init, Abstract!NoEntries, NoEntries
<1>2. ASSUME IInv, IInv', [Next]_vars PROVE [Abstract!Next]_<<made, Table>>
  <2>1. CASE \E t \in Threads : Work(t)
    BY <1>2, <2>1, WorkImplements DEF IInv
  <2>2. CASE \A t \in Threads : ~Work(t)
    BY <1>2, <2>2, StepIsQuiet, QuietImplements DEF IInv
  <2> QED  BY <2>1, <2>2
<1> QED  BY <1>1, <1>2, Invariance, PTL DEF Spec, TablesImplemented, Abstract!Spec

=============================================================================
