---------------------------- MODULE ExpatFamily ----------------------------
(***************************************************************************)
(* The parser handles of the Expat-compatible C interface and how they     *)
(* find each other (crates/xeme_expat/src/lib.rs): creation, external      *)
(* children, Reset, Free, the merge of an external subset into its         *)
(* parent, and the hash salt that a child sets at its root.                *)
(*                                                                         *)
(* A child does not own its parent.  It holds the parent's lifetime token, *)
(* which leads to the parent until that is freed or reset.  The address of *)
(* a freed handle may be used again.                                       *)
(*                                                                         *)
(* The C contract serialises the calls of a family.  A callback may make   *)
(* any call on any handle, so calls nest: `stack` holds those in progress. *)
(***************************************************************************)
EXTENDS Naturals, Sequences, FiniteSets

CONSTANTS
  Handles, NoHandle,
  MaxDepth,        \* MAX_EXTERNAL_DEPTH
  MaxChildren,     \* MAX_FAMILY_CHILDREN
  MaxCores,        \* bound: documents and children ever created
  MaxNesting       \* bound: calls in progress

ASSUME HandlesAssumption == NoHandle \notin Handles
ASSUME BoundsAssumption == {MaxDepth, MaxChildren, MaxCores, MaxNesting} \subseteq Nat

VARIABLES
  parser,          \* the XML_ParserStruct at each address, or Blank
  points,          \* the handle each lifetime token leads to, or NoHandle
  children,        \* of each FamilyBudget
  stack,           \* the calls in progress, innermost last
  cores            \* number of cores made: tokens, budgets and cores are numbered by it

\* History, in order: [of, into, due], a subset, the core it was merged into, its
\* parent's core.
VARIABLE merges

vars == <<parser, points, children, stack, cores, merges>>

\* A parser.  Its core, that of its parent and that of its root are history.
Blank ==
  [status |-> "none",          \* or "live", "destroying"
   state |-> "initialized",    \* ParsingStatus.parsing, or "parsing", "finished"
   busy |-> FALSE,             \* the guard that pins it
   subset |-> FALSE,           \* its core reads an external subset
   merged |-> FALSE,           \* external_subset_merged
   salted |-> FALSE,           \* its core was given a salt
   depth |-> 0,                \* child_depth
   lifetime |-> 0, parentLifetime |-> 0, family |-> 0,
   core |-> 0, parentCore |-> 0, rootCore |-> 0]

Init ==
  /\ parser = [h \in Handles |-> Blank]
  /\ points = [c \in 1..MaxCores |-> NoHandle] /\ children = [c \in 1..MaxCores |-> 0]
  /\ stack = << >> /\ cores = 0 /\ merges = << >>

Exists(h) == parser[h].status # "none"
Top == stack[Len(stack)]
InCall(op) == stack # << >> /\ Top.op = op

\* Variant: a handle that is being destroyed is not busy.
NotDestroying(h) == parser[h].status = "live"

MayEnter(h) == Exists(h) /\ ~parser[h].busy

\* A call pins its handle until it returns.
Enter(h, op, pinned) ==
  /\ MayEnter(h) /\ Len(stack) < MaxNesting
  /\ parser' = [parser EXCEPT ![h] = [pinned EXCEPT !.busy = TRUE]]
  /\ stack' = Append(stack, [handle |-> h, op |-> op])

Leave(h, released) ==
  /\ parser' = [parser EXCEPT ![h] = [released EXCEPT !.busy = FALSE]]
  /\ stack' = SubSeq(stack, 1, Len(stack) - 1)

-----------------------------------------------------------------------------
(***************************************************************************)
(* Creation                                                                *)
(***************************************************************************)

\* A parser at a free address, with a core and a token of its own.
Place(h, new) ==
  /\ ~Exists(h) /\ cores < MaxCores /\ cores' = cores + 1
  /\ parser' = [parser EXCEPT ![h] = [new EXCEPT !.status = "live", !.lifetime = cores + 1,
                                                 !.core = cores + 1]]
  /\ points' = [points EXCEPT ![cores + 1] = h]
  /\ UNCHANGED <<stack, merges>>

\* create and activate_handle.
Create(h) ==
  /\ Place(h, [Blank EXCEPT !.family = cores + 1, !.rootCore = cores + 1])
  /\ UNCHANGED children

MayCharge(p) == children[parser[p].family] < MaxChildren

\* XML_ExternalEntityParserCreate charges the budget before anything can fail.
ChargeChild(p) ==
  /\ parser[p].status = "live" /\ parser[p].depth < MaxDepth /\ MayCharge(p)
  /\ children' = [children EXCEPT ![parser[p].family] = @ + 1]

CreateChild(p, h) ==
  /\ ChargeChild(p)
  /\ \E isSubset \in BOOLEAN :
       Place(h, [Blank EXCEPT !.subset = isSubset, !.depth = parser[p].depth + 1,
                              !.parentLifetime = parser[p].lifetime, !.family = parser[p].family,
                              !.parentCore = parser[p].core, !.rootCore = parser[p].rootCore])

CreateChildFails(p) == ChargeChild(p) /\ UNCHANGED <<parser, points, stack, cores, merges>>

-----------------------------------------------------------------------------
(***************************************************************************)
(* Parsing                                                                 *)
(***************************************************************************)

\* XML_Parse and XML_ResumeParser.  While the call runs, callbacks do.
Parse(h) ==
  /\ parser[h].state # "finished"
  /\ Enter(h, "parse", [parser[h] EXCEPT !.state = "parsing"])
  /\ UNCHANGED <<points, children, cores, merges>>

\* The call returns with input missing, suspended, or failed.
ParseReturns ==
  /\ InCall("parse")
  /\ \E state \in {"parsing", "finished"} :
       Leave(Top.handle, [parser[Top.handle] EXCEPT !.state = state])
  /\ UNCHANGED <<points, children, cores, merges>>

\* The parent, if its token still leads to it.
Parent(h) == IF parser[h].parentLifetime = 0 THEN NoHandle ELSE points[parser[h].parentLifetime]

\* merge_external_subset: once, into the parent if there is one.
Unmerged(h) == parser[h].subset /\ ~parser[h].merged
Merges(h) ==
  LET p == Parent(h) IN
  IF Unmerged(h) /\ p # NoHandle /\ parser[p].status # "destroying"
  THEN << [of |-> parser[h].core, into |-> parser[p].core, due |-> parser[h].parentCore] >>
  ELSE << >>

\* The document is finished.
ParseFinishes ==
  LET h == Top.handle IN
  /\ InCall("parse")
  /\ Leave(h, [parser[h] EXCEPT !.state = "finished", !.merged = @ \/ Unmerged(h)])
  /\ merges' = merges \o Merges(h)
  /\ UNCHANGED <<points, children, cores>>

-----------------------------------------------------------------------------
(***************************************************************************)
(* Reset and Free.  The release callback of an encoding runs within.       *)
(***************************************************************************)

\* XML_ParserReset, for roots only.
Reset(h) ==
  /\ parser[h].depth = 0 /\ Enter(h, "reset", parser[h])
  /\ UNCHANGED <<points, children, cores, merges>>

\* Variant: the old token goes on leading to the handle.
TokenKept(h) == points

\* Variant: only Free, which starts unpinned, invalidates it.
KeptByReset(h) == IF parser[h].busy THEN points ELSE [points EXCEPT ![parser[h].lifetime] = NoHandle]

\* The old token leads nowhere.
Invalidated(h) == [points EXCEPT ![parser[h].lifetime] = NoHandle]

\* A FamilyBudget goes with the last handle that shares it.
FamilyWithout(h) ==
  LET shared == \E g \in Handles \ {h} : parser[g].family = parser[h].family
  IN [children EXCEPT ![parser[h].family] = IF shared THEN @ ELSE 0]

\* The new document, with the old salt, replaces the old one.
ResetReturns ==
  LET h == Top.handle IN
  /\ InCall("reset") /\ cores < MaxCores /\ cores' = cores + 1
  /\ Leave(h, [parser[h] EXCEPT !.state = "initialized", !.lifetime = cores + 1, !.core = cores + 1,
                                !.family = cores + 1, !.rootCore = cores + 1])
  /\ points' = [Invalidated(h) EXCEPT ![cores + 1] = h]
  /\ children' = FamilyWithout(h)
  /\ UNCHANGED merges

ResetFails ==
  /\ InCall("reset") /\ Leave(Top.handle, parser[Top.handle])
  /\ UNCHANGED <<points, children, cores, merges>>

\* XML_ParserFree ignores a busy handle; destroy.
Free(h) ==
  /\ Enter(h, "destroy", [parser[h] EXCEPT !.status = "destroying"])
  /\ points' = Invalidated(h)
  /\ UNCHANGED <<children, cores, merges>>

\* The memory is given back.
FreeReturns ==
  /\ InCall("destroy") /\ Leave(Top.handle, Blank)
  /\ children' = FamilyWithout(Top.handle)
  /\ UNCHANGED <<points, cores, merges>>

-----------------------------------------------------------------------------
(***************************************************************************)
(* The hash salt                                                           *)
(***************************************************************************)

\* The root a handle reaches by following the tokens, or NoHandle.
RootOf(h) ==
  LET up[n \in Nat] ==
        IF n = 0 THEN h
        ELSE IF up[n - 1] = NoHandle \/ parser[up[n - 1]].parentLifetime = 0 THEN up[n - 1]
        ELSE Parent(up[n - 1])
  IN up[parser[h].depth]

\* set_hash_salt
SetHashSalt(h) ==
  LET root == RootOf(h) IN
  /\ Exists(h) /\ root # NoHandle
  /\ parser[root].status = "live" /\ ~parser[root].busy
  /\ parser[root].state \in {"initialized", "finished"}
  /\ parser' = [parser EXCEPT ![root].salted = TRUE]
  /\ UNCHANGED <<points, children, stack, cores, merges>>

-----------------------------------------------------------------------------
Next ==
  \/ \E h \in Handles :
       \/ Create(h) \/ Parse(h) \/ Reset(h) \/ Free(h) \/ SetHashSalt(h) \/ CreateChildFails(h)
       \/ \E p \in Handles : CreateChild(p, h)
  \/ ParseReturns \/ ParseFinishes \/ ResetReturns \/ ResetFails \/ FreeReturns

Spec == Init /\ [][Next]_vars

-----------------------------------------------------------------------------
(***************************************************************************)
(* Properties                                                              *)
(***************************************************************************)

Numbers == 0..MaxCores
Parsers ==
  [status : {"none", "live", "destroying"}, state : {"initialized", "parsing", "finished"},
   busy : BOOLEAN, subset : BOOLEAN, merged : BOOLEAN, salted : BOOLEAN, depth : 0..MaxDepth,
   lifetime : Numbers, parentLifetime : Numbers, family : Numbers,
   core : Numbers, parentCore : Numbers, rootCore : Numbers]

\* Every variable has its type; counts stay within their limits.
TypeOK ==
  /\ parser \in [Handles -> Parsers]
  /\ points \in [1..MaxCores -> Handles \cup {NoHandle}]
  /\ children \in [1..MaxCores -> 0..MaxChildren]
  /\ stack \in Seq([handle : Handles, op : {"parse", "reset", "destroy"}]) /\ cores \in Numbers
  /\ merges \in Seq([of : Numbers, into : Numbers, due : Numbers])

\* Nobody follows a token to freed or reused memory: a token leads to a handle
\* that exists and still has that token, for as long as it exists, whoever was
\* freed, reset or created again at the same address in between.
TokensCurrent ==
  /\ \A c \in 1..MaxCores : points[c] # NoHandle =>
       parser[points[c]].status = "live" /\ parser[points[c]].lifetime = c
  /\ \A h \in Handles : parser[h].status = "live" => points[parser[h].lifetime] = h

\* A handle is pinned by exactly the call that works on it: none is freed under
\* a call, not even from its own callbacks, and no call leaves its guard behind.
PinnedWhileBusy ==
  /\ \A i \in 1..Len(stack) : Exists(stack[i].handle) /\ parser[stack[i].handle].busy
  /\ \A i, j \in 1..Len(stack) : stack[i].handle = stack[j].handle => i = j
  /\ \A h \in Handles : parser[h].busy => \E i \in 1..Len(stack) : stack[i].handle = h

\* A child's external subset is merged into the core that made it and into no
\* other, and at most once.
MergedAtHome ==
  /\ \A i \in DOMAIN merges : merges[i].into = merges[i].due
  /\ \A i, j \in DOMAIN merges : merges[i].of = merges[j].of => i = j

\* A child reaches only the document it was made for: its subset is merged there,
\* and the root that its salt would go to still has the document it belongs to.
OwnDocument ==
  /\ MergedAtHome
  /\ \A h \in Handles : Exists(h) /\ RootOf(h) # NoHandle =>
       parser[RootOf(h)].core = parser[h].rootCore
=============================================================================
