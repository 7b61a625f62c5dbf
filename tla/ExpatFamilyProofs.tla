------------------------- MODULE ExpatFamilyProofs -------------------------
(***************************************************************************)
(* Proofs about ExpatFamily, for any number of handles, any depth and any  *)
(* nesting of calls.                                                       *)
(*                                                                         *)
(* A token is safe because it has one owner: no two handles have the same  *)
(* token, and a handle gives up its own only under a call, when it points  *)
(* the token nowhere.  The invariant adds to the properties how tokens and *)
(* cores are numbered, which calls a handle that is being destroyed is     *)
(* under, and which handles' subsets were merged.                          *)
(***************************************************************************)
EXTENDS ExpatFamily, SequenceTheorems, WellFoundedInduction, TLAPS

\* Tokens, budgets and cores in use were made; a token is numbered like its core.
Numbered ==
  /\ \A h \in Handles : Exists(h) =>
       /\ parser[h].lifetime \in 1..cores /\ parser[h].family \in 1..cores
       /\ parser[h].core = parser[h].lifetime /\ parser[h].parentCore = parser[h].parentLifetime
  /\ \A g, h \in Handles : Exists(g) /\ Exists(h) /\ parser[g].core = parser[h].core => g = h

\* A handle is being destroyed exactly under the call that destroys it.
Destroyed ==
  /\ \A h \in Handles : parser[h].status = "destroying" => parser[h].busy
  /\ \A i \in 1..Len(stack) :
       stack[i].op = "destroy" <=> parser[stack[i].handle].status = "destroying"

\* A subset that was merged is marked, for as long as its handle exists.
Marked ==
  \A i \in DOMAIN merges :
    /\ merges[i].of \in 1..cores
    /\ \A h \in Handles : Exists(h) /\ parser[h].core = merges[i].of => parser[h].merged

Inv == TypeOK /\ TokensCurrent /\ PinnedWhileBusy /\ Numbered /\ Destroyed /\ MergedAtHome /\ Marked

\* What a call leaves alone in the handle it pins.
SameHandle(q, r) ==
  /\ q.status = r.status /\ q.lifetime = r.lifetime /\ q.family = r.family /\ q.core = r.core
  /\ q.parentLifetime = r.parentLifetime /\ q.parentCore = r.parentCore
  /\ r.merged => q.merged

-----------------------------------------------------------------------------
(***************************************************************************)
(* Records                                                                 *)
(***************************************************************************)

\* The initial record, and every record that a call writes, is a parser.
LEMMA BlankIsParser == Blank \in Parsers
<1>1. 0 \in Numbers /\ 0 \in 0..MaxDepth
  BY BoundsAssumption DEF Numbers
<1> QED  BY <1>1 DEF Blank, Parsers

LEMMA FieldUpdates ==
  ASSUME NEW p \in Parsers
  PROVE  /\ \A b \in BOOLEAN : [p EXCEPT !.busy = b] \in Parsers
         /\ \A b \in BOOLEAN : [p EXCEPT !.merged = b] \in Parsers
         /\ \A b \in BOOLEAN : [p EXCEPT !.salted = b] \in Parsers
         /\ \A s \in {"initialized", "parsing", "finished"} : [p EXCEPT !.state = s] \in Parsers
         /\ \A s \in {"none", "live", "destroying"} : [p EXCEPT !.status = s] \in Parsers
BY DEF Parsers

-----------------------------------------------------------------------------
(***************************************************************************)
(* Calls                                                                   *)
(***************************************************************************)

Frames == [handle : Handles, op : {"parse", "reset", "destroy"}]

\* A handle whose record keeps its identity, and nothing else, is changed: numbers
\* and tokens are as they were.
LEMMA SameHandleKeeps ==
  ASSUME Inv, NEW h \in Handles, Exists(h), NEW q \in Parsers, SameHandle(q, parser[h]),
         parser' = [parser EXCEPT ![h] = q], UNCHANGED <<points, cores>>
  PROVE  /\ TokensCurrent' /\ Numbered'
         /\ \A g \in Handles : parser'[g].status = parser[g].status /\ parser'[g].core = parser[g].core
         /\ \A g \in Handles : parser[g].merged => parser'[g].merged
         /\ parser' \in [Handles -> Parsers]
<1>1. parser \in [Handles -> Parsers]
  BY DEF Inv, TypeOK
<1>2. \A g \in Handles : SameHandle(parser'[g], parser[g])
  BY <1>1 DEF SameHandle
<1>3. parser' \in [Handles -> Parsers]
  BY <1>1
<1>4. TokensCurrent'
  <2>1. points \in [1..MaxCores -> Handles \cup {NoHandle}]
    BY DEF Inv, TypeOK
  <2>2. TokensCurrent
    BY DEF Inv
  <2> QED  BY <1>2, <2>1, <2>2 DEF TokensCurrent, SameHandle
<1>5. Numbered'
  BY <1>2 DEF Inv, Numbered, SameHandle, Exists
<1> QED  BY <1>2, <1>3, <1>4, <1>5 DEF SameHandle

\* The calls in progress are calls of handles.
LEMMA StackFrames ==
  ASSUME Inv
  PROVE  /\ stack \in Seq(Frames) /\ Len(stack) \in Nat
         /\ \A i \in 1..Len(stack) : stack[i] \in Frames /\ stack[i].handle \in Handles
<1>1. stack \in Seq(Frames)
  BY DEF Inv, TypeOK, Frames
<1>2. Len(stack) \in Nat /\ \A i \in 1..Len(stack) : stack[i] \in Frames
  BY <1>1
<1>3. \A f \in Frames : f.handle \in Handles
  BY DEF Frames
<1> QED  BY <1>1, <1>2, <1>3

\* A sequence without its last element.
LEMMA FrontFacts ==
  ASSUME NEW S, NEW s \in Seq(S), s # << >>
  PROVE  /\ SubSeq(s, 1, Len(s) - 1) \in Seq(S)
         /\ Len(SubSeq(s, 1, Len(s) - 1)) = Len(s) - 1
         /\ \A i \in 1..(Len(s) - 1) : SubSeq(s, 1, Len(s) - 1)[i] = s[i] /\ i \in 1..Len(s)
<1>1. Len(s) \in Nat \ {0}
  OBVIOUS
<1>2. PICK n \in Nat : n = Len(s) - 1 /\ Len(s) = n + 1
  BY <1>1
<1>3. \A i \in 1..n : s[i] \in S /\ i \in 1..Len(s)
  BY <1>2
<1>4. /\ SubSeq(s, 1, n) \in Seq(S)
      /\ Len(SubSeq(s, 1, n)) = IF 1 <= n THEN n - 1 + 1 ELSE 0
      /\ \A i \in 1..(n - 1 + 1) : SubSeq(s, 1, n)[i] = s[1 + i - 1]
  BY <1>3, SubSeqProperties
<1>5. Len(SubSeq(s, 1, n)) = n
  BY <1>4
<1>6. \A i \in 1..n : i \in 1..(n - 1 + 1) /\ 1 + i - 1 = i
  OBVIOUS
<1>7. \A i \in 1..n : SubSeq(s, 1, n)[i] = s[i]
  BY <1>4, <1>6
<1> QED  BY <1>2, <1>3, <1>4, <1>5, <1>7

\* A call pins a handle that was not pinned.
LEMMA PinStack ==
  ASSUME Inv, NEW h \in Handles, MayEnter(h), NEW q \in Parsers, q.busy, q.status # "none",
         NEW op \in {"parse", "reset", "destroy"}, op = "destroy" <=> q.status = "destroying",
         parser' = [parser EXCEPT ![h] = q],
         stack' = Append(stack, [handle |-> h, op |-> op])
  PROVE  stack' \in Seq(Frames) /\ PinnedWhileBusy' /\ Destroyed'
<1>1. parser[h].status # "none" /\ ~parser[h].busy
  BY DEF MayEnter, Exists
<1>2. parser \in [Handles -> Parsers] /\ stack \in Seq(Frames)
  BY DEF Inv, TypeOK, Frames
<1>3. \A g \in Handles : parser'[g] = IF g = h THEN q ELSE parser[g]
  BY <1>2
<1>4. stack' \in Seq(Frames) /\ Len(stack') = Len(stack) + 1
      /\ stack'[Len(stack) + 1] = [handle |-> h, op |-> op]
      /\ \A i \in 1..Len(stack) : stack'[i] = stack[i]
  BY <1>2 DEF Frames
<1>5. Len(stack) \in Nat /\ \A i \in 1..Len(stack) : stack[i].handle \in Handles
  BY StackFrames
<1>6. PinnedWhileBusy
  BY DEF Inv
<1>7. \A i \in 1..Len(stack) : stack[i].handle # h
  BY <1>1, <1>6 DEF PinnedWhileBusy
<1>8. ASSUME NEW i \in 1..Len(stack')
      PROVE  i \in 1..Len(stack) \/ (i = Len(stack) + 1 /\ stack'[i] = [handle |-> h, op |-> op])
  BY <1>4, <1>5
<1>9. PinnedWhileBusy'
  <2>1. ASSUME NEW i \in 1..Len(stack')
        PROVE  parser'[stack'[i].handle].status # "none" /\ parser'[stack'[i].handle].busy
    <3>1. CASE i \in 1..Len(stack)
      BY <1>3, <1>4, <1>5, <1>6, <1>7, <3>1 DEF PinnedWhileBusy, Exists
    <3>2. CASE i = Len(stack) + 1 /\ stack'[i] = [handle |-> h, op |-> op]
      BY <1>3, <3>2
    <3> QED  BY <1>8, <3>1, <3>2
  <2>2. \A i, j \in 1..Len(stack') : stack'[i].handle = stack'[j].handle => i = j
    BY <1>4, <1>5, <1>6, <1>7 DEF PinnedWhileBusy
  <2>3. ASSUME NEW g \in Handles, parser'[g].busy
        PROVE  \E i \in 1..Len(stack') : stack'[i].handle = g
    <3>1. CASE g = h
      <4>1. stack'[Len(stack')].handle = g /\ Len(stack') \in 1..Len(stack')
        BY <1>4, <1>5, <3>1
      <4> QED  BY <4>1
    <3>2. CASE g # h
      <4>1. PICK i \in 1..Len(stack) : stack[i].handle = g
        BY <1>3, <1>6, <2>3, <3>2 DEF PinnedWhileBusy
      <4>2. i \in 1..Len(stack') /\ stack'[i].handle = g
        BY <1>4, <1>5, <4>1
      <4> QED  BY <4>2
    <3> QED  BY <3>1, <3>2
  <2> QED  BY <2>1, <2>2, <2>3 DEF PinnedWhileBusy, Exists
<1>10. Destroyed'
  <2>1. Destroyed
    BY DEF Inv
  <2>2. \A g \in Handles : parser'[g].status = "destroying" => parser'[g].busy
    BY <1>3, <2>1 DEF Destroyed
  <2>3. ASSUME NEW i \in 1..Len(stack')
        PROVE  stack'[i].op = "destroy" <=> parser'[stack'[i].handle].status = "destroying"
    <3>1. CASE i \in 1..Len(stack)
      BY <1>3, <1>4, <1>5, <1>7, <2>1, <3>1 DEF Destroyed
    <3>2. CASE i = Len(stack) + 1 /\ stack'[i] = [handle |-> h, op |-> op]
      BY <1>3, <3>2
    <3> QED  BY <1>8, <3>1, <3>2
  <2> QED  BY <2>2, <2>3 DEF Destroyed
<1> QED  BY <1>4, <1>9, <1>10

\* The call that is innermost.
LEMMA TopFacts ==
  ASSUME Inv, stack # << >>
  PROVE  /\ stack \in Seq(Frames) /\ Len(stack) \in Nat \ {0} /\ Top = stack[Len(stack)]
         /\ Top.handle \in Handles /\ Exists(Top.handle) /\ parser[Top.handle].busy
         /\ Top.op = "destroy" <=> parser[Top.handle].status = "destroying"
         /\ \A i \in 1..(Len(stack) - 1) : stack[i].handle # Top.handle
<1>1. stack \in Seq(Frames) /\ Len(stack) \in Nat \ {0}
  BY DEF Inv, TypeOK, Frames
<1>2. Len(stack) \in 1..Len(stack) /\ Top \in Frames
  BY <1>1 DEF Top
<1>3. Top.handle \in Handles
  BY <1>2 DEF Frames
<1>4. Exists(Top.handle) /\ parser[Top.handle].busy
  BY <1>2 DEF Inv, PinnedWhileBusy, Top
<1>5. Top.op = "destroy" <=> parser[Top.handle].status = "destroying"
  BY <1>2 DEF Inv, Destroyed, Top
<1>6. \A i \in 1..(Len(stack) - 1) : stack[i].handle # Top.handle
  BY <1>1, <1>2 DEF Inv, PinnedWhileBusy, Top
<1> QED  BY <1>1, <1>3, <1>4, <1>5, <1>6 DEF Top

\* A call unpins its handle, which is not being destroyed afterwards.
LEMMA UnpinStack ==
  ASSUME Inv, stack # << >>, NEW q \in Parsers, q.status # "destroying", ~q.busy,
         parser' = [parser EXCEPT ![Top.handle] = q], stack' = SubSeq(stack, 1, Len(stack) - 1)
  PROVE  stack' \in Seq(Frames) /\ PinnedWhileBusy' /\ Destroyed'
<1> DEFINE h == Top.handle
<1>1. /\ stack \in Seq(Frames) /\ Len(stack) \in Nat \ {0} /\ h \in Handles
      /\ \A i \in 1..(Len(stack) - 1) : stack[i].handle # h
      /\ h = stack[Len(stack)].handle
  BY TopFacts
<1>2. parser \in [Handles -> Parsers] /\ parser' = [parser EXCEPT ![h] = q]
  BY DEF Inv, TypeOK
<1> HIDE DEF h
<1>3. \A g \in Handles : parser'[g] = IF g = h THEN q ELSE parser[g]
  BY <1>1, <1>2
<1>4. stack' \in Seq(Frames) /\ Len(stack') = Len(stack) - 1
      /\ \A i \in 1..Len(stack') : stack'[i] = stack[i] /\ i \in 1..Len(stack)
  BY <1>1, FrontFacts
<1>5. \A i \in 1..Len(stack') : stack'[i].handle \in Handles \ {h}
  BY <1>1, <1>4 DEF Frames
<1>6. PinnedWhileBusy /\ Destroyed
  BY DEF Inv
<1>7. PinnedWhileBusy'
  <2>1. ASSUME NEW i \in 1..Len(stack')
        PROVE  parser'[stack'[i].handle].status # "none" /\ parser'[stack'[i].handle].busy
    <3>1. i \in 1..Len(stack) /\ stack'[i] = stack[i]
      BY <1>4
    <3>2. parser[stack[i].handle].status # "none" /\ parser[stack[i].handle].busy
      BY <1>6, <3>1 DEF PinnedWhileBusy, Exists
    <3> QED  BY <1>3, <1>5, <3>1, <3>2
  <2>2. \A i, j \in 1..Len(stack') : stack'[i].handle = stack'[j].handle => i = j
    BY <1>4, <1>6 DEF PinnedWhileBusy
  <2>3. ASSUME NEW g \in Handles, parser'[g].busy
        PROVE  \E i \in 1..Len(stack') : stack'[i].handle = g
    <3>1. g # h /\ parser[g].busy
      BY <1>3, <2>3
    <3>2. PICK i \in 1..Len(stack) : stack[i].handle = g
      BY <1>6, <3>1 DEF PinnedWhileBusy
    <3>3. i # Len(stack)
      BY <1>1, <3>1, <3>2
    <3>4. i \in 1..Len(stack')
      BY <1>1, <1>4, <3>2, <3>3
    <3> QED  BY <1>4, <3>2, <3>4
  <2> QED  BY <2>1, <2>2, <2>3 DEF PinnedWhileBusy, Exists
<1>8. Destroyed'
  <2>1. \A g \in Handles : parser'[g].status = "destroying" => parser'[g].busy
    BY <1>3, <1>6 DEF Destroyed
  <2>2. \A i \in 1..Len(stack') :
          stack'[i].op = "destroy" <=> parser'[stack'[i].handle].status = "destroying"
    BY <1>3, <1>4, <1>5, <1>6 DEF Destroyed
  <2> QED  BY <2>1, <2>2 DEF Destroyed
<1> QED  BY <1>4, <1>7, <1>8

-----------------------------------------------------------------------------
(***************************************************************************)
(* A call that leaves its handle what it was                               *)
(***************************************************************************)

\* What was merged stays marked.
LEMMA SameHandleMarks ==
  ASSUME Inv, NEW h \in Handles, NEW q \in Parsers, SameHandle(q, parser[h]),
         parser' = [parser EXCEPT ![h] = q], UNCHANGED <<cores, merges>>
  PROVE  MergedAtHome' /\ Marked'
<1>1. \A g \in Handles : SameHandle(parser'[g], parser[g])
  BY DEF SameHandle, Inv, TypeOK
<1> QED  BY <1>1 DEF Inv, MergedAtHome, Marked, Exists, SameHandle

\* A call that pins a handle.
LEMMA PinKeeps ==
  ASSUME Inv, NEW h \in Handles, MayEnter(h), NEW q \in Parsers, SameHandle(q, parser[h]), q.busy,
         parser' = [parser EXCEPT ![h] = q], NEW op \in {"parse", "reset"},
         stack' = Append(stack, [handle |-> h, op |-> op]),
         UNCHANGED <<points, children, cores, merges>>
  PROVE  Inv'
<1>1. Exists(h) /\ ~parser[h].busy
  BY DEF MayEnter
<1>2. q.status # "none" /\ q.status # "destroying"
  BY <1>1 DEF Inv, Destroyed, SameHandle, Exists
<1>3. TokensCurrent' /\ Numbered' /\ parser' \in [Handles -> Parsers]
  BY <1>1, SameHandleKeeps
<1>4. stack' \in Seq(Frames) /\ PinnedWhileBusy' /\ Destroyed'
  BY <1>2, PinStack
<1>5. TypeOK'
  BY <1>3, <1>4 DEF Inv, TypeOK, Frames
<1>6. MergedAtHome' /\ Marked'
  BY SameHandleMarks
<1> QED  BY <1>3, <1>4, <1>5, <1>6 DEF Inv

\* A call that unpins its handle: all that does not depend on what was merged.
LEMMA UnpinKeeps ==
  ASSUME Inv, stack # << >>, NEW q \in Parsers, SameHandle(q, parser[Top.handle]), ~q.busy,
         Top.op # "destroy", parser' = [parser EXCEPT ![Top.handle] = q],
         stack' = SubSeq(stack, 1, Len(stack) - 1), UNCHANGED <<points, children, cores>>,
         merges' \in Seq([of : Numbers, into : Numbers, due : Numbers])
  PROVE  TypeOK' /\ TokensCurrent' /\ PinnedWhileBusy' /\ Numbered' /\ Destroyed'
<1> DEFINE h == Top.handle
<1>1. h \in Handles /\ Exists(h) /\ parser[h].status # "destroying"
  BY TopFacts
<1>2. q.status # "destroying"
  BY <1>1 DEF SameHandle
<1>3. TokensCurrent' /\ Numbered' /\ parser' \in [Handles -> Parsers]
  <2>1. SameHandle(q, parser[h]) /\ parser' = [parser EXCEPT ![h] = q]
    OBVIOUS
  <2> HIDE DEF h
  <2> QED  BY <1>1, <2>1, SameHandleKeeps
<1>4. stack' \in Seq(Frames) /\ PinnedWhileBusy' /\ Destroyed'
  BY <1>2, UnpinStack
<1>5. TypeOK'
  BY <1>3, <1>4 DEF Inv, TypeOK, Frames
<1> QED  BY <1>3, <1>4, <1>5

\* The same, when nothing is merged.
LEMMA UnpinKeepsInv ==
  ASSUME Inv, stack # << >>, NEW q \in Parsers, SameHandle(q, parser[Top.handle]), ~q.busy,
         Top.op # "destroy", parser' = [parser EXCEPT ![Top.handle] = q],
         stack' = SubSeq(stack, 1, Len(stack) - 1), UNCHANGED <<points, children, cores, merges>>
  PROVE  Inv'
<1>1. merges' \in Seq([of : Numbers, into : Numbers, due : Numbers])
  BY DEF Inv, TypeOK
<1>2. TypeOK' /\ TokensCurrent' /\ PinnedWhileBusy' /\ Numbered' /\ Destroyed'
  BY <1>1, UnpinKeeps
<1>3. Top.handle \in Handles
  BY TopFacts
<1>4. MergedAtHome' /\ Marked'
  BY <1>3, SameHandleMarks
<1> QED  BY <1>2, <1>4 DEF Inv

-----------------------------------------------------------------------------
(***************************************************************************)
(* Creation, Reset and Free                                                *)
(***************************************************************************)

\* A handle whose record becomes `q`, with a token and core that are new.  Every
\* other handle keeps its own; the token that h had, if any, leads nowhere.
LEMMA NewTokenKeeps ==
  ASSUME Inv, NEW h \in Handles, cores < MaxCores, cores' = cores + 1, NEW q \in Parsers,
         q.status = "live", q.lifetime = cores + 1, q.core = cores + 1, q.family \in 1..(cores + 1),
         q.parentCore = q.parentLifetime,
         parser' = [parser EXCEPT ![h] = q],
         NEW kept \in [1..MaxCores -> Handles \cup {NoHandle}],
         \A c \in 1..MaxCores : kept[c] = points[c] \/ kept[c] = NoHandle,
         \A c \in 1..MaxCores : kept[c] # h,
         \A c \in 1..MaxCores : points[c] # h => kept[c] = points[c],
         points' = [kept EXCEPT ![cores + 1] = h], UNCHANGED merges
  PROVE  /\ TokensCurrent' /\ Numbered' /\ MergedAtHome' /\ Marked'
         /\ parser' \in [Handles -> Parsers]
         /\ points' \in [1..MaxCores -> Handles \cup {NoHandle}] /\ cores' \in Numbers
<1>1. /\ parser \in [Handles -> Parsers] /\ cores \in Nat /\ cores + 1 \in 1..MaxCores
      /\ MaxCores \in Nat /\ cores' \in Numbers
  BY BoundsAssumption DEF Inv, TypeOK, Numbers
<1>2. parser' \in [Handles -> Parsers]
  BY <1>1
<1>3. points' \in [1..MaxCores -> Handles \cup {NoHandle}]
  BY <1>1
<1>4. \A g \in Handles : parser'[g] = IF g = h THEN q ELSE parser[g]
  BY <1>1
<1>5. \A c \in 1..MaxCores : points'[c] = IF c = cores + 1 THEN h ELSE kept[c]
  BY <1>1
<1>6. \A g \in Handles : parser[g].status # "none" =>
        /\ parser[g].lifetime \in 1..cores /\ parser[g].family \in 1..cores
        /\ parser[g].core = parser[g].lifetime /\ parser[g].parentCore = parser[g].parentLifetime
  BY DEF Inv, Numbered, Exists
<1>7. TokensCurrent'
  <2>1. TokensCurrent
    BY DEF Inv
  <2>2. ASSUME NEW c \in 1..MaxCores, points'[c] # NoHandle
        PROVE  parser'[points'[c]].status = "live" /\ parser'[points'[c]].lifetime = c
    <3>1. CASE c = cores + 1
      BY <1>4, <1>5, <3>1
    <3>2. CASE c # cores + 1
      <4>1. points'[c] = kept[c] /\ kept[c] = points[c] /\ kept[c] # h /\ kept[c] \in Handles
        BY <1>5, <2>2, <3>2
      <4>2. parser[points[c]].status = "live" /\ parser[points[c]].lifetime = c
        BY <2>1, <2>2, <4>1 DEF TokensCurrent
      <4> QED  BY <1>4, <4>1, <4>2
    <3> QED  BY <3>1, <3>2
  <2>3. ASSUME NEW g \in Handles, parser'[g].status = "live"
        PROVE  points'[parser'[g].lifetime] = g
    <3>1. CASE g = h
      BY <1>1, <1>4, <1>5, <3>1
    <3>2. CASE g # h
      <4>1. parser'[g] = parser[g]
        BY <1>4, <3>2
      <4>2. points[parser[g].lifetime] = g
        BY <2>1, <2>3, <4>1 DEF TokensCurrent
      <4>3. parser[g].lifetime \in 1..cores
        BY <1>6, <2>3, <4>1
      <4>4. parser[g].lifetime \in 1..MaxCores /\ parser[g].lifetime # cores + 1
        BY <1>1, <4>3
      <4>5. kept[parser[g].lifetime] = g
        BY <3>2, <4>2, <4>4
      <4> QED  BY <1>5, <4>1, <4>4, <4>5
    <3> QED  BY <3>1, <3>2
  <2> QED  BY <2>2, <2>3 DEF TokensCurrent
<1>8. Numbered'
  <2>1. ASSUME NEW g \in Handles, parser'[g].status # "none"
        PROVE  /\ parser'[g].lifetime \in 1..cores' /\ parser'[g].family \in 1..cores'
               /\ parser'[g].core = parser'[g].lifetime
               /\ parser'[g].parentCore = parser'[g].parentLifetime
    <3>1. CASE g = h
      BY <1>1, <1>4, <3>1
    <3>2. CASE g # h
      <4>1. parser'[g] = parser[g]
        BY <1>4, <3>2
      <4> QED  BY <1>1, <1>6, <2>1, <4>1
    <3> QED  BY <3>1, <3>2
  <2>2. \A g \in Handles : g # h /\ parser[g].status # "none" => parser[g].core # cores + 1
    BY <1>1, <1>6
  <2>3. \A f, g \in Handles :
          parser[f].status # "none" /\ parser[g].status # "none" /\ parser[f].core = parser[g].core => f = g
    BY DEF Inv, Numbered, Exists
  <2>4. \A f, g \in Handles :
          parser'[f].status # "none" /\ parser'[g].status # "none" /\ parser'[f].core = parser'[g].core => f = g
    BY <1>4, <2>2, <2>3
  <2> QED  BY <2>1, <2>4 DEF Numbered, Exists
<1>9. MergedAtHome' /\ Marked'
  <2>1. MergedAtHome'
    BY DEF Inv, MergedAtHome
  <2>2. ASSUME NEW i \in DOMAIN merges'
        PROVE  merges'[i].of \in 1..cores' /\ \A g \in Handles :
                 parser'[g].status # "none" /\ parser'[g].core = merges'[i].of => parser'[g].merged
    <3>. DEFINE m == merges[i]
    <3>0. merges' = merges
      OBVIOUS
    <3>1. m.of \in 1..cores /\ \A g \in Handles :
            parser[g].status # "none" /\ parser[g].core = m.of => parser[g].merged
      BY <2>2, <3>0 DEF Inv, Marked, Exists
    <3>. HIDE DEF m
    <3>2. m.of \in 1..cores' /\ m.of # cores + 1
      BY <1>1, <3>1
    <3> QED  BY <1>4, <3>0, <3>1, <3>2 DEF m
  <2> QED  BY <2>1, <2>2 DEF Marked, Exists
<1> QED  BY <1>1, <1>2, <1>3, <1>7, <1>8, <1>9

\* A new handle at a free address.
LEMMA PlaceKeeps ==
  ASSUME Inv, NEW h \in Handles, NEW new \in Parsers, Place(h, new), ~new.busy,
         new.family \in 1..(cores + 1), new.parentCore = new.parentLifetime,
         children' \in [1..MaxCores -> 0..MaxChildren]
  PROVE  Inv'
<1> DEFINE q == [new EXCEPT !.status = "live", !.lifetime = cores + 1, !.core = cores + 1]
<1>1. /\ parser[h].status = "none" /\ cores < MaxCores /\ cores' = cores + 1
      /\ parser' = [parser EXCEPT ![h] = q] /\ points' = [points EXCEPT ![cores + 1] = h]
      /\ UNCHANGED <<stack, merges>>
  BY DEF Place, Exists
<1>2. parser \in [Handles -> Parsers] /\ cores \in Nat /\ cores + 1 \in Numbers
      /\ points \in [1..MaxCores -> Handles \cup {NoHandle}]
  BY <1>1, BoundsAssumption DEF Inv, TypeOK, Numbers
<1>3. /\ q \in Parsers /\ q.status = "live" /\ q.lifetime = cores + 1 /\ q.core = cores + 1
      /\ q.family = new.family /\ q.parentCore = q.parentLifetime /\ q.busy = FALSE
  BY <1>2 DEF Parsers
<1> HIDE DEF q
<1>4. \A c \in 1..MaxCores : points[c] # h
  BY <1>1, HandlesAssumption DEF Inv, TokensCurrent
<1>5. /\ TokensCurrent' /\ Numbered' /\ MergedAtHome' /\ Marked'
      /\ parser' \in [Handles -> Parsers]
      /\ points' \in [1..MaxCores -> Handles \cup {NoHandle}] /\ cores' \in Numbers
  BY <1>1, <1>2, <1>3, <1>4, NewTokenKeeps
<1>6. TypeOK'
  BY <1>1, <1>5 DEF Inv, TypeOK
<1>7. \A g \in Handles : parser'[g] = IF g = h THEN q ELSE parser[g]
  BY <1>1, <1>2
<1>8. PinnedWhileBusy' /\ Destroyed'
  <2>1. /\ PinnedWhileBusy /\ Destroyed /\ stack' = stack
        /\ \A i \in 1..Len(stack) : stack[i].handle \in Handles
    BY <1>1, StackFrames DEF Inv
  <2>2. \A i \in 1..Len(stack) : parser[stack[i].handle].status # "none"
    BY <2>1 DEF PinnedWhileBusy, Exists
  <2>3. \A i \in 1..Len(stack) : stack[i].handle # h /\ parser'[stack[i].handle] = parser[stack[i].handle]
    BY <1>1, <1>7, <2>1, <2>2
  <2>4. PinnedWhileBusy'
    BY <1>3, <1>7, <2>1, <2>3 DEF PinnedWhileBusy, Exists
  <2>5. Destroyed'
    BY <1>3, <1>7, <2>1, <2>3 DEF Destroyed
  <2> QED  BY <2>4, <2>5
<1> QED  BY <1>5, <1>6, <1>8 DEF Inv

\* A budget that is dropped counts no children.
LEMMA FamilyWithoutType ==
  ASSUME Inv, NEW h
  PROVE  FamilyWithout(h) \in [1..MaxCores -> 0..MaxChildren]
<1>1. children \in [1..MaxCores -> 0..MaxChildren] /\ 0 \in 0..MaxChildren
  BY BoundsAssumption DEF Inv, TypeOK
<1>2. PICK b \in BOOLEAN : b = \E g \in Handles \ {h} : parser[g].family = parser[h].family
  OBVIOUS
<1>3. FamilyWithout(h) = [children EXCEPT ![parser[h].family] = IF b THEN @ ELSE 0]
  BY <1>2 DEF FamilyWithout
<1> QED  BY <1>1, <1>3

\* XML_ParserReset: the handle has a new token, and the old one leads nowhere.
LEMMA ResetKeeps ==
  ASSUME Inv, ResetReturns
  PROVE  Inv'
<1> DEFINE h == Top.handle
           q == [[parser[h] EXCEPT !.state = "initialized", !.lifetime = cores + 1,
                    !.core = cores + 1, !.family = cores + 1, !.rootCore = cores + 1]
                 EXCEPT !.busy = FALSE]
<1>1. /\ stack # << >> /\ Top.op = "reset" /\ cores < MaxCores /\ cores' = cores + 1
      /\ parser' = [parser EXCEPT ![h] = q] /\ stack' = SubSeq(stack, 1, Len(stack) - 1)
      /\ points' = [Invalidated(h) EXCEPT ![cores + 1] = h]
      /\ children' = FamilyWithout(h) /\ UNCHANGED merges
  BY DEF ResetReturns, InCall, Leave
<1>2. h \in Handles /\ parser[h].status = "live"
  <2>1. h \in Handles /\ Exists(h) /\ parser[h].status # "destroying"
    BY <1>1, TopFacts
  <2>2. parser[h].status \in {"none", "live", "destroying"}
    BY <2>1 DEF Inv, TypeOK, Parsers
  <2> QED  BY <2>1, <2>2 DEF Exists
<1>3. /\ parser \in [Handles -> Parsers] /\ parser[h] \in Parsers /\ cores \in Nat
      /\ cores + 1 \in Numbers /\ points \in [1..MaxCores -> Handles \cup {NoHandle}]
      /\ children \in [1..MaxCores -> 0..MaxChildren] /\ MaxChildren \in Nat
  BY <1>1, <1>2, BoundsAssumption DEF Inv, TypeOK, Numbers
<1>4. parser[h].parentCore = parser[h].parentLifetime
  BY <1>2 DEF Inv, Numbered, Exists
<1>5. /\ q \in Parsers /\ q.status = "live" /\ q.lifetime = cores + 1 /\ q.core = cores + 1
      /\ q.family \in 1..(cores + 1) /\ q.parentCore = q.parentLifetime /\ ~q.busy
  <2> HIDE DEF h
  <2>1. cores + 1 \in 1..(cores + 1)
    BY <1>3
  <2> QED  BY <1>2, <1>3, <1>4, <2>1 DEF Parsers
<1> HIDE DEF q
<1> DEFINE kept == Invalidated(h)
<1>6. /\ kept \in [1..MaxCores -> Handles \cup {NoHandle}]
      /\ \A c \in 1..MaxCores : kept[c] = IF c = parser[h].lifetime THEN NoHandle ELSE points[c]
  BY <1>3 DEF Invalidated
<1> HIDE DEF kept
<1>7. \A c \in 1..MaxCores : points[c] = h => c = parser[h].lifetime
  BY <1>2, HandlesAssumption DEF Inv, TokensCurrent
<1>8. points[parser[h].lifetime] = h
  BY <1>2 DEF Inv, TokensCurrent
<1>9. /\ \A c \in 1..MaxCores : kept[c] = points[c] \/ kept[c] = NoHandle
      /\ \A c \in 1..MaxCores : kept[c] # h
      /\ \A c \in 1..MaxCores : points[c] # h => kept[c] = points[c]
  BY <1>2, <1>6, <1>7, <1>8, HandlesAssumption
<1>10. points' = [kept EXCEPT ![cores + 1] = h]
  BY <1>1 DEF kept
<1>11. /\ TokensCurrent' /\ Numbered' /\ MergedAtHome' /\ Marked'
       /\ parser' \in [Handles -> Parsers]
       /\ points' \in [1..MaxCores -> Handles \cup {NoHandle}] /\ cores' \in Numbers
  <2>1. h \in Handles /\ cores < MaxCores /\ cores' = cores + 1 /\ UNCHANGED merges
        /\ parser' = [parser EXCEPT ![h] = q]
    BY <1>1, <1>2
  <2>2. kept \in [1..MaxCores -> Handles \cup {NoHandle}]
    BY <1>6
  <2> HIDE DEF h
  <2> QED  BY <1>5, <1>9, <1>10, <2>1, <2>2, NewTokenKeeps
<1>12. stack' \in Seq(Frames) /\ PinnedWhileBusy' /\ Destroyed'
  BY <1>1, <1>5, UnpinStack
<1>13. children' \in [1..MaxCores -> 0..MaxChildren]
  BY <1>1, FamilyWithoutType
<1>14. TypeOK'
  BY <1>1, <1>11, <1>12, <1>13 DEF Inv, TypeOK, Frames
<1> QED  BY <1>11, <1>12, <1>14 DEF Inv

\* XML_ParserFree: the token leads nowhere before any callback runs.
LEMMA FreeKeeps ==
  ASSUME Inv, NEW h \in Handles, Free(h)
  PROVE  Inv'
<1> DEFINE q == [[parser[h] EXCEPT !.status = "destroying"] EXCEPT !.busy = TRUE]
<1>1. /\ MayEnter(h) /\ parser' = [parser EXCEPT ![h] = q]
      /\ stack' = Append(stack, [handle |-> h, op |-> "destroy"])
      /\ points' = Invalidated(h) /\ UNCHANGED <<children, cores, merges>>
  BY DEF Free, Enter
<1>2. /\ parser \in [Handles -> Parsers] /\ parser[h] \in Parsers
      /\ points \in [1..MaxCores -> Handles \cup {NoHandle}]
  BY DEF Inv, TypeOK
<1>3. parser[h].status = "live"
  <2>1. parser[h].status # "none" /\ parser[h].status # "destroying"
    BY <1>1 DEF MayEnter, Exists, Inv, Destroyed
  <2> QED  BY <1>2, <2>1 DEF Parsers
<1>4. /\ q \in Parsers /\ q.status = "destroying" /\ q.busy
      /\ q.lifetime = parser[h].lifetime /\ q.family = parser[h].family /\ q.core = parser[h].core
      /\ q.parentLifetime = parser[h].parentLifetime /\ q.parentCore = parser[h].parentCore
      /\ q.merged = parser[h].merged
  BY <1>2 DEF Parsers
<1> HIDE DEF q
<1>5. \A g \in Handles : parser'[g] = IF g = h THEN q ELSE parser[g]
  BY <1>1, <1>2
<1>6. parser' \in [Handles -> Parsers]
  BY <1>1, <1>2, <1>4
<1>7. /\ points' \in [1..MaxCores -> Handles \cup {NoHandle}]
      /\ \A c \in 1..MaxCores : points'[c] = IF c = parser[h].lifetime THEN NoHandle ELSE points[c]
  BY <1>1, <1>2 DEF Invalidated
<1>8. stack' \in Seq(Frames) /\ PinnedWhileBusy' /\ Destroyed'
  BY <1>1, <1>4, PinStack
<1>9. TypeOK'
  BY <1>1, <1>6, <1>7, <1>8 DEF Inv, TypeOK, Frames
<1>10. \A g \in Handles : parser'[g].status # "none" <=> parser[g].status # "none"
  BY <1>3, <1>4, <1>5
<1>11. \A g \in Handles :
         /\ parser'[g].lifetime = parser[g].lifetime /\ parser'[g].family = parser[g].family
         /\ parser'[g].core = parser[g].core /\ parser'[g].parentLifetime = parser[g].parentLifetime
         /\ parser'[g].parentCore = parser[g].parentCore /\ parser'[g].merged = parser[g].merged
  BY <1>4, <1>5
<1>12. Numbered'
  BY <1>1, <1>10, <1>11 DEF Inv, Numbered, Exists
<1>13. MergedAtHome' /\ Marked'
  BY <1>1, <1>10, <1>11 DEF Inv, MergedAtHome, Marked, Exists
<1>14. TokensCurrent'
  <2>1. TokensCurrent
    BY DEF Inv
  <2>2. ASSUME NEW c \in 1..MaxCores, points'[c] # NoHandle
        PROVE  parser'[points'[c]].status = "live" /\ parser'[points'[c]].lifetime = c
    <3>1. c # parser[h].lifetime /\ points'[c] = points[c] /\ points[c] \in Handles
      BY <1>2, <1>7, <2>2
    <3>2. parser[points[c]].status = "live" /\ parser[points[c]].lifetime = c
      BY <2>1, <2>2, <3>1 DEF TokensCurrent
    <3> QED  BY <1>5, <3>1, <3>2
  <2>3. ASSUME NEW g \in Handles, parser'[g].status = "live"
        PROVE  points'[parser'[g].lifetime] = g
    <3>1. g # h /\ parser'[g] = parser[g]
      BY <1>4, <1>5, <2>3
    <3>2. points[parser[g].lifetime] = g /\ points[parser[h].lifetime] = h
      BY <1>3, <2>1, <2>3, <3>1 DEF TokensCurrent
    <3>3. parser[g].lifetime \in 1..cores /\ cores \in Nat /\ cores <= MaxCores /\ MaxCores \in Nat
      BY <2>3, <3>1, BoundsAssumption DEF Inv, Numbered, Exists, TypeOK, Numbers
    <3>4. parser[g].lifetime \in 1..MaxCores
      BY <3>3
    <3> QED  BY <1>7, <3>1, <3>2, <3>4
  <2> QED  BY <2>2, <2>3 DEF TokensCurrent
<1> QED  BY <1>8, <1>9, <1>12, <1>13, <1>14 DEF Inv

\* The end of a Free gives the address back; no token led to it any more.
LEMMA FreeReturnsKeeps ==
  ASSUME Inv, FreeReturns
  PROVE  Inv'
<1> DEFINE h == Top.handle
<1>1. /\ stack # << >> /\ Top.op = "destroy" /\ parser' = [parser EXCEPT ![h] = [Blank EXCEPT !.busy = FALSE]]
      /\ stack' = SubSeq(stack, 1, Len(stack) - 1) /\ children' = FamilyWithout(h)
      /\ UNCHANGED <<points, cores, merges>>
  BY DEF FreeReturns, InCall, Leave
<1>2. h \in Handles /\ parser[h].status = "destroying"
  BY <1>1, TopFacts
<1>3. [Blank EXCEPT !.busy = FALSE] = Blank
  <2>1. \A p \in Parsers : p.busy = FALSE => [p EXCEPT !.busy = FALSE] = p
    BY DEF Parsers
  <2> QED  BY <2>1, BlankIsParser DEF Blank
<1>4. Blank \in Parsers /\ Blank.status = "none" /\ ~Blank.busy
  BY BlankIsParser DEF Blank
<1>5. parser \in [Handles -> Parsers] /\ points \in [1..MaxCores -> Handles \cup {NoHandle}]
  BY DEF Inv, TypeOK
<1>6. stack' \in Seq(Frames) /\ PinnedWhileBusy' /\ Destroyed'
  <2>1. parser' = [parser EXCEPT ![Top.handle] = Blank] /\ Blank.status # "destroying"
    BY <1>1, <1>3, <1>4
  <2> QED  BY <1>1, <1>4, <2>1, UnpinStack
<1> HIDE DEF h
<1>7. \A g \in Handles : parser'[g] = IF g = h THEN Blank ELSE parser[g]
  BY <1>1, <1>3, <1>5
<1>8. TypeOK'
  <2>1. parser' \in [Handles -> Parsers]
    BY <1>1, <1>3, <1>4, <1>5
  <2>2. children' \in [1..MaxCores -> 0..MaxChildren]
    BY <1>1, FamilyWithoutType
  <2> QED  BY <1>1, <1>6, <2>1, <2>2 DEF Inv, TypeOK, Frames
<1>9. TokensCurrent'
  <2>1. TokensCurrent
    BY DEF Inv
  <2>2. ASSUME NEW c \in 1..MaxCores, points[c] # NoHandle
        PROVE  parser'[points[c]].status = "live" /\ parser'[points[c]].lifetime = c
    <3>1. points[c] \in Handles /\ parser[points[c]].status = "live" /\ parser[points[c]].lifetime = c
      BY <1>5, <2>1, <2>2 DEF TokensCurrent
    <3> QED  BY <1>2, <1>7, <3>1
  <2>3. \A g \in Handles : parser'[g].status = "live" => points[parser'[g].lifetime] = g
    BY <1>4, <1>7, <2>1 DEF TokensCurrent
  <2> QED  BY <1>1, <2>2, <2>3 DEF TokensCurrent
<1>10. \A g \in Handles : parser'[g].status # "none" => parser'[g] = parser[g]
  BY <1>4, <1>7
<1>11. Numbered' /\ MergedAtHome' /\ Marked'
  <2>1. \A g \in Handles : parser'[g].status # "none" => parser[g].status # "none"
    BY <1>10
  <2>2. Numbered'
    BY <1>1, <1>10, <2>1 DEF Inv, Numbered, Exists
  <2>3. MergedAtHome'
    BY <1>1 DEF Inv, MergedAtHome
  <2>4. ASSUME NEW i \in DOMAIN merges
        PROVE  merges[i].of \in 1..cores /\ \A g \in Handles :
                 parser'[g].status # "none" /\ parser'[g].core = merges[i].of => parser'[g].merged
    <3>. DEFINE m == merges[i]
    <3>1. m.of \in 1..cores /\ \A g \in Handles :
            parser[g].status # "none" /\ parser[g].core = m.of => parser[g].merged
      BY DEF Inv, Marked, Exists
    <3>. HIDE DEF m
    <3>2. m.of \in 1..cores /\ \A g \in Handles :
            parser'[g].status # "none" /\ parser'[g].core = m.of => parser'[g].merged
      BY <1>10, <2>1, <3>1
    <3>. QED  BY <3>2 DEF m
  <2> QED  BY <1>1, <2>2, <2>3, <2>4 DEF Marked, Exists
<1> QED  BY <1>6, <1>8, <1>9, <1>11 DEF Inv

-----------------------------------------------------------------------------
(***************************************************************************)
(* Merging                                                                 *)
(***************************************************************************)

\* What a finished document merges goes to the core that its parent had, and has
\* not been merged before.
LEMMA MergesAtHome ==
  ASSUME Inv, NEW h \in Handles, Exists(h), Merges(h) # << >>
  PROVE  \E m \in [of : Numbers, into : Numbers, due : Numbers] :
           Merges(h) = <<m>> /\ Unmerged(h) /\ m.of = parser[h].core /\ m.into = m.due
<1> DEFINE p == Parent(h)
<1>1. /\ Unmerged(h) /\ p # NoHandle
      /\ Merges(h) = << [of |-> parser[h].core, into |-> parser[p].core, due |-> parser[h].parentCore] >>
  BY DEF Merges
<1>2. parser[h].parentLifetime # 0 /\ p = points[parser[h].parentLifetime]
  BY <1>1 DEF Parent
<1>3. parser \in [Handles -> Parsers] /\ points \in [1..MaxCores -> Handles \cup {NoHandle}]
  BY DEF Inv, TypeOK
<1>4. parser[h].parentLifetime \in 1..MaxCores
  <2>1. parser[h].parentLifetime \in 0..MaxCores /\ MaxCores \in Nat
    BY <1>3, BoundsAssumption DEF Parsers, Numbers
  <2> QED  BY <1>2, <2>1
<1>5. p \in Handles /\ parser[p].status = "live" /\ parser[p].lifetime = parser[h].parentLifetime
  BY <1>1, <1>2, <1>3, <1>4 DEF Inv, TokensCurrent
<1>6. parser[p].core = parser[h].parentCore
  BY <1>5 DEF Inv, Numbered, Exists
<1>7. parser[h].core \in Numbers /\ parser[p].core \in Numbers /\ parser[h].parentCore \in Numbers
  BY <1>3, <1>5 DEF Parsers
<1> HIDE DEF p
<1> QED  BY <1>1, <1>6, <1>7

\* The end of a document.
LEMMA FinishKeeps ==
  ASSUME Inv, ParseFinishes
  PROVE  Inv'
<1> DEFINE h == Top.handle
           q == [[parser[h] EXCEPT !.state = "finished", !.merged = @ \/ Unmerged(h)]
                 EXCEPT !.busy = FALSE]
<1>1. /\ stack # << >> /\ Top.op = "parse" /\ parser' = [parser EXCEPT ![h] = q]
      /\ stack' = SubSeq(stack, 1, Len(stack) - 1) /\ merges' = merges \o Merges(h)
      /\ UNCHANGED <<points, children, cores>>
  BY DEF ParseFinishes, InCall, Leave
<1>2. h \in Handles /\ Exists(h) /\ parser \in [Handles -> Parsers] /\ parser[h] \in Parsers
  BY <1>1, TopFacts DEF Inv, TypeOK
<1>3. /\ q \in Parsers /\ SameHandle(q, parser[h]) /\ ~q.busy
      /\ q.merged = (parser[h].merged \/ Unmerged(h))
  <2>1. Unmerged(h) \in BOOLEAN /\ parser[h].merged \in BOOLEAN
    BY <1>2 DEF Unmerged, Parsers
  <2> HIDE DEF h
  <2>2. [parser[h] EXCEPT !.merged = @ \/ Unmerged(h)] \in Parsers
    BY <1>2, <2>1, FieldUpdates
  <2> QED  BY <1>2, <2>1 DEF Parsers, SameHandle
<1> HIDE DEF q
<1>m. merges \in Seq([of : Numbers, into : Numbers, due : Numbers])
  BY DEF Inv, TypeOK
<1>4. merges' \in Seq([of : Numbers, into : Numbers, due : Numbers])
  <2> HIDE DEF h
  <2>1. Merges(h) = << >> \/ \E m \in [of : Numbers, into : Numbers, due : Numbers] : Merges(h) = <<m>>
    BY <1>2, MergesAtHome
  <2>2. Merges(h) \in Seq([of : Numbers, into : Numbers, due : Numbers])
    <3>1. << >> \in Seq([of : Numbers, into : Numbers, due : Numbers])
      OBVIOUS
    <3>2. ASSUME NEW m \in [of : Numbers, into : Numbers, due : Numbers]
          PROVE  <<m>> \in Seq([of : Numbers, into : Numbers, due : Numbers])
      OBVIOUS
    <3> QED  BY <2>1, <3>1, <3>2
  <2> QED  BY <1>1, <1>m, <2>2
<1>5. TypeOK' /\ TokensCurrent' /\ PinnedWhileBusy' /\ Numbered' /\ Destroyed'
  BY <1>1, <1>3, <1>4, UnpinKeeps
<1> HIDE DEF h
<1>6. \A g \in Handles : parser'[g] = IF g = h THEN q ELSE parser[g]
  BY <1>1, <1>2
<1>7. \A g \in Handles : SameHandle(parser'[g], parser[g])
  BY <1>3, <1>6 DEF SameHandle
<1>8. CASE Merges(h) = << >>
  <2>1. merges' = merges
    BY <1>1, <1>m, <1>8
  <2>2. MergedAtHome' /\ Marked'
    BY <1>1, <1>7, <2>1 DEF Inv, MergedAtHome, Marked, Exists, SameHandle
  <2> QED  BY <1>5, <2>2 DEF Inv
<1>9. CASE Merges(h) # << >>
  <2>1. PICK m \in [of : Numbers, into : Numbers, due : Numbers] :
          Merges(h) = <<m>> /\ Unmerged(h) /\ m.of = parser[h].core /\ m.into = m.due
    BY <1>2, <1>9, MergesAtHome
  <2>2. /\ DOMAIN merges = 1..Len(merges) /\ DOMAIN merges' = 1..(Len(merges) + 1) /\ Len(merges) \in Nat
        /\ merges'[Len(merges) + 1] = m /\ \A i \in DOMAIN merges : merges'[i] = merges[i]
    BY <1>1, <1>m, <2>1
  <2>3. ASSUME NEW i \in DOMAIN merges
        PROVE  /\ merges[i].of # m.of
               /\ merges[i].of \in 1..cores' /\ \A g \in Handles :
                    parser'[g].status # "none" /\ parser'[g].core = merges[i].of => parser'[g].merged
    <3>1. merges[i].of # parser[h].core
      BY <1>2, <2>1 DEF Unmerged, Inv, Marked
    <3> QED  BY <1>1, <1>7, <2>1, <3>1 DEF Inv, Marked, Exists, SameHandle
  <2>4. MergedAtHome'
    <3>1. \A i \in DOMAIN merges' : i \in DOMAIN merges \/ i = Len(merges) + 1
      BY <2>2
    <3>2. \A i \in DOMAIN merges' : merges'[i].into = merges'[i].due
      BY <2>1, <2>2, <3>1 DEF Inv, MergedAtHome
    <3>3. \A i, j \in DOMAIN merges' : merges'[i].of = merges'[j].of => i = j
      BY <2>2, <2>3, <3>1 DEF Inv, MergedAtHome
    <3> QED  BY <3>2, <3>3 DEF MergedAtHome
  <2>5. Marked'
    <3>1. m.of \in 1..cores' /\ m.of = parser[h].core
      BY <1>1, <1>2, <2>1 DEF Inv, Numbered
    <3>2. \A g \in Handles : parser'[g].status # "none" /\ parser'[g].core = m.of => g = h
      BY <1>2, <1>7, <3>1 DEF Inv, Numbered, Exists, SameHandle
    <3>3. m.of \in 1..cores' /\ \A g \in Handles :
            parser'[g].status # "none" /\ parser'[g].core = m.of => parser'[g].merged
      BY <1>3, <1>6, <2>1, <3>1, <3>2
    <3>4. \A i \in DOMAIN merges' : i \in DOMAIN merges \/ i = Len(merges) + 1
      BY <2>2
    <3> QED  BY <2>2, <2>3, <3>3, <3>4 DEF Marked, Exists
  <2> QED  BY <1>5, <2>4, <2>5 DEF Inv
<1> QED  BY <1>8, <1>9

-----------------------------------------------------------------------------
(***************************************************************************)
(* Induction over a set of numbers, and a function defined by iteration.   *)
(***************************************************************************)

Below == {pair \in Nat \X Nat : pair[1] < pair[2]}

LEMMA BelowWellFounded == IsWellFoundedOn(Below, Nat)
BY NatLessThanWellFounded DEF Below, OpToRel

\* A set that has 0, and the successor of each of its numbers, has them all.
LEMMA AllNumbers ==
  ASSUME NEW S \in SUBSET Nat, 0 \in S, \A n \in S : n + 1 \in S
  PROVE  S = Nat
<1>1. SUFFICES ASSUME Nat \ S # {} PROVE FALSE
  OBVIOUS
<1>2. PICK x \in Nat \ S : \A y \in Nat \ S : <<y, x>> \notin Below
  <2>1. Nat \ S \subseteq Nat
    OBVIOUS
  <2> QED  BY <1>1, <2>1, BelowWellFounded, WFMin
<1>3. x # 0 /\ x - 1 \in Nat /\ x - 1 < x /\ (x - 1) + 1 = x
  BY <1>2
<1>4. x - 1 \in S
  BY <1>2, <1>3 DEF Below
<1> QED  BY <1>2, <1>3, <1>4

\* The first n + 1 values of the iteration of a function.
Iterates(f, n, first, step) ==
  f[0] = first /\ \A i \in 0..n : i # n => f[i + 1] = step[f[i]]

LEMMA IterationExists ==
  ASSUME NEW D, NEW first \in D, NEW step \in [D -> D]
  PROVE  \E f \in [Nat -> D] : f[0] = first /\ \A n \in Nat : f[n + 1] = step[f[n]]
<1> DEFINE S == {n \in Nat : \E f \in [0..n -> D] : Iterates(f, n, first, step)}
<1>1. S = Nat
  <2>1. 0 \in S
    <3>1. /\ [i \in 0..0 |-> first] \in [0..0 -> D]
          /\ Iterates([i \in 0..0 |-> first], 0, first, step)
      BY DEF Iterates
    <3> QED  BY <3>1
  <2>2. ASSUME NEW n \in S PROVE n + 1 \in S
    <3>1. PICK f \in [0..n -> D] : Iterates(f, n, first, step)
      BY <2>2
    <3> DEFINE g == [i \in 0..(n + 1) |-> IF i = n + 1 THEN step[f[n]] ELSE f[i]]
    <3>2. n \in Nat /\ g \in [0..(n + 1) -> D]
      BY <2>2
    <3>3. Iterates(g, n + 1, first, step)
      <4>1. g[0] = first
        BY <3>1, <3>2 DEF Iterates
      <4>2. ASSUME NEW i \in 0..(n + 1), i # n + 1 PROVE g[i + 1] = step[g[i]]
        BY <3>1, <3>2, <4>2 DEF Iterates
      <4> QED  BY <4>1, <4>2 DEF Iterates
    <3> HIDE DEF g
    <3> QED  BY <3>2, <3>3
  <2> QED  BY <2>1, <2>2, AllNumbers
<1>2. \A n \in Nat : \E f \in [0..n -> D] : Iterates(f, n, first, step)
  BY <1>1
<1> DEFINE part(n) == CHOOSE f \in [0..n -> D] : Iterates(f, n, first, step)
           all == [n \in Nat |-> part(n)[n]]
<1>3. \A n \in Nat : part(n) \in [0..n -> D] /\ Iterates(part(n), n, first, step)
  BY <1>2
<1>4. ASSUME NEW m \in Nat PROVE \A n \in Nat : n >= m => part(n)[m] = part(m)[m]
  <2> DEFINE T == {k \in Nat : k <= m => \A n \in Nat : n >= m => part(n)[k] = part(m)[k]}
  <2> HIDE DEF part
  <2>1. 0 \in T
    BY <1>3 DEF Iterates
  <2>2. ASSUME NEW k \in T PROVE k + 1 \in T
    <3>1. SUFFICES ASSUME k + 1 <= m, NEW n \in Nat, n >= m
                   PROVE  part(n)[k + 1] = part(m)[k + 1]
      BY <2>2
    <3>2. k \in Nat /\ k \in 0..n /\ k # n /\ k \in 0..m /\ k # m /\ part(n)[k] = part(m)[k]
      BY <2>2, <3>1
    <3>3. part(n)[k + 1] = step[part(n)[k]] /\ part(m)[k + 1] = step[part(m)[k]]
      BY <1>3, <3>2 DEF Iterates
    <3> QED  BY <3>2, <3>3
  <2>3. T = Nat
    BY <2>1, <2>2, AllNumbers
  <2> QED  BY <2>3
<1> HIDE DEF part
<1>5. all \in [Nat -> D]
  BY <1>3
<1>6. all[0] = first
  BY <1>3 DEF Iterates
<1>7. ASSUME NEW n \in Nat PROVE all[n + 1] = step[all[n]]
  <2>1. n + 1 \in Nat /\ n \in 0..(n + 1) /\ n # n + 1 /\ n + 1 >= n
    OBVIOUS
  <2>2. part(n + 1)[n + 1] = step[part(n + 1)[n]] /\ part(n + 1)[n] = part(n)[n]
    BY <1>3, <1>4, <2>1 DEF Iterates
  <2> QED  BY <2>1, <2>2
<1> HIDE DEF all
<1> QED  BY <1>5, <1>6, <1>7

-----------------------------------------------------------------------------
(***************************************************************************)
(* The root that a handle reaches                                          *)
(*                                                                         *)
(* A token that still leads somewhere leads one level up in the same       *)
(* document; a handle at depth zero is the root itself.  So whoever climbs *)
(* as many levels as the handle is deep has either come to nothing or to   *)
(* the root that the document still has.                                   *)
(***************************************************************************)

Rooted ==
  \A h \in Handles : Exists(h) =>
    /\ parser[h].parentLifetime \in 0..cores
    /\ parser[h].parentLifetime = 0 <=> parser[h].depth = 0
    /\ parser[h].depth = 0 => parser[h].rootCore = parser[h].core
    /\ Parent(h) # NoHandle =>
         /\ parser[h].depth = parser[Parent(h)].depth + 1
         /\ parser[h].rootCore = parser[Parent(h)].rootCore

\* What a call leaves alone in a handle's place in the document.
SamePlace(q, r) ==
  /\ q.depth = r.depth /\ q.core = r.core /\ q.rootCore = r.rootCore
  /\ q.parentLifetime = r.parentLifetime

\* Nobody's place changes, and tokens lead where they led or nowhere.
LEMMA SamePlaceKeeps ==
  ASSUME Inv, Rooted, cores' = cores,
         \A g \in Handles : SamePlace(parser'[g], parser[g]),
         \A g \in Handles : parser'[g].status # "none" => parser[g].status # "none",
         \A c \in 1..MaxCores : points'[c] \in {points[c], NoHandle}
  PROVE  Rooted'
<1>1. points \in [1..MaxCores -> Handles \cup {NoHandle}] /\ cores \in 0..MaxCores /\ MaxCores \in Nat
  BY BoundsAssumption DEF Inv, TypeOK, Numbers
<1>2. SUFFICES ASSUME NEW h \in Handles, parser'[h].status # "none"
               PROVE  /\ parser'[h].parentLifetime \in 0..cores
                      /\ parser'[h].parentLifetime = 0 <=> parser'[h].depth = 0
                      /\ parser'[h].depth = 0 => parser'[h].rootCore = parser'[h].core
                      /\ Parent(h)' # NoHandle =>
                           /\ parser'[h].depth = parser'[Parent(h)'].depth + 1
                           /\ parser'[h].rootCore = parser'[Parent(h)'].rootCore
  BY DEF Rooted, Exists
<1>3. /\ parser[h].parentLifetime \in 0..cores
      /\ parser[h].parentLifetime = 0 <=> parser[h].depth = 0
      /\ parser[h].depth = 0 => parser[h].rootCore = parser[h].core
      /\ Parent(h) # NoHandle =>
           /\ parser[h].depth = parser[Parent(h)].depth + 1
           /\ parser[h].rootCore = parser[Parent(h)].rootCore
  BY <1>2 DEF Rooted, Exists
<1>4. SamePlace(parser'[h], parser[h])
  OBVIOUS
<1>5. ASSUME Parent(h)' # NoHandle
      PROVE  Parent(h)' = Parent(h) /\ Parent(h) # NoHandle /\ Parent(h) \in Handles
  <2>1. parser[h].parentLifetime \in 1..MaxCores
    BY <1>1, <1>3, <1>4, <1>5 DEF Parent, SamePlace
  <2>2. Parent(h)' = points'[parser[h].parentLifetime] /\ Parent(h) = points[parser[h].parentLifetime]
    BY <1>4, <2>1 DEF Parent, SamePlace
  <2> QED  BY <1>1, <1>5, <2>1, <2>2
<1> QED  BY <1>3, <1>4, <1>5 DEF SamePlace

\* One record changes, but not its place.
LEMMA SameRecordPlaceKeeps ==
  ASSUME Inv, Rooted, cores' = cores, NEW h \in Handles, NEW q,
         parser' = [parser EXCEPT ![h] = q], SamePlace(q, parser[h]),
         q.status # "none" => parser[h].status # "none",
         \A c \in 1..MaxCores : points'[c] \in {points[c], NoHandle}
  PROVE  Rooted'
<1>1. \A g \in Handles : parser'[g] = IF g = h THEN q ELSE parser[g]
  BY DEF Inv, TypeOK
<1>2. \A g \in Handles : SamePlace(parser'[g], parser[g])
  BY <1>1 DEF SamePlace
<1> QED  BY <1>1, <1>2, SamePlaceKeeps

\* A handle is new at its address, or gets a new document: nobody was made by it.
LEMMA NewPlaceKeeps ==
  ASSUME Inv, Rooted, NEW h \in Handles, cores < MaxCores, cores' = cores + 1, NEW q \in Parsers,
         parser' = [parser EXCEPT ![h] = q],
         q.parentLifetime \in 0..cores, q.parentLifetime = 0 <=> q.depth = 0,
         q.depth = 0 => q.rootCore = q.core,
         q.parentLifetime # 0 =>
           LET p == points[q.parentLifetime] IN
           p \in Handles \ {h} /\ q.depth = parser[p].depth + 1 /\ q.rootCore = parser[p].rootCore,
         NEW kept \in [1..MaxCores -> Handles \cup {NoHandle}],
         \A c \in 1..MaxCores : kept[c] # h /\ kept[c] \in {points[c], NoHandle},
         points' = [kept EXCEPT ![cores + 1] = h]
  PROVE  Rooted'
<1>1. /\ parser \in [Handles -> Parsers] /\ cores \in 0..MaxCores /\ MaxCores \in Nat
      /\ points \in [1..MaxCores -> Handles \cup {NoHandle}]
  BY BoundsAssumption DEF Inv, TypeOK, Numbers
<1>2. /\ \A g \in Handles : parser'[g] = IF g = h THEN q ELSE parser[g]
      /\ \A c \in 1..MaxCores : points'[c] = IF c = cores + 1 THEN h ELSE kept[c]
  BY <1>1
<1>3. SUFFICES ASSUME NEW g \in Handles, parser'[g].status # "none"
               PROVE  /\ parser'[g].parentLifetime \in 0..(cores + 1)
                      /\ parser'[g].parentLifetime = 0 <=> parser'[g].depth = 0
                      /\ parser'[g].depth = 0 => parser'[g].rootCore = parser'[g].core
                      /\ Parent(g)' # NoHandle =>
                           /\ parser'[g].depth = parser'[Parent(g)'].depth + 1
                           /\ parser'[g].rootCore = parser'[Parent(g)'].rootCore
  BY DEF Rooted, Exists
<1>4. CASE g = h
  <2>1. parser'[g] = q
    BY <1>2, <1>4
  <2>2. ASSUME Parent(g)' # NoHandle
        PROVE  /\ q.depth = parser'[Parent(g)'].depth + 1
               /\ q.rootCore = parser'[Parent(g)'].rootCore
    <3>1. q.parentLifetime \in 1..cores /\ Parent(g)' = points'[q.parentLifetime]
      BY <1>1, <2>1, <2>2 DEF Parent
    <3>2. Parent(g)' = kept[q.parentLifetime] /\ q.parentLifetime \in 1..MaxCores
      BY <1>1, <1>2, <3>1
    <3>3. Parent(g)' = points[q.parentLifetime] /\ Parent(g)' \in Handles \ {h}
      BY <2>2, <3>1, <3>2
    <3> QED  BY <1>2, <3>1, <3>3
  <2> QED  BY <1>1, <2>1, <2>2
<1>5. CASE g # h
  <2>1. parser'[g] = parser[g]
    BY <1>2, <1>5
  <2>2. /\ parser[g].parentLifetime \in 0..cores
        /\ parser[g].parentLifetime = 0 <=> parser[g].depth = 0
        /\ parser[g].depth = 0 => parser[g].rootCore = parser[g].core
        /\ Parent(g) # NoHandle =>
             /\ parser[g].depth = parser[Parent(g)].depth + 1
             /\ parser[g].rootCore = parser[Parent(g)].rootCore
    BY <1>3, <2>1 DEF Rooted, Exists
  <2>3. ASSUME Parent(g)' # NoHandle
        PROVE  Parent(g)' = Parent(g) /\ Parent(g) \in Handles \ {h} /\ Parent(g) # NoHandle
    <3>1. parser[g].parentLifetime \in 1..cores /\ Parent(g)' = points'[parser[g].parentLifetime]
          /\ Parent(g) = points[parser[g].parentLifetime]
      BY <1>1, <2>1, <2>2, <2>3 DEF Parent
    <3>2. Parent(g)' = kept[parser[g].parentLifetime] /\ parser[g].parentLifetime \in 1..MaxCores
      BY <1>1, <1>2, <3>1
    <3> QED  BY <1>1, <2>3, <3>1, <3>2
  <2> QED  BY <1>1, <1>2, <2>1, <2>2, <2>3
<1> QED  BY <1>4, <1>5

\* A record that goes away when no token leads to it.
LEMMA GonePlaceKeeps ==
  ASSUME Inv, Rooted, FreeReturns
  PROVE  Rooted'
<1> DEFINE h == Top.handle
<1>1. /\ h \in Handles /\ parser[h].status = "destroying"
      /\ parser' = [parser EXCEPT ![h] = [Blank EXCEPT !.busy = FALSE]]
      /\ UNCHANGED <<points, cores>>
  BY TopFacts DEF FreeReturns, InCall, Leave
<1> HIDE DEF h
<1>2. \A g \in Handles : parser'[g] = IF g = h THEN [Blank EXCEPT !.busy = FALSE] ELSE parser[g]
  BY <1>1 DEF Inv, TypeOK
<1>3. \A c \in 1..MaxCores : points[c] # h
  BY <1>1, HandlesAssumption DEF Inv, TokensCurrent
<1>4. parser'[h].status = "none"
  BY <1>1, <1>2 DEF Blank
<1>5. cores \in 0..MaxCores /\ MaxCores \in Nat /\ points \in [1..MaxCores -> Handles \cup {NoHandle}]
  BY BoundsAssumption DEF Inv, TypeOK, Numbers
<1>6. ASSUME NEW g \in Handles, parser'[g].status # "none"
      PROVE  /\ parser'[g] = parser[g] /\ parser[g].status # "none" /\ Parent(g)' = Parent(g)
             /\ Parent(g) # NoHandle => parser'[Parent(g)] = parser[Parent(g)]
  <2>1. parser'[g] = parser[g] /\ parser[g].status # "none"
    BY <1>2, <1>4, <1>6
  <2>2. Parent(g)' = Parent(g)
    <3>1. points' = points /\ parser'[g].parentLifetime = parser[g].parentLifetime
      BY <1>1, <2>1
    <3> QED  BY <3>1 DEF Parent
  <2>3. ASSUME Parent(g) # NoHandle
        PROVE  parser'[Parent(g)] = parser[Parent(g)]
    <3>1. parser[g].parentLifetime \in 1..MaxCores /\ Parent(g) = points[parser[g].parentLifetime]
      BY <1>5, <2>1, <2>3 DEF Parent, Rooted, Exists
    <3> QED  BY <1>2, <1>3, <1>5, <2>3, <3>1
  <2> QED  BY <2>1, <2>2, <2>3
<1>7. SUFFICES ASSUME NEW g \in Handles, parser'[g].status # "none"
               PROVE  /\ parser'[g].parentLifetime \in 0..cores'
                      /\ parser'[g].parentLifetime = 0 <=> parser'[g].depth = 0
                      /\ parser'[g].depth = 0 => parser'[g].rootCore = parser'[g].core
                      /\ Parent(g)' # NoHandle =>
                           /\ parser'[g].depth = parser'[Parent(g)'].depth + 1
                           /\ parser'[g].rootCore = parser'[Parent(g)'].rootCore
  BY DEF Rooted, Exists
<1>8. /\ parser[g].parentLifetime \in 0..cores
      /\ parser[g].parentLifetime = 0 <=> parser[g].depth = 0
      /\ parser[g].depth = 0 => parser[g].rootCore = parser[g].core
      /\ Parent(g) # NoHandle =>
           /\ parser[g].depth = parser[Parent(g)].depth + 1
           /\ parser[g].rootCore = parser[Parent(g)].rootCore
  BY <1>6, <1>7 DEF Rooted, Exists
<1> QED  BY <1>1, <1>6, <1>7, <1>8

\* XML_ParserReset: a root again, which nobody was made by.
LEMMA ResetPlaceKeeps ==
  ASSUME Inv, Rooted, ResetReturns, parser[Top.handle].depth = 0
  PROVE  Rooted'
<1> DEFINE h == Top.handle
           q == [[parser[h] EXCEPT !.state = "initialized", !.lifetime = cores + 1,
                    !.core = cores + 1, !.family = cores + 1, !.rootCore = cores + 1]
                 EXCEPT !.busy = FALSE]
           kept == Invalidated(h)
<1>1. /\ h \in Handles /\ parser[h].status = "live" /\ cores < MaxCores /\ cores' = cores + 1
      /\ parser' = [parser EXCEPT ![h] = q] /\ points' = [kept EXCEPT ![cores + 1] = h]
  <2>1. /\ stack # << >> /\ Top.op = "reset" /\ cores < MaxCores /\ cores' = cores + 1
        /\ parser' = [parser EXCEPT ![h] = q] /\ points' = [kept EXCEPT ![cores + 1] = h]
    BY DEF ResetReturns, InCall, Leave
  <2>2. h \in Handles /\ parser[h].status # "none" /\ parser[h].status # "destroying"
    BY <2>1, TopFacts DEF Exists
  <2>3. parser[h].status \in {"none", "live", "destroying"}
    BY <2>2 DEF Inv, TypeOK, Parsers
  <2> QED  BY <2>1, <2>2, <2>3
<1>2. parser[h].depth = 0
  OBVIOUS
<1> HIDE DEF h
<1>3. /\ parser[h] \in Parsers /\ cores + 1 \in Numbers /\ cores \in Nat
      /\ points \in [1..MaxCores -> Handles \cup {NoHandle}]
  BY <1>1, BoundsAssumption DEF Inv, TypeOK, Numbers
<1>4. parser[h].parentLifetime = 0
  BY <1>1, <1>2 DEF Rooted, Exists
<1>5. /\ q \in Parsers /\ q.parentLifetime = 0 /\ q.depth = 0 /\ q.rootCore = q.core
  BY <1>2, <1>3, <1>4 DEF Parsers
<1> HIDE DEF q
<1>6. /\ kept \in [1..MaxCores -> Handles \cup {NoHandle}]
      /\ \A c \in 1..MaxCores : kept[c] = IF c = parser[h].lifetime THEN NoHandle ELSE points[c]
  BY <1>3 DEF Invalidated
<1> HIDE DEF kept
<1>7. \A c \in 1..MaxCores : points[c] = h => c = parser[h].lifetime
  BY <1>1, HandlesAssumption DEF Inv, TokensCurrent
<1>8. \A c \in 1..MaxCores : kept[c] # h /\ kept[c] \in {points[c], NoHandle}
  BY <1>1, <1>6, <1>7, HandlesAssumption
<1>9. q.parentLifetime \in 0..cores /\ q.parentLifetime = 0
  BY <1>3, <1>5
<1> QED  BY <1>1, <1>5, <1>6, <1>8, <1>9, NewPlaceKeeps

\* Only a root is being reset.
ResetsRoots == \A i \in 1..Len(stack) : stack[i].op = "reset" => parser[stack[i].handle].depth = 0

LEMMA ResetsRootsKept ==
  ASSUME Inv, ResetsRoots,
         \A g \in Handles : Exists(g) => parser'[g].depth \in {parser[g].depth, 0},
         \A i \in 1..Len(stack') : \/ i \in 1..Len(stack) /\ stack'[i] = stack[i]
                                   \/ stack'[i].op # "reset"
                                   \/ parser'[stack'[i].handle].depth = 0
  PROVE  ResetsRoots'
<1>1. \A i \in 1..Len(stack) : stack[i].handle \in Handles /\ Exists(stack[i].handle)
  BY StackFrames DEF Inv, PinnedWhileBusy
<1>2. SUFFICES ASSUME NEW i \in 1..Len(stack'), stack'[i].op = "reset"
               PROVE  parser'[stack'[i].handle].depth = 0
  BY DEF ResetsRoots
<1>3. CASE i \in 1..Len(stack) /\ stack'[i] = stack[i]
  BY <1>1, <1>2, <1>3 DEF ResetsRoots
<1> QED  BY <1>2, <1>3

LEMMA PushedCall ==
  ASSUME Inv, NEW h \in Handles, NEW op \in {"parse", "reset", "destroy"},
         stack' = Append(stack, [handle |-> h, op |-> op])
  PROVE  \A i \in 1..Len(stack') : \/ i \in 1..Len(stack) /\ stack'[i] = stack[i]
                                   \/ stack'[i] = [handle |-> h, op |-> op]
<1>1. stack \in Seq(Frames) /\ [handle |-> h, op |-> op] \in Frames
  BY DEF Inv, TypeOK, Frames
<1> QED  BY <1>1

LEMMA PoppedCall ==
  ASSUME Inv, stack # << >>, stack' = SubSeq(stack, 1, Len(stack) - 1)
  PROVE  \A i \in 1..Len(stack') : i \in 1..Len(stack) /\ stack'[i] = stack[i]
<1>1. stack \in Seq(Frames)
  BY DEF Inv, TypeOK, Frames
<1> QED  BY <1>1, FrontFacts

Places == Rooted /\ ResetsRoots

\* A step of Next keeps everybody's place.
LEMMA PlacesStep ==
  ASSUME Inv, Places, Next
  PROVE  Places'
<1>0. /\ parser \in [Handles -> Parsers] /\ Rooted /\ ResetsRoots /\ MaxCores \in Nat
      /\ points \in [1..MaxCores -> Handles \cup {NoHandle}] /\ cores \in 0..MaxCores
  BY BoundsAssumption DEF Inv, TypeOK, Places, Numbers
<1>a. ASSUME NEW h \in Handles, NEW q, parser' = [parser EXCEPT ![h] = q]
      PROVE  \A g \in Handles : parser'[g] = IF g = h THEN q ELSE parser[g]
  BY <1>0, <1>a
<1>b. \A h \in Handles : Invalidated(h) \in [1..MaxCores -> Handles \cup {NoHandle}]
        /\ \A c \in 1..MaxCores : Invalidated(h)[c] \in {points[c], NoHandle}
  BY <1>0 DEF Invalidated
<1>c. ASSUME NEW h \in Handles, NEW new \in Parsers, Place(h, new),
             new.parentLifetime \in 0..cores, new.parentLifetime = 0 <=> new.depth = 0,
             new.depth = 0 => new.rootCore = cores + 1,
             new.parentLifetime # 0 =>
               LET p == points[new.parentLifetime] IN
               p \in Handles \ {h} /\ new.depth = parser[p].depth + 1
               /\ new.rootCore = parser[p].rootCore
      PROVE  Places'
  <2> DEFINE q == [new EXCEPT !.status = "live", !.lifetime = cores + 1, !.core = cores + 1]
  <2>1. /\ parser[h].status = "none" /\ cores < MaxCores /\ cores' = cores + 1
        /\ parser' = [parser EXCEPT ![h] = q] /\ points' = [points EXCEPT ![cores + 1] = h]
        /\ stack' = stack
    BY <1>c DEF Place, Exists
  <2>2. /\ q \in Parsers /\ q.parentLifetime = new.parentLifetime /\ q.depth = new.depth
        /\ q.rootCore = new.rootCore /\ q.core = cores + 1
    <3>1. cores + 1 \in Numbers
      BY <1>0, <2>1 DEF Numbers
    <3> QED  BY <3>1 DEF Parsers
  <2> HIDE DEF q
  <2>3. \A c \in 1..MaxCores : points[c] # h /\ points[c] \in {points[c], NoHandle}
    BY <2>1, HandlesAssumption DEF Inv, TokensCurrent
  <2>4. Rooted'
    BY <1>0, <1>c, <2>1, <2>2, <2>3, NewPlaceKeeps
  <2>5. \A g \in Handles : parser'[g] = IF g = h THEN q ELSE parser[g]
    BY <1>a, <2>1
  <2>6. ResetsRoots'
    BY <1>0, <2>1, <2>5, ResetsRootsKept DEF Exists
  <2> QED  BY <2>4, <2>6 DEF Places
<1>1. ASSUME NEW h \in Handles, Create(h)
      PROVE  Places'
  <2> DEFINE new == [Blank EXCEPT !.family = cores + 1, !.rootCore = cores + 1]
  <2>1. Place(h, new)
    BY <1>1 DEF Create
  <2>2. /\ new \in Parsers /\ new.parentLifetime = 0 /\ new.depth = 0 /\ new.rootCore = cores + 1
    <3>1. 0 \in Numbers /\ 0 \in 0..MaxDepth /\ cores + 1 \in Numbers
      BY <1>0, <2>1, BoundsAssumption DEF Place, Numbers
    <3> QED  BY <3>1 DEF Blank, Parsers
  <2> HIDE DEF new
  <2> QED  BY <1>0, <1>1, <1>c, <2>1, <2>2
<1>2. ASSUME NEW h \in Handles, NEW p \in Handles, CreateChild(p, h)
      PROVE  Places'
  <2>1. PICK isSubset \in BOOLEAN :
          Place(h, [Blank EXCEPT !.subset = isSubset, !.depth = parser[p].depth + 1,
                                 !.parentLifetime = parser[p].lifetime, !.family = parser[p].family,
                                 !.parentCore = parser[p].core, !.rootCore = parser[p].rootCore])
    BY <1>2 DEF CreateChild
  <2> DEFINE new == [Blank EXCEPT !.subset = isSubset, !.depth = parser[p].depth + 1,
                                  !.parentLifetime = parser[p].lifetime, !.family = parser[p].family,
                                  !.parentCore = parser[p].core, !.rootCore = parser[p].rootCore]
  <2>2. /\ parser[p].status = "live" /\ parser[p].depth < MaxDepth /\ parser[p] \in Parsers
    BY <1>0, <1>2 DEF CreateChild, ChargeChild
  <2>3. /\ parser[p].lifetime \in 1..cores /\ points[parser[p].lifetime] = p
    BY <2>2 DEF Inv, Numbered, Exists, TokensCurrent
  <2>4. /\ new \in Parsers /\ new.parentLifetime = parser[p].lifetime
        /\ new.depth = parser[p].depth + 1 /\ new.rootCore = parser[p].rootCore
    <3>1. 0 \in Numbers /\ parser[p].depth + 1 \in 0..MaxDepth
      BY <2>2, BoundsAssumption DEF Numbers, Parsers
    <3>2. /\ parser[p].lifetime \in Numbers /\ parser[p].family \in Numbers
          /\ parser[p].core \in Numbers /\ parser[p].rootCore \in Numbers
      BY <2>2 DEF Parsers
    <3> QED  BY <3>1, <3>2 DEF Blank, Parsers
  <2>5. Place(h, new)
    BY <2>1
  <2> HIDE DEF new
  <2>6. new.depth # 0 /\ new.parentLifetime # 0 /\ new.parentLifetime \in 0..cores
    BY <1>0, <2>2, <2>3, <2>4 DEF Parsers
  <2>7. p # h
    BY <2>2, <2>5 DEF Place, Exists
  <2> QED  BY <1>c, <2>3, <2>4, <2>5, <2>6, <2>7
<1>d. ASSUME NEW h \in Handles, NEW q, parser' = [parser EXCEPT ![h] = q], SamePlace(q, parser[h]),
             q.status # "none" => parser[h].status # "none", cores' = cores,
             \A c \in 1..MaxCores : points'[c] \in {points[c], NoHandle},
             \A i \in 1..Len(stack') : \/ i \in 1..Len(stack) /\ stack'[i] = stack[i]
                                       \/ stack'[i].op # "reset"
                                       \/ parser[stack'[i].handle].depth = 0
                                          /\ stack'[i].handle \in Handles
      PROVE  Places'
  <2>1. Rooted'
    BY <1>0, <1>d, SameRecordPlaceKeeps
  <2>2. \A g \in Handles : parser'[g].depth = parser[g].depth
    BY <1>a, <1>d DEF SamePlace
  <2>3. ResetsRoots'
    BY <1>0, <1>d, <2>2, ResetsRootsKept
  <2> QED  BY <2>1, <2>3 DEF Places
<1>3. ASSUME NEW h \in Handles, Parse(h) \/ Reset(h)
      PROVE  Places'
  <2> DEFINE op == IF Parse(h) THEN "parse" ELSE "reset"
             q == [IF Parse(h) THEN [parser[h] EXCEPT !.state = "parsing"] ELSE parser[h]
                   EXCEPT !.busy = TRUE]
  <2>1. /\ parser' = [parser EXCEPT ![h] = q] /\ parser[h].status # "none"
        /\ stack' = Append(stack, [handle |-> h, op |-> op]) /\ UNCHANGED <<points, cores>>
        /\ op = "reset" => parser[h].depth = 0
        /\ op \in {"parse", "reset"}
    BY <1>3 DEF Parse, Reset, Enter, MayEnter, Exists
  <2>2. SamePlace(q, parser[h])
    BY <1>0 DEF SamePlace, Parsers
  <2> HIDE DEF q, op
  <2>3. \A i \in 1..Len(stack') : \/ i \in 1..Len(stack) /\ stack'[i] = stack[i]
                                  \/ stack'[i] = [handle |-> h, op |-> op]
    BY <2>1, PushedCall
  <2>4. q.status # "none" => parser[h].status # "none"
    BY <2>1
  <2>5. \A c \in 1..MaxCores : points'[c] \in {points[c], NoHandle}
    BY <2>1
  <2>6. \A i \in 1..Len(stack') : \/ i \in 1..Len(stack) /\ stack'[i] = stack[i]
                                  \/ stack'[i].op # "reset"
                                  \/ parser[stack'[i].handle].depth = 0
                                     /\ stack'[i].handle \in Handles
    BY <2>1, <2>3
  <2> QED  BY <1>d, <2>1, <2>2, <2>4, <2>5, <2>6
<1>4. ASSUME NEW h \in Handles, Free(h)
      PROVE  Places'
  <2> DEFINE q == [[parser[h] EXCEPT !.status = "destroying"] EXCEPT !.busy = TRUE]
  <2>1. /\ parser' = [parser EXCEPT ![h] = q] /\ parser[h].status # "none"
        /\ stack' = Append(stack, [handle |-> h, op |-> "destroy"])
        /\ points' = Invalidated(h) /\ cores' = cores
    BY <1>4 DEF Free, Enter, MayEnter, Exists
  <2>2. SamePlace(q, parser[h])
    BY <1>0 DEF SamePlace, Parsers
  <2> HIDE DEF q
  <2>3. \A i \in 1..Len(stack') : \/ i \in 1..Len(stack) /\ stack'[i] = stack[i]
                                  \/ stack'[i] = [handle |-> h, op |-> "destroy"]
    BY <2>1, PushedCall
  <2>4. q.status # "none" => parser[h].status # "none"
    BY <2>1
  <2>5. \A c \in 1..MaxCores : points'[c] \in {points[c], NoHandle}
    BY <1>b, <2>1
  <2>6. \A i \in 1..Len(stack') : \/ i \in 1..Len(stack) /\ stack'[i] = stack[i]
                                  \/ stack'[i].op # "reset"
    BY <2>1, <2>3
  <2> QED  BY <1>d, <2>1, <2>2, <2>4, <2>5, <2>6
<1>5. ASSUME NEW h \in Handles, SetHashSalt(h)
      PROVE  Places'
  <2> DEFINE root == RootOf(h)
             q == [parser[root] EXCEPT !.salted = TRUE]
  <2>1. parser' = [parser EXCEPT ![root] = q] /\ UNCHANGED <<points, stack, cores>>
    BY <1>5 DEF SetHashSalt
  <2> HIDE DEF root
  <2>2. CASE root \notin Handles
    <3>1. parser' = parser
      BY <1>0, <2>1, <2>2
    <3> QED  BY <1>0, <2>1, <3>1 DEF Places, Rooted, ResetsRoots, Exists, Parent
  <2>3. CASE root \in Handles
    <3>1. SamePlace(q, parser[root]) /\ q.status = parser[root].status
      BY <1>0, <2>3 DEF SamePlace, Parsers
    <3> HIDE DEF q
    <3> QED  BY <1>d, <2>1, <2>3, <3>1
  <2> QED  BY <2>2, <2>3
<1>6. ASSUME NEW h \in Handles, CreateChildFails(h)
      PROVE  Places'
  <2>1. UNCHANGED <<parser, points, stack, cores>>
    BY <1>6 DEF CreateChildFails
  <2> QED  BY <1>0, <2>1 DEF Places, Rooted, ResetsRoots, Exists, Parent
<1>e. ASSUME NEW q, stack # << >>, parser' = [parser EXCEPT ![Top.handle] = q],
             SamePlace(q, parser[Top.handle]), stack' = SubSeq(stack, 1, Len(stack) - 1),
             UNCHANGED <<points, cores>>
      PROVE  Places'
  <2> DEFINE h == Top.handle
  <2>1. h \in Handles /\ parser[h].status # "none"
    BY <1>e, TopFacts DEF Exists
  <2>2. parser' = [parser EXCEPT ![h] = q] /\ SamePlace(q, parser[h])
    BY <1>e
  <2> HIDE DEF h
  <2>3. \A i \in 1..Len(stack') : i \in 1..Len(stack) /\ stack'[i] = stack[i]
    BY <1>e, PoppedCall
  <2> QED  BY <1>d, <1>e, <2>1, <2>2, <2>3
<1>7. ASSUME ParseReturns
      PROVE  Places'
  <2>1. PICK state \in {"parsing", "finished"} :
          Leave(Top.handle, [parser[Top.handle] EXCEPT !.state = state])
    BY <1>7 DEF ParseReturns
  <2> DEFINE q == [[parser[Top.handle] EXCEPT !.state = state] EXCEPT !.busy = FALSE]
  <2>2. /\ stack # << >> /\ parser' = [parser EXCEPT ![Top.handle] = q]
        /\ stack' = SubSeq(stack, 1, Len(stack) - 1) /\ UNCHANGED <<points, cores>>
    BY <1>7, <2>1 DEF ParseReturns, InCall, Leave
  <2>3. SamePlace(q, parser[Top.handle])
    BY <1>0, <2>2, TopFacts DEF SamePlace, Parsers
  <2> HIDE DEF q
  <2> QED  BY <1>e, <2>2, <2>3
<1>8. ASSUME ParseFinishes
      PROVE  Places'
  <2> DEFINE q == [[parser[Top.handle] EXCEPT !.state = "finished", !.merged = @ \/ Unmerged(Top.handle)]
                   EXCEPT !.busy = FALSE]
  <2>1. /\ stack # << >> /\ parser' = [parser EXCEPT ![Top.handle] = q]
        /\ stack' = SubSeq(stack, 1, Len(stack) - 1) /\ UNCHANGED <<points, cores>>
    BY <1>8 DEF ParseFinishes, InCall, Leave
  <2>2. SamePlace(q, parser[Top.handle])
    BY <1>0, <2>1, TopFacts DEF SamePlace, Parsers
  <2> HIDE DEF q
  <2> QED  BY <1>e, <2>1, <2>2
<1>9. ASSUME ResetFails
      PROVE  Places'
  <2> DEFINE q == [parser[Top.handle] EXCEPT !.busy = FALSE]
  <2>1. /\ stack # << >> /\ parser' = [parser EXCEPT ![Top.handle] = q]
        /\ stack' = SubSeq(stack, 1, Len(stack) - 1) /\ UNCHANGED <<points, cores>>
    BY <1>9 DEF ResetFails, InCall, Leave
  <2>2. SamePlace(q, parser[Top.handle])
    BY <1>0, <2>1, TopFacts DEF SamePlace, Parsers
  <2> HIDE DEF q
  <2> QED  BY <1>e, <2>1, <2>2
<1>10. ASSUME ResetReturns
       PROVE  Places'
  <2>1. /\ stack # << >> /\ Top.op = "reset" /\ stack' = SubSeq(stack, 1, Len(stack) - 1)
        /\ parser' = [parser EXCEPT ![Top.handle] =
             [[parser[Top.handle] EXCEPT !.state = "initialized", !.lifetime = cores + 1,
                  !.core = cores + 1, !.family = cores + 1, !.rootCore = cores + 1]
               EXCEPT !.busy = FALSE]]
    BY <1>10 DEF ResetReturns, InCall, Leave
  <2>2. Top.handle \in Handles /\ Len(stack) \in 1..Len(stack) /\ Top = stack[Len(stack)]
    BY <2>1, TopFacts
  <2>3. parser[Top.handle].depth = 0
    BY <1>0, <2>1, <2>2 DEF ResetsRoots
  <2>4. Rooted'
    BY <1>0, <1>10, <2>3, ResetPlaceKeeps
  <2>5. \A g \in Handles : parser'[g].depth = parser[g].depth
    BY <1>0, <2>1, <2>2 DEF Parsers
  <2>6. \A i \in 1..Len(stack') : i \in 1..Len(stack) /\ stack'[i] = stack[i]
    BY <2>1, PoppedCall
  <2>7. ResetsRoots'
    BY <1>0, <2>5, <2>6, ResetsRootsKept
  <2> QED  BY <2>4, <2>7 DEF Places
<1>11. ASSUME FreeReturns
       PROVE  Places'
  <2>1. /\ stack # << >> /\ stack' = SubSeq(stack, 1, Len(stack) - 1)
        /\ parser' = [parser EXCEPT ![Top.handle] = [Blank EXCEPT !.busy = FALSE]]
    BY <1>11 DEF FreeReturns, InCall, Leave
  <2>2. Top.handle \in Handles
    BY <2>1, TopFacts
  <2>3. \A g \in Handles : parser'[g].depth \in {parser[g].depth, 0}
    BY <1>0, <2>1, <2>2 DEF Blank
  <2>4. \A i \in 1..Len(stack') : i \in 1..Len(stack) /\ stack'[i] = stack[i]
    BY <2>1, PoppedCall
  <2>5. ResetsRoots'
    BY <1>0, <2>3, <2>4, ResetsRootsKept
  <2> QED  BY <1>0, <1>11, <2>5, GonePlaceKeeps DEF Places
<1> QED
  BY <1>1, <1>2, <1>3, <1>4, <1>5, <1>6, <1>7, <1>8, <1>9, <1>10, <1>11 DEF Next

-----------------------------------------------------------------------------
(***************************************************************************)
(* Climbing to the root                                                    *)
(***************************************************************************)

\* One level up, as RootOf climbs.
Above(g) == IF g = NoHandle \/ parser[g].parentLifetime = 0 THEN g ELSE Parent(g)

\* The function that RootOf defines.
Climbs(h, up) ==
  up = [n \in Nat |-> IF n = 0 THEN h
                      ELSE IF up[n - 1] = NoHandle \/ parser[up[n - 1]].parentLifetime = 0
                      THEN up[n - 1]
                      ELSE Parent(up[n - 1])]

LEMMA AboveType ==
  ASSUME Inv, NEW g \in Handles \cup {NoHandle}
  PROVE  Above(g) \in Handles \cup {NoHandle}
<1>1. CASE g = NoHandle
  BY <1>1 DEF Above
<1>2. CASE g # NoHandle
  <2>1. parser[g].parentLifetime \in 0..MaxCores /\ MaxCores \in Nat
    BY <1>2, BoundsAssumption DEF Inv, TypeOK, Parsers, Numbers
  <2>2. parser[g].parentLifetime # 0 => Parent(g) \in Handles \cup {NoHandle}
    BY <2>1 DEF Inv, TypeOK, Parent
  <2> QED  BY <2>2 DEF Above
<1> QED  BY <1>1, <1>2

LEMMA ClimbExists ==
  ASSUME Inv, NEW h \in Handles
  PROVE  \E up : Climbs(h, up)
<1> DEFINE D == Handles \cup {NoHandle}
           step == [g \in D |-> Above(g)]
<1>1. step \in [D -> D] /\ h \in D
  BY AboveType
<1>2. PICK f \in [Nat -> D] : f[0] = h /\ \A n \in Nat : f[n + 1] = step[f[n]]
  <2> HIDE DEF step, D
  <2> QED  BY <1>1, IterationExists
<1> DEFINE value(n) == IF n = 0 THEN h
                       ELSE IF f[n - 1] = NoHandle \/ parser[f[n - 1]].parentLifetime = 0
                       THEN f[n - 1]
                       ELSE Parent(f[n - 1])
<1>3. ASSUME NEW n \in Nat PROVE f[n] = value(n)
  <2>1. CASE n = 0
    BY <1>2, <2>1
  <2>2. CASE n # 0
    <3>1. n - 1 \in Nat /\ (n - 1) + 1 = n
      BY <2>2
    <3>2. f[n - 1] \in D /\ f[n] = step[f[n - 1]]
      BY <1>2, <3>1
    <3>3. f[n] = Above(f[n - 1])
      BY <3>2
    <3> QED  BY <2>2, <3>3 DEF Above
  <2> QED  BY <2>1, <2>2
<1>4. f = [n \in Nat |-> f[n]]
  BY <1>2
<1> HIDE DEF value
<1>5. [n \in Nat |-> f[n]] = [n \in Nat |-> value(n)]
  BY <1>3
<1>6. f = [n \in Nat |-> value(n)]
  BY <1>4, <1>5
<1>7. Climbs(h, f)
  BY <1>6 DEF Climbs, value
<1> QED  BY <1>7

\* RootOf is as many levels up as the handle is deep.
LEMMA RootClimbs ==
  ASSUME Inv, NEW h \in Handles
  PROVE  \E up \in [Nat -> Handles \cup {NoHandle}] :
           /\ RootOf(h) = up[parser[h].depth] /\ up[0] = h
           /\ \A n \in Nat : up[n + 1] = Above(up[n])
<1> DEFINE up == CHOOSE f : Climbs(h, f)
<1>1. RootOf(h) = up[parser[h].depth]
  BY DEF RootOf, Climbs
<1>2. Climbs(h, up)
  BY ClimbExists
<1> HIDE DEF up
<1>3. up[0] = h /\ DOMAIN up = Nat /\ up = [n \in Nat |-> up[n]]
  BY <1>2 DEF Climbs
<1>4. ASSUME NEW n \in Nat PROVE up[n + 1] = Above(up[n])
  <2>1. n + 1 \in Nat /\ n + 1 # 0 /\ (n + 1) - 1 = n
    OBVIOUS
  <2>2. up[n + 1] = IF up[n] = NoHandle \/ parser[up[n]].parentLifetime = 0 THEN up[n]
                    ELSE Parent(up[n])
    BY <1>2, <2>1 DEF Climbs
  <2> QED  BY <2>2 DEF Above
<1> DEFINE S == {n \in Nat : up[n] \in Handles \cup {NoHandle}}
<1>5. S = Nat
  <2>1. 0 \in S /\ \A n \in S : n + 1 \in S
    BY <1>3, <1>4, AboveType
  <2> HIDE DEF S
  <2>2. S \in SUBSET Nat
    BY DEF S
  <2> QED  BY <2>1, <2>2, AllNumbers
<1>6. \A n \in Nat : up[n] \in Handles \cup {NoHandle}
  BY <1>5
<1>7. up \in [Nat -> Handles \cup {NoHandle}]
  BY <1>3, <1>6
<1> QED  BY <1>1, <1>3, <1>4, <1>7

\* What is n levels up, if anything, belongs to the same document.
LEMMA SameDocument ==
  ASSUME Inv, Rooted, NEW h \in Handles, Exists(h), RootOf(h) # NoHandle
  PROVE  parser[RootOf(h)].core = parser[h].rootCore
<1>1. PICK up \in [Nat -> Handles \cup {NoHandle}] :
        /\ RootOf(h) = up[parser[h].depth] /\ up[0] = h
        /\ \A n \in Nat : up[n + 1] = Above(up[n])
  BY RootClimbs
<1> DEFINE Ours(g, n) == /\ parser[g].status # "none" /\ parser[g].depth = parser[h].depth - n
                         /\ parser[g].rootCore = parser[h].rootCore
           S == {n \in Nat : n <= parser[h].depth /\ up[n] # NoHandle => Ours(up[n], n)}
<1>2. /\ points \in [1..MaxCores -> Handles \cup {NoHandle}] /\ MaxCores \in Nat
      /\ cores \in 0..MaxCores /\ parser[h].depth \in Nat
      /\ \A g \in Handles : parser[g].depth \in Nat
  BY BoundsAssumption DEF Inv, TypeOK, Parsers, Numbers
<1>3. 0 \in S
  BY <1>1, <1>2 DEF Exists
<1>4. ASSUME NEW n \in S PROVE n + 1 \in S
  <2>1. SUFFICES ASSUME n + 1 <= parser[h].depth, up[n + 1] # NoHandle
                 PROVE  Ours(up[n + 1], n + 1)
    BY <1>4
  <2>2. up[n + 1] = Above(up[n]) /\ up[n] \in Handles \cup {NoHandle} /\ n \in Nat
    BY <1>1, <1>4
  <2>3. up[n] # NoHandle /\ up[n] \in Handles
    BY <2>1, <2>2 DEF Above
  <2>4. n <= parser[h].depth /\ n < parser[h].depth
    BY <1>2, <2>1, <2>2
  <2>5. Ours(up[n], n)
    BY <1>4, <2>3, <2>4
  <2>6. parser[up[n]].depth # 0
    BY <1>2, <2>2, <2>4, <2>5
  <2>7. /\ parser[up[n]].parentLifetime \in 0..cores /\ parser[up[n]].parentLifetime # 0
        /\ Parent(up[n]) # NoHandle =>
             /\ parser[up[n]].depth = parser[Parent(up[n])].depth + 1
             /\ parser[up[n]].rootCore = parser[Parent(up[n])].rootCore
    BY <2>3, <2>5, <2>6 DEF Rooted, Exists
  <2>8. /\ up[n + 1] = points[parser[up[n]].parentLifetime] /\ up[n + 1] = Parent(up[n])
        /\ parser[up[n]].parentLifetime \in 1..MaxCores
    BY <1>2, <2>2, <2>3, <2>7 DEF Above, Parent
  <2>9. up[n + 1] \in Handles /\ parser[up[n + 1]].status = "live"
    BY <1>2, <2>1, <2>8 DEF Inv, TokensCurrent
  <2>10. /\ parser[up[n]].depth = parser[h].depth - n
         /\ parser[up[n]].depth = parser[up[n + 1]].depth + 1
         /\ parser[up[n]].rootCore = parser[h].rootCore
         /\ parser[up[n]].rootCore = parser[up[n + 1]].rootCore
    BY <2>1, <2>5, <2>7, <2>8
  <2>11. parser[up[n + 1]].depth \in Nat
    BY <1>2, <2>9
  <2>12. parser[up[n + 1]].depth = parser[h].depth - (n + 1)
    <3>1. \A d, e, k \in Nat : d - k = e + 1 => e = d - (k + 1)
      OBVIOUS
    <3>2. parser[h].depth - n = parser[up[n + 1]].depth + 1
      BY <2>10
    <3> QED  BY <1>2, <2>2, <2>11, <3>1, <3>2
  <2> QED  BY <2>9, <2>10, <2>12
<1>5. S = Nat
  <2>1. S \in SUBSET Nat
    OBVIOUS
  <2> HIDE DEF S
  <2> QED  BY <1>3, <1>4, <2>1, AllNumbers
<1>6. Ours(RootOf(h), parser[h].depth) /\ RootOf(h) \in Handles
  <2>1. parser[h].depth \in S
    BY <1>2, <1>5
  <2>2. parser[h].depth <= parser[h].depth /\ up[parser[h].depth] # NoHandle
    BY <1>1, <1>2
  <2>3. Ours(up[parser[h].depth], parser[h].depth)
    BY <2>1, <2>2
  <2>4. up[parser[h].depth] \in Handles
    BY <1>1, <1>2, <2>2
  <2> QED  BY <1>1, <2>3, <2>4
<1>7. parser[RootOf(h)].depth = 0
  BY <1>2, <1>6
<1> QED  BY <1>6, <1>7 DEF Rooted, Exists

-----------------------------------------------------------------------------
(***************************************************************************)
(* The specification                                                       *)
(***************************************************************************)

LEMMA InitInv == Init => Inv
<1> SUFFICES ASSUME Init PROVE Inv
  OBVIOUS
<1>1. /\ parser = [h \in Handles |-> Blank] /\ points = [c \in 1..MaxCores |-> NoHandle]
      /\ children = [c \in 1..MaxCores |-> 0] /\ stack = << >> /\ cores = 0 /\ merges = << >>
  BY DEF Init
<1>2. 0 \in Numbers /\ 0 \in 0..MaxChildren /\ << >> \in Seq(Frames) /\ Len(<< >>) = 0
  BY BoundsAssumption DEF Numbers, Frames
<1>3. TypeOK
  BY <1>1, <1>2, BlankIsParser DEF TypeOK, Frames
<1>4. \A h \in Handles : parser[h].status = "none" /\ parser[h].busy = FALSE
  BY <1>1 DEF Blank
<1>5. TokensCurrent /\ Numbered
  BY <1>1, <1>4 DEF TokensCurrent, Numbered, Exists
<1>6. PinnedWhileBusy /\ Destroyed
  BY <1>1, <1>4 DEF PinnedWhileBusy, Destroyed
<1>7. MergedAtHome /\ Marked
  BY <1>1 DEF MergedAtHome, Marked
<1> QED  BY <1>3, <1>5, <1>6, <1>7 DEF Inv

LEMMA StutterKeeps ==
  ASSUME Inv, UNCHANGED vars
  PROVE  Inv'
BY DEF vars, Inv, TypeOK, TokensCurrent, PinnedWhileBusy, Numbered, Destroyed, MergedAtHome,
       Marked, Exists, Parsers, Numbers

\* A step of Next preserves the invariant.
LEMMA StepKeeps ==
  ASSUME Inv, Next
  PROVE  Inv'
<1>0. parser \in [Handles -> Parsers] /\ children \in [1..MaxCores -> 0..MaxChildren]
  BY DEF Inv, TypeOK
<1>1. ASSUME NEW h \in Handles, Create(h)
      PROVE  Inv'
  <2> DEFINE new == [Blank EXCEPT !.family = cores + 1, !.rootCore = cores + 1]
  <2>1. Place(h, new) /\ children' = children
    BY <1>1 DEF Create
  <2>2. cores + 1 \in Numbers /\ cores + 1 \in 1..(cores + 1)
    BY <2>1, BoundsAssumption DEF Place, Inv, TypeOK, Numbers
  <2>3. /\ new \in Parsers /\ new.busy = FALSE /\ new.family = cores + 1
        /\ new.parentCore = 0 /\ new.parentLifetime = 0
    <3>1. 0 \in Numbers /\ 0 \in 0..MaxDepth
      BY BoundsAssumption DEF Numbers
    <3> QED  BY <2>2, <3>1 DEF Blank, Parsers
  <2> HIDE DEF new
  <2> QED  BY <1>0, <1>1, <2>1, <2>2, <2>3, PlaceKeeps
<1>2. ASSUME NEW h \in Handles, Parse(h)
      PROVE  Inv'
  <2> DEFINE q == [[parser[h] EXCEPT !.state = "parsing"] EXCEPT !.busy = TRUE]
  <2>1. /\ MayEnter(h) /\ parser' = [parser EXCEPT ![h] = q]
        /\ stack' = Append(stack, [handle |-> h, op |-> "parse"])
        /\ UNCHANGED <<points, children, cores, merges>>
    BY <1>2 DEF Parse, Enter
  <2>2. q \in Parsers /\ SameHandle(q, parser[h]) /\ q.busy
    BY <1>0, <1>2 DEF Parsers, SameHandle
  <2> HIDE DEF q
  <2> QED  BY <1>2, <2>1, <2>2, PinKeeps
<1>3. ASSUME NEW h \in Handles, Reset(h)
      PROVE  Inv'
  <2> DEFINE q == [parser[h] EXCEPT !.busy = TRUE]
  <2>1. /\ MayEnter(h) /\ parser' = [parser EXCEPT ![h] = q]
        /\ stack' = Append(stack, [handle |-> h, op |-> "reset"])
        /\ UNCHANGED <<points, children, cores, merges>>
    BY <1>3 DEF Reset, Enter
  <2>2. q \in Parsers /\ SameHandle(q, parser[h]) /\ q.busy
    BY <1>0, <1>3 DEF Parsers, SameHandle
  <2> HIDE DEF q
  <2> QED  BY <1>3, <2>1, <2>2, PinKeeps
<1>4. ASSUME NEW h \in Handles, Free(h)
      PROVE  Inv'
  BY <1>4, FreeKeeps
<1>5. ASSUME NEW h \in Handles, SetHashSalt(h)
      PROVE  Inv'
  <2> DEFINE root == RootOf(h)
             q == [parser[root] EXCEPT !.salted = TRUE]
  <2>1. /\ parser[root].status = "live" /\ ~parser[root].busy /\ parser' = [parser EXCEPT ![root] = q]
        /\ UNCHANGED <<points, children, stack, cores, merges>>
    BY <1>5 DEF SetHashSalt
  <2> HIDE DEF root
  <2>2. CASE root \notin Handles
    <3>1. parser' = parser
      BY <1>0, <2>1, <2>2
    <3> QED  BY <2>1, <3>1, StutterKeeps DEF vars
  <2>3. CASE root \in Handles
    <3>1. /\ q \in Parsers /\ SameHandle(q, parser[root]) /\ q.busy = parser[root].busy
          /\ parser[root].status # "none"
      BY <1>0, <2>1, <2>3 DEF Parsers, SameHandle
    <3> HIDE DEF q
    <3>2. TokensCurrent' /\ Numbered' /\ parser' \in [Handles -> Parsers]
          /\ \A g \in Handles : parser'[g].status = parser[g].status
      BY <2>1, <2>3, <3>1, SameHandleKeeps DEF Exists
    <3>3. MergedAtHome' /\ Marked'
      BY <2>1, <2>3, <3>1, SameHandleMarks
    <3>4. TypeOK'
      BY <2>1, <3>2 DEF Inv, TypeOK
    <3>5. \A g \in Handles : parser'[g].busy = parser[g].busy
      BY <1>0, <2>1, <3>1
    <3>6. \A i \in 1..Len(stack) : stack[i].handle \in Handles
      BY StackFrames
    <3>7. PinnedWhileBusy'
      BY <2>1, <3>2, <3>5, <3>6 DEF Inv, PinnedWhileBusy, Exists
    <3>8. Destroyed'
      BY <2>1, <3>2, <3>5, <3>6 DEF Inv, Destroyed
    <3> QED  BY <3>2, <3>3, <3>4, <3>7, <3>8 DEF Inv
  <2> QED  BY <2>2, <2>3
<1>6. ASSUME NEW p \in Handles, ChargeChild(p)
      PROVE  children' \in [1..MaxCores -> 0..MaxChildren] /\ parser[p].status = "live"
             /\ parser[p].depth + 1 \in 0..MaxDepth
  <2>1. /\ parser[p].status = "live" /\ parser[p].depth < MaxDepth
        /\ children[parser[p].family] < MaxChildren
        /\ children' = [children EXCEPT ![parser[p].family] = @ + 1]
    BY <1>6 DEF ChargeChild, MayCharge
  <2>2. parser[p].family \in 1..cores /\ cores \in 0..MaxCores
    BY <2>1 DEF Inv, Numbered, Exists, TypeOK, Numbers
  <2>3. parser[p].family \in 1..MaxCores
    BY <2>2, BoundsAssumption
  <2>4. parser[p].depth \in 0..MaxDepth
    BY <1>0 DEF Parsers
  <2>5. children[parser[p].family] + 1 \in 0..MaxChildren
    BY <1>0, <2>1, <2>3, BoundsAssumption
  <2>6. children' \in [1..MaxCores -> 0..MaxChildren]
    BY <1>0, <2>1, <2>3, <2>5
  <2>7. parser[p].depth + 1 \in 0..MaxDepth
    BY <2>1, <2>4, BoundsAssumption
  <2> QED  BY <2>1, <2>6, <2>7
<1>7. ASSUME NEW h \in Handles, CreateChildFails(h)
      PROVE  Inv'
  <2>1. UNCHANGED <<parser, points, stack, cores, merges>> /\ ChargeChild(h)
    BY <1>7 DEF CreateChildFails
  <2>2. children' \in [1..MaxCores -> 0..MaxChildren]
    BY <1>6, <2>1
  <2> QED  BY <2>1, <2>2 DEF Inv, TypeOK, TokensCurrent, PinnedWhileBusy, Numbered, Destroyed,
                               MergedAtHome, Marked, Exists
<1>8. ASSUME NEW h \in Handles, NEW p \in Handles, CreateChild(p, h)
      PROVE  Inv'
  <2>1. PICK isSubset \in BOOLEAN :
          Place(h, [Blank EXCEPT !.subset = isSubset, !.depth = parser[p].depth + 1,
                                 !.parentLifetime = parser[p].lifetime, !.family = parser[p].family,
                                 !.parentCore = parser[p].core, !.rootCore = parser[p].rootCore])
    BY <1>8 DEF CreateChild
  <2> DEFINE new == [Blank EXCEPT !.subset = isSubset, !.depth = parser[p].depth + 1,
                                  !.parentLifetime = parser[p].lifetime, !.family = parser[p].family,
                                  !.parentCore = parser[p].core, !.rootCore = parser[p].rootCore]
  <2>2. children' \in [1..MaxCores -> 0..MaxChildren] /\ parser[p].status = "live"
        /\ parser[p].depth + 1 \in 0..MaxDepth
    BY <1>6, <1>8 DEF CreateChild
  <2>3. /\ parser[p].lifetime \in Numbers /\ parser[p].family \in Numbers
        /\ parser[p].core \in Numbers /\ parser[p].rootCore \in Numbers
    BY <1>0 DEF Parsers
  <2>4. /\ parser[p].family \in 1..cores /\ parser[p].core = parser[p].lifetime /\ cores \in Nat
    BY <2>2 DEF Inv, Numbered, Exists, TypeOK, Numbers
  <2>5. /\ new \in Parsers /\ new.busy = FALSE /\ new.family = parser[p].family
        /\ new.parentCore = parser[p].core /\ new.parentLifetime = parser[p].lifetime
    <3>1. 0 \in Numbers
      BY BoundsAssumption DEF Numbers
    <3> QED  BY <2>2, <2>3, <3>1 DEF Blank, Parsers
  <2>6. Place(h, new)
    BY <2>1
  <2> HIDE DEF new
  <2>7. new.family \in 1..(cores + 1) /\ new.parentCore = new.parentLifetime
    BY <2>4, <2>5
  <2> QED  BY <2>2, <2>5, <2>6, <2>7, PlaceKeeps
<1>9. ASSUME ParseReturns
      PROVE  Inv'
  <2>1. PICK state \in {"parsing", "finished"} :
          Leave(Top.handle, [parser[Top.handle] EXCEPT !.state = state])
    BY <1>9 DEF ParseReturns
  <2> DEFINE q == [[parser[Top.handle] EXCEPT !.state = state] EXCEPT !.busy = FALSE]
  <2>2. /\ stack # << >> /\ Top.op = "parse" /\ parser' = [parser EXCEPT ![Top.handle] = q]
        /\ stack' = SubSeq(stack, 1, Len(stack) - 1) /\ UNCHANGED <<points, children, cores, merges>>
    BY <1>9, <2>1 DEF ParseReturns, InCall, Leave
  <2>3. parser[Top.handle] \in Parsers
    BY <1>0, <2>2, TopFacts
  <2>4. q \in Parsers /\ SameHandle(q, parser[Top.handle]) /\ ~q.busy
    BY <2>3 DEF Parsers, SameHandle
  <2> HIDE DEF q
  <2> QED  BY <2>2, <2>4, UnpinKeepsInv
<1>10. ASSUME ResetFails
       PROVE  Inv'
  <2> DEFINE q == [parser[Top.handle] EXCEPT !.busy = FALSE]
  <2>1. /\ stack # << >> /\ Top.op = "reset" /\ parser' = [parser EXCEPT ![Top.handle] = q]
        /\ stack' = SubSeq(stack, 1, Len(stack) - 1) /\ UNCHANGED <<points, children, cores, merges>>
    BY <1>10 DEF ResetFails, InCall, Leave
  <2>2. parser[Top.handle] \in Parsers
    BY <1>0, <2>1, TopFacts
  <2>3. q \in Parsers /\ SameHandle(q, parser[Top.handle]) /\ ~q.busy
    BY <2>2 DEF Parsers, SameHandle
  <2> HIDE DEF q
  <2> QED  BY <2>1, <2>3, UnpinKeepsInv
<1> QED
  BY <1>1, <1>2, <1>3, <1>4, <1>5, <1>7, <1>8, <1>9, <1>10, ResetKeeps, FinishKeeps,
     FreeReturnsKeeps DEF Next

LEMMA Invariance == Spec => []Inv
<1>1. Inv /\ [Next]_vars => Inv'
  BY StepKeeps, StutterKeeps
<1> QED  BY <1>1, InitInv, PTL DEF Spec

\* Every variable keeps its type.
THEOREM TypeCorrect == Spec => []TypeOK
<1>1. Inv => TypeOK
  BY DEF Inv
<1> QED  BY <1>1, Invariance, PTL

\* A token never leads to freed or reused memory.
THEOREM TokensCorrect == Spec => []TokensCurrent
<1>1. Inv => TokensCurrent
  BY DEF Inv
<1> QED  BY <1>1, Invariance, PTL

\* No handle is freed under a call, and no call leaves its guard behind.
THEOREM PinnedCorrect == Spec => []PinnedWhileBusy
<1>1. Inv => PinnedWhileBusy
  BY DEF Inv
<1> QED  BY <1>1, Invariance, PTL

\* An external subset is merged once at most, into the core that asked for it.
THEOREM MergedCorrect == Spec => []MergedAtHome
<1>1. Inv => MergedAtHome
  BY DEF Inv
<1> QED  BY <1>1, Invariance, PTL

LEMMA PlacesInvariance == Spec => [](Inv /\ Places)
<1>1. Init => Inv /\ Places
  <2>1. ASSUME Init PROVE Places
    <3>1. /\ \A h \in Handles : parser[h].status = "none"
          /\ stack = << >> /\ Len(stack) = 0
      BY <2>1 DEF Init, Blank
    <3> QED  BY <3>1 DEF Places, Rooted, ResetsRoots, Exists
  <2> QED  BY <2>1, InitInv
<1>2. Inv /\ Places /\ [Next]_vars => (Inv /\ Places)'
  <2>1. Inv /\ Places /\ UNCHANGED vars => Places'
    BY DEF vars, Places, Rooted, ResetsRoots, Exists, Parent
  <2> QED  BY <2>1, StepKeeps, StutterKeeps, PlacesStep
<1> QED  BY <1>1, <1>2, PTL DEF Spec

\* A child reaches only the document it was made for.  A handle that RootOf finds
\* is the root whose core the child's family was made with, although roots are
\* freed, reset and created again at the same addresses while their children live.
THEOREM OwnDocumentCorrect == Spec => []OwnDocument
<1>1. Inv /\ Places => OwnDocument
  BY SameDocument DEF Inv, Places, OwnDocument
<1> QED  BY <1>1, PlacesInvariance, PTL

=============================================================================
