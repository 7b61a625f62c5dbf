---------------------- MODULE AllocationTrackerProofs ----------------------
(***************************************************************************)
(* Proofs about the byte accounting (module AllocationTracker), for every  *)
(* number of threads, trackers and blocks, all sizes and limits.           *)
(***************************************************************************)
EXTENDS AllocationTracker, FiniteSetTheorems, SequenceTheorems, TLAPS

-----------------------------------------------------------------------------
(***************************************************************************)
(* Sums, as cardinalities                                                  *)
(***************************************************************************)

\* The bytes of one holder.
LEMMA ColumnSize ==
  ASSUME NEW k, NEW n \in Nat
  PROVE  IsFiniteSet({k} \X (1..n)) /\ Cardinality({k} \X (1..n)) = n
<1>1. IsFiniteSet({k}) /\ Cardinality({k}) = 1
  BY FS_Singleton
<1>2. IsFiniteSet(1..n) /\ Cardinality(1..n) = n
  BY FS_Interval
<1>3. /\ IsFiniteSet({k} \X (1..n))
      /\ Cardinality({k} \X (1..n)) = Cardinality({k}) * Cardinality(1..n)
  BY <1>1, <1>2, FS_Product
<1>4. 1 * n = n
  OBVIOUS
<1>. QED  BY <1>1, <1>2, <1>3, <1>4

\* Changing what one holder is charged changes the sum by as much.
LEMMA UnitsChange ==
  ASSUME NEW H, NEW f \in [H -> Nat], NEW g \in [H -> Nat], NEW k \in H,
         \A h \in H \ {k} : f[h] = g[h], IsFiniteSet(Units(f))
  PROVE  /\ IsFiniteSet(Units(g))
         /\ Cardinality(Units(g)) = Cardinality(Units(f)) - f[k] + g[k]
<1>. DEFINE Rest == UNION {{h} \X (1..f[h]) : h \in H \ {k}}
            Col(x) == {k} \X (1..x[k])
<1>1. Units(f) = Rest \cup Col(f) /\ Units(g) = Rest \cup Col(g)
  BY DEF Units
<1>2. Rest \cap Col(f) = {} /\ Rest \cap Col(g) = {}
  OBVIOUS
<1>3. /\ IsFiniteSet(Col(f)) /\ Cardinality(Col(f)) = f[k]
      /\ IsFiniteSet(Col(g)) /\ Cardinality(Col(g)) = g[k]
  BY ColumnSize
<1>. HIDE DEF Rest, Col
<1>4. IsFiniteSet(Rest)
  BY <1>1, FS_Subset
<1>5. Cardinality(Rest) \in Nat
  BY <1>4, FS_CardinalityType
<1>a. ASSUME NEW C, IsFiniteSet(C), Rest \cap C = {}
      PROVE  /\ IsFiniteSet(Rest \cup C)
             /\ Cardinality(Rest \cup C) = Cardinality(Rest) + Cardinality(C)
  <2>1. /\ IsFiniteSet(Rest \cup C)
        /\ Cardinality(Rest \cup C) = Cardinality(Rest) + Cardinality(C) - Cardinality(Rest \cap C)
    BY <1>a, <1>4, FS_Union
  <2>2. Cardinality(Rest \cap C) = 0 /\ Cardinality(C) \in Nat
    BY <1>a, FS_EmptySet, FS_CardinalityType
  <2>. QED  BY <1>5, <2>1, <2>2
<1>6. Cardinality(Units(f)) = Cardinality(Rest) + f[k]
  BY <1>1, <1>2, <1>3, <1>a
<1>7. IsFiniteSet(Units(g)) /\ Cardinality(Units(g)) = Cardinality(Rest) + g[k]
  BY <1>1, <1>2, <1>3, <1>a
<1>. QED  BY <1>5, <1>6, <1>7

\* Moving a charge between two holders keeps the sum.
LEMMA UnitsMove ==
  ASSUME NEW H, NEW f \in [H -> Nat], NEW g \in [H -> Nat], NEW k \in H, NEW m \in H,
         k # m, \A h \in H \ {k, m} : f[h] = g[h], f[k] + f[m] = g[k] + g[m],
         IsFiniteSet(Units(f))
  PROVE  IsFiniteSet(Units(g)) /\ Cardinality(Units(g)) = Cardinality(Units(f))
<1>. DEFINE e == [f EXCEPT ![k] = g[k]]
<1>1. e \in [H -> Nat] /\ e[k] = g[k] /\ e[m] = f[m] /\ \A h \in H \ {k} : f[h] = e[h]
  OBVIOUS
<1>2. \A h \in H \ {m} : e[h] = g[h]
  OBVIOUS
<1>. HIDE DEF e
<1>3. IsFiniteSet(Units(e)) /\ Cardinality(Units(e)) = Cardinality(Units(f)) - f[k] + g[k]
  BY <1>1, UnitsChange
<1>4. /\ IsFiniteSet(Units(g))
      /\ Cardinality(Units(g)) = Cardinality(Units(e)) - f[m] + g[m]
  BY <1>1, <1>2, <1>3, UnitsChange
<1>5. Cardinality(Units(f)) \in Nat /\ f[k] \in Nat /\ f[m] \in Nat /\ g[k] \in Nat /\ g[m] \in Nat
  BY FS_CardinalityType
<1>. QED  BY <1>3, <1>4, <1>5

\* One holder is charged no more than all of them.
LEMMA UnitsBound ==
  ASSUME NEW H, NEW f \in [H -> Nat], NEW k \in H, IsFiniteSet(Units(f))
  PROVE  f[k] <= Cardinality(Units(f)) /\ Cardinality(Units(f)) \in Nat
<1>1. {k} \X (1..f[k]) \subseteq Units(f)
  BY DEF Units
<1>2. Cardinality({k} \X (1..f[k])) = f[k]
  BY ColumnSize
<1>3. Cardinality({k} \X (1..f[k])) <= Cardinality(Units(f))
  BY <1>1, FS_Subset
<1>. QED  BY <1>2, <1>3, FS_CardinalityType

\* Nothing is charged at first.
LEMMA UnitsZero ==
  ASSUME NEW H, NEW f \in [H -> Nat], \A h \in H : f[h] = 0
  PROVE  IsFiniteSet(Units(f)) /\ Cardinality(Units(f)) = 0
<1>1. Units(f) = {}
  BY DEF Units
<1>. QED  BY <1>1, FS_EmptySet

-----------------------------------------------------------------------------
(***************************************************************************)
(* What a thread knows about its block at each step                        *)
(***************************************************************************)

Charging == {"threshold", "factor", "direct", "reserve"}

OpOK(p) ==
  LET o == op[p]
      b == o.block
  IN
  /\ pc[p] = "idle" => o = Nothing
  /\ pc[p] # "idle" => b \in Blocks
  /\ pc[p] \in Charging \cup {"peak", "raw"} =>
       /\ o.size # 0 /\ backing[b] = size[b]
       /\ o.kind = "allocate" => size[b] = 0 /\ o.amount = o.size
       /\ o.kind # "allocate" =>
            /\ size[b] # 0 /\ owner[b] = o.tracker
            /\ o.amount = IF o.size > size[b] THEN o.size - size[b] ELSE 0
  /\ pc[p] \in Charging => o.tracker \in Trackers /\ o.reserved = 0
  /\ pc[p] = "peak" => /\ o.tracker \in Trackers /\ o.reserved = o.amount
                       /\ o.next <= Ceiling
  /\ pc[p] = "raw" => o.reserved = IF o.tracker = NoTracker THEN 0 ELSE o.amount
  /\ pc[p] = "refused" => o.tracker \in Trackers /\ backing[b] = size[b]
  /\ pc[p] = "replaced" => size[b] = o.size /\ (o.reserved # 0 => o.tracker \in Trackers)
  /\ pc[p] = "shrunk" => o.tracker \in Trackers /\ backing[b] = size[b]
  /\ pc[p] = "free" => o.reserved = 0 /\ size[b] = 0

\* No block is in two operations.
Exclusive ==
  \A p, q \in Threads : p # q /\ op[p].block # NoBlock => op[p].block # op[q].block

\* A freed header names no tracker.
Headers == \A b \in Blocks : size[b] = 0 => owner[b] = NoTracker

\* All types but that of the live counts, which follows from the sums.
Types ==
  /\ peak \in [Trackers -> Nat] /\ direct \in [Trackers -> Nat]
  /\ steady \in [Trackers -> BOOLEAN]
  /\ factor \in [Trackers -> Factors] /\ threshold \in [Trackers -> Thresholds]
  /\ owner \in [Blocks -> Trackers \cup {NoTracker}]
  /\ size \in [Blocks -> Nat] /\ backing \in [Blocks -> Nat]
  /\ scope \in [Threads -> Seq(Trackers \cup {NoTracker})]
  /\ pc \in [Threads -> Steps] /\ op \in [Threads -> Operations]

Local == /\ Types /\ \A p \in Threads : OpOK(p)
         /\ Exclusive /\ Headers /\ BlocksIntact

\* The live counts are the sums.
Sums == \A t \in Trackers : /\ IsFiniteSet(Units(Charged(t)))
                            /\ live[t] = Cardinality(Units(Charged(t)))

LEMMA SumsGiveLive ==
  ASSUME Sums, Types, live \in [Trackers -> Int] PROVE live \in [Trackers -> Nat]
BY FS_CardinalityType DEF Sums

LEMMA ChargedType ==
  ASSUME Types, NEW t \in Trackers PROVE Charged(t) \in [Holders -> Nat]
BY DEF Types, Charged, Holders, Operations

\* A step of one thread leaves the others what they know, if it leaves their
\* blocks alone.
LEMMA Others ==
  ASSUME Local, NEW p \in Threads, NEW b,
         \A q \in Threads \ {p} : op'[q] = op[q] /\ pc'[q] = pc[q] /\ op[q].block # b,
         \A c \in Blocks \ {b} :
           owner'[c] = owner[c] /\ size'[c] = size[c] /\ backing'[c] = backing[c]
  PROVE  \A q \in Threads \ {p} : OpOK(q)'
<1>. SUFFICES ASSUME NEW q \in Threads \ {p} PROVE OpOK(q)'
  OBVIOUS
<1>1. OpOK(q) /\ op'[q] = op[q] /\ pc'[q] = pc[q]
  BY DEF Local
<1>2. CASE pc[q] = "idle"
  BY <1>1, <1>2 DEF OpOK, Charging
<1>3. CASE pc[q] # "idle"
  <2>1. op[q].block \in Blocks \ {b}
    BY <1>1, <1>3 DEF OpOK
  <2>2. LET c == op[q].block IN
          owner'[c] = owner[c] /\ size'[c] = size[c] /\ backing'[c] = backing[c]
    BY <2>1
  <2>. QED  BY <1>1, <2>2 DEF OpOK
<1>. QED  BY <1>2, <1>3

LEMMA LocalInit == Init => Local
<1>. SUFFICES ASSUME Init PROVE Local
  OBVIOUS
<1>1. Nothing \in Operations /\ Nothing.block = NoBlock
  BY DEF Nothing, Operations, Kinds
<1>2. Types
  BY <1>1, EmptySeq DEF Init, Types, Steps
<1>3. \A p \in Threads : OpOK(p)
  BY DEF Init, OpOK, Charging
<1>4. Exclusive
  BY <1>1 DEF Init, Exclusive
<1>5. Headers /\ BlocksIntact
  BY DEF Init, Headers, BlocksIntact
<1>. QED  BY <1>2, <1>3, <1>4, <1>5 DEF Local

\* A step of thread p on block b.
LEMMA ThreadStep ==
  ASSUME Local, NEW p \in Threads, NEW b \in Blocks,
         \A q \in Threads \ {p} : op'[q] = op[q] /\ pc'[q] = pc[q] /\ op[q].block # b,
         \A c \in Blocks \ {b} :
           owner'[c] = owner[c] /\ size'[c] = size[c] /\ backing'[c] = backing[c],
         op[p].block \in {NoBlock, b}, op'[p].block \in {NoBlock, b},
         Types', OpOK(p)', size'[b] = 0 => owner'[b] = NoTracker,
         op'[p].block = NoBlock => backing'[b] = size'[b]
  PROVE  Local'
<1>1. \A q \in Threads : OpOK(q)'
  BY Others
<1>2. NoBlock # b
  BY HoldersAssumption
<1>3. Exclusive'
  BY <1>2 DEF Local, Exclusive
<1>4. Headers'
  BY DEF Local, Headers
<1>5. BlocksIntact'
  <2>. SUFFICES ASSUME NEW c \in Blocks, \A q \in Threads : op'[q].block # c
                PROVE  backing'[c] = size'[c]
    BY DEF BlocksIntact
  <2>1. CASE c = b
    BY <2>1
  <2>2. CASE c # b
    <3>1. \A q \in Threads : op[q].block # c
      BY <2>2, HoldersAssumption
    <3>. QED  BY <2>2, <3>1 DEF Local, BlocksIntact
  <2>. QED  BY <2>1, <2>2
<1>. QED  BY <1>1, <1>3, <1>4, <1>5 DEF Local

\* A step that only moves the thread and changes its locals, not its block.
LEMMA LocalMove ==
  ASSUME Local, NEW p \in Threads, UNCHANGED blocks, pc[p] # "idle",
         \A q \in Threads \ {p} : op'[q] = op[q] /\ pc'[q] = pc[q],
         Types', OpOK(p)', op'[p].block \in {NoBlock, op[p].block},
         op'[p].block = NoBlock => backing[op[p].block] = size[op[p].block]
  PROVE  Local'
<1>1. op[p].block \in Blocks
  BY DEF Local, OpOK
<1>2. \A q \in Threads \ {p} : op[q].block # op[p].block
  BY <1>1, HoldersAssumption DEF Local, Exclusive
<1>3. size[op[p].block] = 0 => owner[op[p].block] = NoTracker
  BY <1>1 DEF Local, Headers
<1>. QED  BY <1>1, <1>2, <1>3, ThreadStep DEF blocks

\* Steps that touch neither threads nor blocks.
LEMMA LocalKept ==
  ASSUME Local, UNCHANGED <<blocks, pc, op>>, Types' PROVE Local'
<1>1. \A p \in Threads : OpOK(p)'
  BY DEF Local, OpOK, blocks
<1>. QED  BY <1>1 DEF Local, Exclusive, Headers, BlocksIntact, blocks

LEMMA NothingType == Nothing \in Operations /\ Nothing.block = NoBlock
                     /\ Nothing.reserved = 0 /\ Nothing.tracker = NoTracker
BY DEF Nothing, Operations, Kinds

\* The end of an operation.
LEMMA LocalDone ==
  ASSUME Local, NEW p \in Threads, UNCHANGED blocks, pc[p] # "idle", Done(p),
         backing[op[p].block] = size[op[p].block],
         UNCHANGED <<peak, limits, scope>>
  PROVE  Local'
<1>1. /\ op' = [op EXCEPT ![p] = Nothing] /\ pc' = [pc EXCEPT ![p] = "idle"]
      /\ op \in [Threads -> Operations] /\ pc \in [Threads -> Steps]
  BY DEF Done, Goto, Local, Types
<1>2. op'[p] = Nothing /\ pc'[p] = "idle"
  BY <1>1
<1>3. Types'
  BY <1>1, NothingType DEF Local, Types, Steps, blocks, limits
<1>4. OpOK(p)'
  BY <1>2 DEF OpOK, Charging
<1>5. \A q \in Threads \ {p} : op'[q] = op[q] /\ pc'[q] = pc[q]
  BY <1>1
<1>. QED  BY <1>2, <1>3, <1>4, <1>5, NothingType, LocalMove

LEMMA LocalCharge ==
  ASSUME Local, live \in [Trackers -> Nat], NEW p \in Threads, Charge(p)
  PROVE  Local'
<1>. USE DEF Goto, blocks, limits
<1>t. /\ op \in [Threads -> Operations] /\ pc \in [Threads -> Steps]
      /\ OpOK(p) /\ Types
  BY DEF Local, Types
<1>a. ASSUME NEW o \in Operations, NEW step \in Steps \ {"idle"}, pc[p] # "idle",
             op' = [op EXCEPT ![p] = o], pc' = [pc EXCEPT ![p] = step],
             o.block = op[p].block, OpOK(p)', UNCHANGED <<limits, blocks, scope>>,
             peak' \in [Trackers -> Nat]
      PROVE  Local'
  <2>1. op'[p] = o /\ \A q \in Threads \ {p} : op'[q] = op[q] /\ pc'[q] = pc[q]
    BY <1>a, <1>t
  <2>2. Types'
    BY <1>a, <1>t DEF Types
  <2>3. o.block # NoBlock
    BY <1>a, <1>t, HoldersAssumption DEF OpOK
  <2>. QED  BY <1>a, <2>1, <2>2, <2>3, LocalMove
<1>b. op[p] \in Operations /\ (op[p].tracker \in Trackers =>
        /\ threshold[op[p].tracker] \in Nat /\ factor[op[p].tracker] \in Factors \cup {Infinite}
        /\ direct[op[p].tracker] \in Nat)
  BY <1>t, LimitsAssumption DEF Types
<1>1. CASE LoadThreshold(p)
  <2>. DEFINE o == [op[p] EXCEPT !.threshold = threshold[op[p].tracker]]
  <2>1. /\ pc[p] = "threshold" /\ op' = [op EXCEPT ![p] = o]
        /\ pc' = [pc EXCEPT ![p] = "factor"] /\ UNCHANGED <<peak, limits, blocks, scope>>
    BY <1>1, <1>t DEF LoadThreshold, Load, Operations
  <2>2. o \in Operations /\ o.block = op[p].block
    BY <1>t, <1>b, <2>1 DEF OpOK, Charging, Operations
  <2>3. OpOK(p)'
    BY <1>t, <2>1 DEF OpOK, Charging, Operations
  <2>. QED  BY <1>a, <1>t, <2>1, <2>2, <2>3 DEF Steps, Types
<1>2. CASE LoadFactor(p)
  <2>. DEFINE o == [op[p] EXCEPT !.factor = factor[op[p].tracker]]
  <2>1. /\ pc[p] = "factor" /\ op' = [op EXCEPT ![p] = o]
        /\ pc' = [pc EXCEPT ![p] = "direct"] /\ UNCHANGED <<peak, limits, blocks, scope>>
    BY <1>2, <1>t DEF LoadFactor, Load, Operations
  <2>2. o \in Operations /\ o.block = op[p].block
    BY <1>t, <1>b, <2>1 DEF OpOK, Charging, Operations
  <2>3. OpOK(p)'
    BY <1>t, <2>1 DEF OpOK, Charging, Operations
  <2>. QED  BY <1>a, <1>t, <2>1, <2>2, <2>3 DEF Steps, Types
<1>3. CASE LoadDirect(p)
  <2>. DEFINE o == [op[p] EXCEPT !.direct = direct[op[p].tracker]]
  <2>1. /\ pc[p] = "direct" /\ op' = [op EXCEPT ![p] = o]
        /\ pc' = [pc EXCEPT ![p] = "reserve"] /\ UNCHANGED <<peak, limits, blocks, scope>>
    BY <1>3, <1>t DEF LoadDirect, Load, Operations
  <2>2. o \in Operations /\ o.block = op[p].block
    BY <1>t, <1>b, <2>1 DEF OpOK, Charging, Operations
  <2>3. OpOK(p)'
    BY <1>t, <2>1 DEF OpOK, Charging, Operations
  <2>. QED  BY <1>a, <1>t, <2>1, <2>2, <2>3 DEF Steps, Types
<1>4. CASE Reserve(p)
  <2>1. pc[p] = "reserve" /\ UNCHANGED <<peak, limits, blocks, scope>>
    BY <1>4 DEF Reserve
  <2>2. CASE Done(p)
    BY <1>t, <2>1, <2>2, LocalDone DEF OpOK, Charging
  <2>3. CASE ~Done(p)
    <3>. DEFINE next == live[op[p].tracker] + op[p].amount
                o == [op[p] EXCEPT !.reserved = op[p].amount, !.next = next]
    <3>1. /\ op' = [op EXCEPT ![p].reserved = op[p].amount, ![p].next = next]
          /\ pc' = [pc EXCEPT ![p] = "peak"] /\ next <= Ceiling
      BY <1>4, <2>3 DEF Reserve, Accepts
    <3>2. next \in Nat
      BY <1>t, <2>1 DEF OpOK, Charging, Operations
    <3>3. o \in Operations /\ o.block = op[p].block
      BY <1>b, <3>2 DEF Operations
    <3>4. op' = [op EXCEPT ![p] = o]
      BY <3>1, <1>t DEF Operations
    <3>5. OpOK(p)'
      BY <1>t, <2>1, <3>1, <3>4 DEF OpOK, Charging, Operations
    <3>. QED  BY <1>a, <1>t, <2>1, <3>1, <3>3, <3>4, <3>5 DEF Steps, Types
  <2>. QED  BY <2>2, <2>3
<1>5. CASE RaisePeak(p)
  <2>1. /\ pc[p] = "peak" /\ op' = [op EXCEPT ![p] = op[p]]
        /\ pc' = [pc EXCEPT ![p] = "raw"] /\ UNCHANGED <<limits, blocks, scope>>
    BY <1>5, <1>t DEF RaisePeak
  <2>2. peak' \in [Trackers -> Nat]
    BY <1>5, <1>b, <1>t DEF RaisePeak, Types, Operations
  <2>3. op[p].tracker # NoTracker
    BY <1>t, <2>1, HoldersAssumption DEF OpOK
  <2>4. OpOK(p)'
    BY <1>t, <2>1, <2>3 DEF OpOK, Charging
  <2>. QED  BY <1>a, <1>b, <2>1, <2>2, <2>4 DEF Steps
<1>. QED  BY <1>1, <1>2, <1>3, <1>4, <1>5 DEF Charge

LEMMA LocalRaw ==
  ASSUME Local, NEW p \in Threads, Raw(p) PROVE Local'
<1>. USE DEF Goto, limits
<1>t. /\ op \in [Threads -> Operations] /\ pc \in [Threads -> Steps]
      /\ op[p] \in Operations /\ OpOK(p) /\ Types
  BY DEF Local, Types
<1>u. pc[p] # "idle" => /\ op[p].block \in Blocks /\ op[p].block # NoBlock
                        /\ \A q \in Threads \ {p} : op[q].block # op[p].block
  BY <1>t, HoldersAssumption DEF Local, OpOK, Exclusive
<1>n. NoTracker \notin Trackers
  BY HoldersAssumption
<1>a. ASSUME NEW o \in Operations, NEW step \in Steps, pc[p] # "idle",
             op' = [op EXCEPT ![p] = o], pc' = [pc EXCEPT ![p] = step],
             o.block \in {NoBlock, op[p].block}, OpOK(p)',
             \A c \in Blocks \ {op[p].block} :
               owner'[c] = owner[c] /\ size'[c] = size[c] /\ backing'[c] = backing[c],
             owner' \in [Blocks -> Trackers \cup {NoTracker}],
             size' \in [Blocks -> Nat], backing' \in [Blocks -> Nat],
             size'[op[p].block] = 0 => owner'[op[p].block] = NoTracker,
             o.block = NoBlock => backing'[op[p].block] = size'[op[p].block],
             UNCHANGED <<peak, limits, scope>>
      PROVE  Local'
  <2>1. op'[p] = o /\ \A q \in Threads \ {p} : op'[q] = op[q] /\ pc'[q] = pc[q]
    BY <1>a, <1>t
  <2>2. Types'
    BY <1>a, <1>t DEF Types
  <2>. QED  BY <1>a, <1>u, <2>1, <2>2, ThreadStep
<1>1. CASE RawFails(p)
  <2>1. pc[p] = "raw" /\ UNCHANGED <<peak, limits, blocks, scope>>
    BY <1>1 DEF RawFails
  <2>2. CASE Done(p)
    BY <1>t, <2>1, <2>2, LocalDone DEF OpOK
  <2>3. CASE op[p].reserved # 0 /\ pc' = [pc EXCEPT ![p] = "refused"] /\ UNCHANGED op
    <3>1. op[p].tracker \in Trackers
      BY <1>t, <2>1, <2>3 DEF OpOK, Operations
    <3>2. OpOK(p)'
      BY <1>t, <2>1, <2>3, <3>1 DEF OpOK, Charging, blocks
    <3>3. Types'
      BY <1>t, <2>1, <2>3 DEF Types, Steps, blocks
    <3>. QED  BY <1>t, <1>u, <2>1, <2>3, <3>2, <3>3, LocalMove
  <2>. QED  BY <1>1, <2>2, <2>3 DEF RawFails, DropsReservation
<1>2. CASE RawSucceeds(p)
  <2>. DEFINE o == op[p]
              b == op[p].block
              n == [op[p] EXCEPT !.reserved = Surplus(op[p])]
  <2>1. /\ pc[p] = "raw" /\ owner' = [owner EXCEPT ![b] = o.tracker]
        /\ size' = [size EXCEPT ![b] = o.size]
        /\ backing' = [backing EXCEPT ![b] = IF o.kind = "replace" THEN @ + o.size ELSE o.size]
        /\ UNCHANGED <<peak, limits, scope>>
    BY <1>2 DEF RawSucceeds
  <2>2. b \in Blocks /\ o.size \in Nat \ {0} /\ o.tracker \in Trackers \cup {NoTracker}
    BY <1>t, <1>u, <2>1 DEF OpOK, Operations
  <2>3. /\ owner' \in [Blocks -> Trackers \cup {NoTracker}]
        /\ size' \in [Blocks -> Nat] /\ backing' \in [Blocks -> Nat]
        /\ \A c \in Blocks \ {b} :
             owner'[c] = owner[c] /\ size'[c] = size[c] /\ backing'[c] = backing[c]
        /\ owner'[b] = o.tracker /\ size'[b] = o.size
        /\ backing'[b] = IF o.kind = "replace" THEN backing[b] + o.size ELSE o.size
    BY <1>t, <2>1, <2>2 DEF Types
  <2>4. CASE o.kind = "replace" \/ Surplus(o) # 0
    <3>. DEFINE step == IF o.kind = "replace" THEN "replaced" ELSE "shrunk"
    <3>1. op' = [op EXCEPT ![p].reserved = Surplus(o)] /\ pc' = [pc EXCEPT ![p] = step]
      BY <1>2, <2>4 DEF RawSucceeds
    <3>2. Surplus(o) \in Nat /\ (Surplus(o) # 0 => o.tracker \in Trackers)
      BY <1>t, <2>2 DEF Surplus, Types
    <3>3. n \in Operations /\ n.block = b /\ n.reserved = Surplus(o) /\ n.tracker = o.tracker
          /\ n.size = o.size
      BY <1>t, <3>2 DEF Operations
    <3>4. op' = [op EXCEPT ![p] = n] /\ step \in Steps
      BY <3>1, <1>t DEF Operations, Steps
    <3>5. op'[p] = n /\ pc'[p] = step
      BY <3>1, <3>4, <1>t
    <3>6. OpOK(p)'
      BY <2>2, <2>3, <2>4, <3>2, <3>3, <3>5 DEF OpOK, Charging
    <3>7. /\ pc[p] # "idle" /\ n.block \in {NoBlock, op[p].block} /\ n.block # NoBlock
          /\ pc' = [pc EXCEPT ![p] = step] /\ size'[op[p].block] # 0
      BY <1>u, <2>1, <2>2, <2>3, <3>1, <3>3
    <3>. HIDE DEF n, step
    <3>. QED  BY <1>a, <2>1, <2>3, <3>3, <3>4, <3>6, <3>7
  <2>5. CASE ~(o.kind = "replace" \/ Surplus(o) # 0)
    <3>1. op' = [op EXCEPT ![p] = Nothing] /\ pc' = [pc EXCEPT ![p] = "idle"]
      BY <1>2, <2>5 DEF RawSucceeds, Done
    <3>2. OpOK(p)'
      BY <1>t, <3>1 DEF OpOK, Charging
    <3>. QED  BY <1>a, <1>t, <2>1, <2>2, <2>3, <2>5, <3>1, <3>2, NothingType DEF Steps
  <2>. QED  BY <2>4, <2>5
<1>3. CASE FreeReplaced(p)
  <2>1. /\ pc[p] = "replaced" /\ backing' = [backing EXCEPT ![op[p].block] = op[p].size]
        /\ UNCHANGED <<peak, limits, owner, size, scope>>
    BY <1>3 DEF FreeReplaced
  <2>2. /\ op[p].block \in Blocks /\ op[p].size \in Nat
        /\ backing' \in [Blocks -> Nat] /\ backing'[op[p].block] = size[op[p].block]
        /\ \A c \in Blocks \ {op[p].block} : backing'[c] = backing[c]
    BY <1>t, <1>u, <2>1 DEF OpOK, Operations, Types
  <2>3. CASE op[p].reserved # 0 /\ pc' = [pc EXCEPT ![p] = "shrunk"] /\ UNCHANGED op
    <3>1. OpOK(p)'
      BY <1>t, <1>u, <2>1, <2>2, <2>3 DEF OpOK, Charging
    <3>2. op' = [op EXCEPT ![p] = op[p]]
      BY <1>t, <2>3
    <3>. QED  BY <1>a, <1>t, <1>u, <2>1, <2>2, <2>3, <3>1, <3>2
              DEF Steps, Types, Local, Headers
  <2>4. CASE Done(p)
    <3>1. op' = [op EXCEPT ![p] = Nothing] /\ pc' = [pc EXCEPT ![p] = "idle"]
      BY <2>4 DEF Done
    <3>2. OpOK(p)'
      BY <1>t, <3>1 DEF OpOK, Charging
    <3>. QED  BY <1>a, <1>t, <1>u, <2>1, <2>2, <3>1, <3>2, NothingType
              DEF Steps, Types, Local, Headers
  <2>. QED  BY <1>3, <2>3, <2>4 DEF FreeReplaced
<1>4. CASE Release(p)
  BY <1>4, <1>t, LocalDone DEF Release, OpOK
<1>5. CASE FreeBacking(p)
  <2>1. /\ pc[p] = "free" /\ backing' = [backing EXCEPT ![op[p].block] = 0]
        /\ op' = [op EXCEPT ![p] = Nothing] /\ pc' = [pc EXCEPT ![p] = "idle"]
        /\ UNCHANGED <<peak, limits, owner, size, scope>>
    BY <1>5 DEF FreeBacking, Done
  <2>2. /\ op[p].block \in Blocks /\ backing' \in [Blocks -> Nat]
        /\ backing'[op[p].block] = size[op[p].block]
        /\ \A c \in Blocks \ {op[p].block} : backing'[c] = backing[c]
    BY <1>t, <1>u, <2>1 DEF OpOK, Types
  <2>3. OpOK(p)'
    BY <1>t, <2>1 DEF OpOK, Charging
  <2>. QED  BY <1>a, <1>t, <1>u, <2>1, <2>2, <2>3, NothingType
            DEF Steps, Types, Local, Headers
<1>. QED  BY <1>1, <1>2, <1>3, <1>4, <1>5 DEF Raw

\* A request names a block that no operation has.
LEMMA LocalRequest ==
  ASSUME Local, NEW p \in Threads, NEW b \in Blocks, NEW o \in Operations,
         \A q \in Threads : op[q].block # b, o.block = b, Begin(p, o),
         backing[b] = size[b], o.size # 0, o.reserved = 0,
         o.kind = "allocate" => size[b] = 0 /\ o.amount = o.size,
         o.kind # "allocate" =>
           /\ size[b] # 0 /\ owner[b] = o.tracker
           /\ o.amount = IF o.size > size[b] THEN o.size - size[b] ELSE 0,
         UNCHANGED <<peak, limits, blocks, scope>>
  PROVE  Local'
<1>. DEFINE step == IF o.tracker = NoTracker \/ o.amount = 0 THEN "raw" ELSE "threshold"
<1>1. /\ pc[p] = "idle" /\ op' = [op EXCEPT ![p] = o] /\ pc' = [pc EXCEPT ![p] = step]
      /\ op \in [Threads -> Operations] /\ pc \in [Threads -> Steps] /\ Types /\ OpOK(p)
  BY DEF Begin, Goto, Local, Types
<1>2. op'[p] = o /\ pc'[p] = step /\ \A q \in Threads \ {p} : op'[q] = op[q] /\ pc'[q] = pc[q]
  BY <1>1
<1>3. Types'
  BY <1>1 DEF Types, Steps, blocks, limits
<1>4. o.tracker \in Trackers \cup {NoTracker}
  BY DEF Operations
<1>5. OpOK(p)'
  BY <1>2, <1>4 DEF OpOK, Charging, blocks
<1>6. op[p].block = NoBlock /\ b # NoBlock
  BY <1>1, NothingType, HoldersAssumption DEF OpOK
<1>7. size'[b] = 0 => owner'[b] = NoTracker
  BY DEF Local, Headers, blocks
<1>8. \A c \in Blocks : owner'[c] = owner[c] /\ size'[c] = size[c] /\ backing'[c] = backing[c]
  BY DEF blocks
<1>. QED  BY <1>2, <1>3, <1>5, <1>6, <1>7, <1>8, ThreadStep

LEMMA CurrentTrackerType ==
  ASSUME Types, NEW p \in Threads PROVE CurrentTracker(p) \in Trackers \cup {NoTracker}
<1>1. scope[p] \in Seq(Trackers \cup {NoTracker})
  BY DEF Types
<1>. QED  BY <1>1 DEF CurrentTracker

LEMMA LocalRequests ==
  ASSUME Local, NEW p \in Threads, Requests(p) PROVE Local'
<1>1. PICK b \in Blocks :
        \/ Deallocate(p, b)
        \/ \E n \in Sizes :
             Allocate(p, b, n) \/ Resize(p, b, n, "resize") \/ Resize(p, b, n, "replace")
  BY DEF Requests
<1>t. /\ op \in [Threads -> Operations] /\ pc \in [Threads -> Steps]
      /\ OpOK(p) /\ Types /\ size[b] \in Nat /\ backing[b] \in Nat
      /\ owner[b] \in Trackers \cup {NoTracker}
  BY DEF Local, Types
<1>u. (\A q \in Threads : op[q].block # b) => backing[b] = size[b]
  BY DEF Local, BlocksIntact
<1>2. CASE Deallocate(p, b)
  <2>. DEFINE o == [Nothing EXCEPT !.block = b]
  <2>1. /\ pc[p] = "idle" /\ \A q \in Threads : op[q].block # b
        /\ owner' = [owner EXCEPT ![b] = NoTracker] /\ size' = [size EXCEPT ![b] = 0]
        /\ op' = [op EXCEPT ![p] = o] /\ pc' = [pc EXCEPT ![p] = "free"]
        /\ UNCHANGED <<peak, limits, backing, scope>>
    BY <1>2 DEF Deallocate, Held, Goto
  <2>2. o \in Operations /\ o.block = b /\ o.reserved = 0
    BY DEF Operations, Nothing, Kinds
  <2>. HIDE DEF o
  <2>3. op'[p] = o /\ pc'[p] = "free" /\ \A q \in Threads \ {p} : op'[q] = op[q] /\ pc'[q] = pc[q]
    BY <2>1, <1>t
  <2>4. Types'
    BY <2>1, <2>2, <1>t DEF Types, Steps, limits
  <2>5. size'[b] = 0 /\ owner'[b] = NoTracker
        /\ \A c \in Blocks \ {b} :
             owner'[c] = owner[c] /\ size'[c] = size[c] /\ backing'[c] = backing[c]
    BY <2>1, <1>t DEF Types
  <2>6. OpOK(p)'
    BY <2>2, <2>3, <2>5 DEF OpOK, Charging
  <2>7. op[p].block = NoBlock /\ b # NoBlock
    BY <1>t, <2>1, NothingType, HoldersAssumption DEF OpOK
  <2>. QED  BY <2>1, <2>2, <2>3, <2>4, <2>5, <2>6, <2>7, ThreadStep
<1>3. ASSUME NEW n \in Sizes, Allocate(p, b, n) PROVE Local'
  <2>. DEFINE o == [Nothing EXCEPT !.kind = "allocate", !.block = b, !.size = n,
                                   !.tracker = CurrentTracker(p), !.amount = n]
  <2>1. /\ \A q \in Threads : op[q].block # b
        /\ backing[b] = 0 /\ Begin(p, o) /\ UNCHANGED <<peak, limits, blocks, scope>>
    BY <1>3 DEF Allocate, Free
  <2>2. n \in Nat \ {0} /\ CurrentTracker(p) \in Trackers \cup {NoTracker}
    BY <1>t, SizesAssumption, CurrentTrackerType
  <2>3. /\ o \in Operations /\ o.block = b /\ o.size = n /\ o.amount = n
        /\ o.reserved = 0 /\ o.kind = "allocate"
    BY <2>2 DEF Operations, Nothing, Kinds
  <2>. HIDE DEF o
  <2>4. backing[b] = size[b] /\ size[b] = 0
    BY <1>u, <2>1
  <2>. QED  BY <2>1, <2>2, <2>3, <2>4, LocalRequest
<1>4. ASSUME NEW n \in Sizes, NEW kind \in {"resize", "replace"}, Resize(p, b, n, kind)
      PROVE  Local'
  <2>. DEFINE more == IF n > size[b] THEN n - size[b] ELSE 0
              o == [Nothing EXCEPT !.kind = kind, !.block = b, !.size = n,
                                   !.tracker = owner[b], !.amount = more]
  <2>1. /\ \A q \in Threads : op[q].block # b
        /\ size[b] # 0 /\ Begin(p, o) /\ UNCHANGED <<peak, limits, blocks, scope>>
    BY <1>4 DEF Resize, Held, ChargedTo
  <2>2. n \in Nat \ {0} /\ more \in Nat
    BY <1>t, SizesAssumption
  <2>3. /\ o \in Operations /\ o.block = b /\ o.size = n /\ o.amount = more
        /\ o.reserved = 0 /\ o.kind # "allocate" /\ o.tracker = owner[b]
    BY <1>t, <2>2 DEF Operations, Nothing, Kinds
  <2>. HIDE DEF o
  <2>4. backing[b] = size[b]
    BY <1>u, <2>1
  <2>. QED  BY <2>1, <2>2, <2>3, <2>4, LocalRequest
<1>. QED  BY <1>1, <1>2, <1>3, <1>4

LEMMA LocalRest ==
  ASSUME Local, Application \/ \E p \in Threads : Scopes(p) PROVE Local'
<1>t. Types
  BY DEF Local
<1>1. CASE Application
  <2>1. PICK t \in Trackers :
          \/ ResetDirect(t)
          \/ \E bytes \in Inputs : AddDirect(t, bytes)
          \/ \E f \in Factors : SetFactor(t, f)
          \/ \E bytes \in Thresholds : SetThreshold(t, bytes)
    BY <1>1 DEF Application
  <2>3. /\ direct' \in [Trackers -> Nat]
        /\ factor' \in [Trackers -> Factors] /\ threshold' \in [Trackers -> Thresholds]
        /\ steady' \in [Trackers -> BOOLEAN]
        /\ UNCHANGED <<peak, blocks, scope, pc, op>>
    <3>1. ASSUME NEW bytes \in Inputs, AddDirect(t, bytes)
          PROVE  direct' \in [Trackers -> Nat] /\ UNCHANGED <<peak, factor, threshold, steady, blocks, scope, pc, op>>
      <4>1. direct[t] + bytes \in Nat
        BY <1>t, LimitsAssumption DEF Types
      <4>. QED  BY <1>t, <3>1, <4>1 DEF AddDirect, Types
    <3>2. CASE ResetDirect(t)
      BY <1>t, <3>2 DEF ResetDirect, Types
    <3>3. ASSUME NEW f \in Factors, SetFactor(t, f)
          PROVE  factor' \in [Trackers -> Factors] /\ steady' \in [Trackers -> BOOLEAN]
                 /\ UNCHANGED <<peak, direct, threshold, blocks, scope, pc, op>>
      BY <1>t, <3>3 DEF SetFactor, Types
    <3>4. ASSUME NEW bytes \in Thresholds, SetThreshold(t, bytes)
          PROVE  threshold' \in [Trackers -> Thresholds] /\ steady' \in [Trackers -> BOOLEAN]
                 /\ UNCHANGED <<peak, direct, factor, blocks, scope, pc, op>>
      BY <1>t, <3>4 DEF SetThreshold, Types
    <3>. QED  BY <1>t, <2>1, <3>1, <3>2, <3>3, <3>4 DEF Types
  <2>2. Types' /\ UNCHANGED <<blocks, pc, op>>
    BY <1>t, <2>3 DEF Types, blocks
  <2>. QED  BY <2>2, LocalKept
<1>2. ASSUME NEW p \in Threads, Scopes(p) PROVE Local'
  <2>1. UNCHANGED <<live, peak, limits, blocks, pc, op>>
    BY <1>2 DEF Scopes, Enter, Leave
  <2>2. scope'  \in [Threads -> Seq(Trackers \cup {NoTracker})]
    <3>1. scope[p] \in Seq(Trackers \cup {NoTracker})
      BY <1>t DEF Types
    <3>2. CASE Leave(p)
      <4>1. SubSeq(scope[p], 1, Len(scope[p]) - 1) \in Seq(Trackers \cup {NoTracker})
        BY <3>1, <3>2, SubSeqProperties DEF Leave
      <4>. QED  BY <1>t, <3>2, <4>1 DEF Leave, Types
    <3>3. ASSUME NEW t \in Trackers \cup {NoTracker}, Enter(p, t)
          PROVE  scope' \in [Threads -> Seq(Trackers \cup {NoTracker})]
      <4>1. Append(scope[p], t) \in Seq(Trackers \cup {NoTracker})
        BY <3>1
      <4>. QED  BY <1>t, <3>3, <4>1 DEF Enter, Types
    <3>. QED  BY <1>2, <3>2, <3>3 DEF Scopes
  <2>3. Types'
    BY <1>t, <2>1, <2>2 DEF Types, blocks, limits
  <2>. QED  BY <2>1, <2>3, LocalKept
<1>. QED  BY <1>1, <1>2

-----------------------------------------------------------------------------
(***************************************************************************)
(* The sums                                                                *)
(***************************************************************************)

Inv == Local /\ Sums /\ live \in [Trackers -> Nat]

\* What one tracker is charged may change at one holder.
LEMMA SumChange ==
  ASSUME Inv, Types', NEW t \in Trackers, NEW k \in Holders,
         \A h \in Holders \ {k} : Charged(t)'[h] = Charged(t)[h],
         live'[t] = live[t] - Charged(t)[k] + Charged(t)'[k]
  PROVE  /\ IsFiniteSet(Units(Charged(t)'))
         /\ live'[t] = Cardinality(Units(Charged(t)'))
<1>1. Charged(t) \in [Holders -> Nat]
  BY ChargedType DEF Inv, Local
<1>2. Charged(t)' \in [Holders -> Nat]
  BY DEF Types, Charged, Holders, Operations
<1>3. IsFiniteSet(Units(Charged(t))) /\ live[t] = Cardinality(Units(Charged(t)))
  BY DEF Inv, Sums
<1>. DEFINE f == Charged(t)
            g == Charged(t)'
<1>. HIDE DEF f, g
<1>4. /\ f \in [Holders -> Nat] /\ g \in [Holders -> Nat]
      /\ \A h \in Holders \ {k} : f[h] = g[h]
      /\ IsFiniteSet(Units(f)) /\ live[t] = Cardinality(Units(f))
      /\ live'[t] = live[t] - f[k] + g[k]
  BY <1>1, <1>2, <1>3 DEF f, g
<1>5. IsFiniteSet(Units(g)) /\ Cardinality(Units(g)) = Cardinality(Units(f)) - f[k] + g[k]
  BY <1>4, UnitsChange
<1>6. IsFiniteSet(Units(g)) /\ live'[t] = Cardinality(Units(g))
  BY <1>4, <1>5
<1>. QED  BY <1>6 DEF g

\* A charge may pass from one holder to another.
LEMMA SumMove ==
  ASSUME Inv, Types', NEW t \in Trackers, NEW k \in Holders, NEW m \in Holders, k # m,
         \A h \in Holders \ {k, m} : Charged(t)'[h] = Charged(t)[h],
         Charged(t)[k] + Charged(t)[m] = Charged(t)'[k] + Charged(t)'[m],
         live'[t] = live[t]
  PROVE  /\ IsFiniteSet(Units(Charged(t)'))
         /\ live'[t] = Cardinality(Units(Charged(t)'))
<1>1. Charged(t) \in [Holders -> Nat]
  BY ChargedType DEF Inv, Local
<1>2. Charged(t)' \in [Holders -> Nat]
  BY DEF Types, Charged, Holders, Operations
<1>3. IsFiniteSet(Units(Charged(t))) /\ live[t] = Cardinality(Units(Charged(t)))
  BY DEF Inv, Sums
<1>. DEFINE f == Charged(t)
            g == Charged(t)'
<1>. HIDE DEF f, g
<1>4. /\ f \in [Holders -> Nat] /\ g \in [Holders -> Nat]
      /\ \A h \in Holders \ {k, m} : f[h] = g[h]
      /\ f[k] + f[m] = g[k] + g[m]
      /\ IsFiniteSet(Units(f)) /\ live[t] = Cardinality(Units(f))
  BY <1>1, <1>2, <1>3 DEF f, g
<1>5. IsFiniteSet(Units(g)) /\ Cardinality(Units(g)) = Cardinality(Units(f))
  BY <1>4, UnitsMove
<1>6. IsFiniteSet(Units(g)) /\ live'[t] = Cardinality(Units(g))
  BY <1>4, <1>5
<1>. QED  BY <1>6 DEF g

\* A step that changes no count and no charge.
LEMMA SumsKept ==
  ASSUME Inv, Types', UNCHANGED live,
         \A t \in Trackers : \A h \in Holders : Charged(t)'[h] = Charged(t)[h]
  PROVE  Sums' /\ live' \in [Trackers -> Nat]
<1>1. ASSUME NEW t \in Trackers PROVE Charged(t)' = Charged(t)
  BY DEF Charged
<1>2. ASSUME NEW t \in Trackers
      PROVE  IsFiniteSet(Units(Charged(t)')) /\ live'[t] = Cardinality(Units(Charged(t)'))
  <2>1. IsFiniteSet(Units(Charged(t))) /\ live[t] = Cardinality(Units(Charged(t)))
    BY DEF Inv, Sums
  <2>. QED  BY <1>1, <2>1
<1>3. Sums'
  BY <1>2 DEF Sums
<1>. QED  BY <1>3 DEF Inv

\* The charges of blocks and of threads.
LEMMA ChargedAt ==
  ASSUME NEW t \in Trackers
  PROVE  /\ \A b \in Blocks :
              /\ Charged(t)[b] = IF owner[b] = t THEN size[b] ELSE 0
              /\ Charged(t)'[b] = IF owner'[b] = t THEN size'[b] ELSE 0
         /\ \A p \in Threads :
              /\ Charged(t)[p] = IF op[p].tracker = t THEN op[p].reserved ELSE 0
              /\ Charged(t)'[p] = IF op'[p].tracker = t THEN op'[p].reserved ELSE 0
<1>1. \A p \in Threads : p \notin Blocks
  BY HoldersAssumption
<1>. QED  BY <1>1 DEF Charged, Holders

\* The counts are natural numbers since they are cardinalities.
LEMMA SumsNext ==
  ASSUME live' \in [Trackers -> Int],
         \A t \in Trackers : /\ IsFiniteSet(Units(Charged(t)'))
                             /\ live'[t] = Cardinality(Units(Charged(t)'))
  PROVE  Sums' /\ live' \in [Trackers -> Nat]
<1>1. Sums'
  BY DEF Sums
<1>2. \A t \in Trackers : live'[t] \in Nat
  BY FS_CardinalityType
<1>. QED  BY <1>1, <1>2

\* A step of a thread that changes neither counts nor blocks, nor what the
\* thread has reserved.
LEMMA ThreadSumsKept ==
  ASSUME Inv, Types', NEW p \in Threads, UNCHANGED <<live, owner, size>>,
         \A q \in Threads \ {p} : op'[q] = op[q],
         \/ op'[p].reserved = op[p].reserved /\ op'[p].tracker = op[p].tracker
         \/ /\ op[p].reserved = 0 \/ op[p].tracker = NoTracker
            /\ op'[p].reserved = 0 \/ op'[p].tracker = NoTracker
  PROVE  Sums' /\ live' \in [Trackers -> Nat]
<1>1. ASSUME NEW t \in Trackers, NEW h \in Holders PROVE Charged(t)'[h] = Charged(t)[h]
  <2>1. CASE h \in Blocks
    BY <2>1, ChargedAt
  <2>2. CASE h \in Threads
    <3>1. t # NoTracker
      BY HoldersAssumption
    <3>2. /\ Charged(t)[h] = IF op[h].tracker = t THEN op[h].reserved ELSE 0
          /\ Charged(t)'[h] = IF op'[h].tracker = t THEN op'[h].reserved ELSE 0
      BY <2>2, ChargedAt
    <3>. QED  BY <2>2, <3>1, <3>2
  <2>. QED  BY <2>1, <2>2 DEF Holders
<1>. QED  BY <1>1, SumsKept

LEMMA SumsRequests ==
  ASSUME Inv, Types', NEW p \in Threads, Requests(p)
  PROVE  Sums' /\ live' \in [Trackers -> Nat]
<1>1. PICK b \in Blocks :
        \/ Deallocate(p, b)
        \/ \E n \in Sizes :
             Allocate(p, b, n) \/ Resize(p, b, n, "resize") \/ Resize(p, b, n, "replace")
  BY DEF Requests
<1>t. /\ op \in [Threads -> Operations] /\ OpOK(p) /\ Types /\ live \in [Trackers -> Nat]
      /\ size[b] \in Nat /\ owner[b] \in Trackers \cup {NoTracker}
  BY DEF Inv, Local, Types
<1>2. CASE Deallocate(p, b)
  <2>1. /\ pc[p] = "idle"
        /\ owner' = [owner EXCEPT ![b] = NoTracker] /\ size' = [size EXCEPT ![b] = 0]
        /\ op' = [op EXCEPT ![p] = [Nothing EXCEPT !.block = b]]
        /\ live' = IF owner[b] = NoTracker THEN live
                   ELSE [live EXCEPT ![owner[b]] = @ - size[b]]
    BY <1>2 DEF Deallocate
  <2>2. /\ \A c \in Blocks \ {b} : owner'[c] = owner[c] /\ size'[c] = size[c]
        /\ owner'[b] = NoTracker /\ size'[b] = 0
        /\ \A q \in Threads \ {p} : op'[q] = op[q]
        /\ op[p].reserved = 0 /\ op'[p].reserved = 0
    BY <1>t, <2>1, NothingType DEF Types, OpOK, Nothing
  <2>3. live' \in [Trackers -> Int]
    BY <1>t, <2>1
  <2>4. ASSUME NEW t \in Trackers
        PROVE  /\ IsFiniteSet(Units(Charged(t)'))
               /\ live'[t] = Cardinality(Units(Charged(t)'))
    <3>1. t # NoTracker
      BY HoldersAssumption
    <3>2. /\ Charged(t)[b] = IF owner[b] = t THEN size[b] ELSE 0
          /\ Charged(t)'[b] = 0
      BY <2>2, <3>1, ChargedAt
    <3>3. live'[t] = live[t] - Charged(t)[b] + Charged(t)'[b]
      BY <1>t, <2>1, <3>1, <3>2
    <3>4. ASSUME NEW h \in Holders \ {b} PROVE Charged(t)'[h] = Charged(t)[h]
      <4>1. CASE h \in Blocks
        BY <4>1, <2>2, ChargedAt
      <4>2. CASE h \in Threads
        BY <4>2, <2>2, ChargedAt
      <4>. QED  BY <4>1, <4>2 DEF Holders
    <3>. QED  BY <3>3, <3>4, SumChange DEF Holders
  <2>. QED  BY <2>3, <2>4, SumsNext
<1>3. ASSUME NEW o, Begin(p, o), o.reserved = 0, UNCHANGED <<live, blocks>>
      PROVE  Sums' /\ live' \in [Trackers -> Nat]
  <2>1. op' = [op EXCEPT ![p] = o] /\ pc[p] = "idle" /\ UNCHANGED <<live, owner, size>>
    BY <1>3 DEF Begin, blocks
  <2>2. /\ op'[p] = o /\ \A q \in Threads \ {p} : op'[q] = op[q]
        /\ op[p].reserved = 0
    BY <1>t, <2>1, NothingType DEF OpOK
  <2>. QED  BY <1>3, <2>1, <2>2, ThreadSumsKept
<1>4. ASSUME NEW n \in Sizes, Allocate(p, b, n) PROVE Sums' /\ live' \in [Trackers -> Nat]
  BY <1>3, <1>4 DEF Allocate, Nothing
<1>5. ASSUME NEW n \in Sizes, NEW kind, Resize(p, b, n, kind)
      PROVE  Sums' /\ live' \in [Trackers -> Nat]
  BY <1>3, <1>5 DEF Resize, Nothing
<1>. QED  BY <1>1, <1>2, <1>4, <1>5

\* A step of a thread that changes one count by what it reserves or gives up.
LEMMA ThreadSumsChange ==
  ASSUME Inv, Types', NEW p \in Threads, UNCHANGED <<owner, size>>,
         \A q \in Threads \ {p} : op'[q] = op[q],
         live' \in [Trackers -> Int],
         \A t \in Trackers : live'[t] = live[t] - Charged(t)[p] + Charged(t)'[p]
  PROVE  Sums' /\ live' \in [Trackers -> Nat]
<1>1. ASSUME NEW t \in Trackers
      PROVE  /\ IsFiniteSet(Units(Charged(t)'))
             /\ live'[t] = Cardinality(Units(Charged(t)'))
  <2>1. ASSUME NEW h \in Holders \ {p} PROVE Charged(t)'[h] = Charged(t)[h]
    <3>1. CASE h \in Blocks
      BY <3>1, ChargedAt
    <3>2. CASE h \in Threads
      BY <3>2, ChargedAt
    <3>. QED  BY <3>1, <3>2 DEF Holders
  <2>. QED  BY <2>1, SumChange DEF Holders
<1>. QED  BY <1>1, SumsNext

LEMMA SumsCharge ==
  ASSUME Inv, Types', NEW p \in Threads, Charge(p)
  PROVE  Sums' /\ live' \in [Trackers -> Nat]
<1>t. /\ op \in [Threads -> Operations] /\ op[p] \in Operations
      /\ OpOK(p) /\ Types /\ live \in [Trackers -> Nat]
  BY DEF Inv, Local, Types
<1>1. CASE LoadThreshold(p) \/ LoadFactor(p) \/ LoadDirect(p)
  <2>1. UNCHANGED <<live, owner, size>>
    BY <1>1 DEF LoadThreshold, LoadFactor, LoadDirect, Load, blocks
  <2>2. /\ \A q \in Threads \ {p} : op'[q] = op[q]
        /\ op'[p].reserved = op[p].reserved /\ op'[p].tracker = op[p].tracker
    BY <1>1, <1>t DEF LoadThreshold, LoadFactor, LoadDirect, Load, Operations
  <2>. QED  BY <2>1, <2>2, ThreadSumsKept
<1>2. CASE Reserve(p)
  <2>. DEFINE next == live[op[p].tracker] + op[p].amount
  <2>1. /\ pc[p] = "reserve" /\ UNCHANGED <<owner, size>>
        /\ op[p].tracker \in Trackers /\ op[p].reserved = 0 /\ op[p].amount \in Nat
    BY <1>2, <1>t DEF Reserve, blocks, OpOK, Charging, Operations
  <2>2. CASE Done(p) /\ UNCHANGED live
    <3>1. op'[p] = Nothing /\ \A q \in Threads \ {p} : op'[q] = op[q]
      BY <1>t, <2>2 DEF Done
    <3>. QED  BY <2>1, <2>2, <3>1, NothingType, ThreadSumsKept
  <2>3. CASE /\ live' = [live EXCEPT ![op[p].tracker] = next]
             /\ op' = [op EXCEPT ![p].reserved = op[p].amount, ![p].next = next]
    <3>1. /\ op'[p].reserved = op[p].amount /\ op'[p].tracker = op[p].tracker
          /\ \A q \in Threads \ {p} : op'[q] = op[q]
      BY <1>t, <2>3 DEF Operations
    <3>2. live' \in [Trackers -> Int]
      BY <1>t, <2>1, <2>3
    <3>3. ASSUME NEW t \in Trackers
          PROVE  live'[t] = live[t] - Charged(t)[p] + Charged(t)'[p]
      <4>1. /\ Charged(t)[p] = 0
            /\ Charged(t)'[p] = IF op[p].tracker = t THEN op[p].amount ELSE 0
        BY <2>1, <3>1, ChargedAt
      <4>. QED  BY <1>t, <2>1, <2>3, <4>1
    <3>. QED  BY <2>1, <3>1, <3>2, <3>3, ThreadSumsChange
  <2>. QED  BY <1>2, <2>2, <2>3 DEF Reserve
<1>3. CASE RaisePeak(p)
  <2>1. UNCHANGED <<live, owner, size, op>>
    BY <1>3 DEF RaisePeak, blocks
  <2>. QED  BY <2>1, ThreadSumsKept
<1>. QED  BY <1>1, <1>2, <1>3 DEF Charge

LEMMA SumsRaw ==
  ASSUME Inv, Types', NEW p \in Threads, Raw(p)
  PROVE  Sums' /\ live' \in [Trackers -> Nat]
<1>t. /\ op \in [Threads -> Operations] /\ op[p] \in Operations
      /\ OpOK(p) /\ Types /\ live \in [Trackers -> Nat]
  BY DEF Inv, Local, Types
<1>d. Done(p) => op'[p] = Nothing /\ \A q \in Threads \ {p} : op'[q] = op[q]
  BY <1>t DEF Done
<1>1. CASE RawFails(p)
  <2>1. UNCHANGED <<live, owner, size>>
    BY <1>1 DEF RawFails, blocks
  <2>2. CASE UNCHANGED op
    BY <2>1, <2>2, ThreadSumsKept
  <2>3. CASE Done(p) /\ op[p].reserved = 0
    BY <1>d, <2>1, <2>3, NothingType, ThreadSumsKept
  <2>. QED  BY <1>1, <2>2, <2>3 DEF RawFails, DropsReservation
<1>2. CASE RawSucceeds(p)
  <2>. DEFINE o == op[p]
              b == op[p].block
  <2>1. /\ pc[p] = "raw" /\ b \in Blocks /\ p # b
        /\ owner' = [owner EXCEPT ![b] = o.tracker] /\ size' = [size EXCEPT ![b] = o.size]
        /\ UNCHANGED live
    BY <1>2, <1>t, HoldersAssumption DEF RawSucceeds, OpOK
  <2>2. /\ owner'[b] = o.tracker /\ size'[b] = o.size
        /\ \A c \in Blocks \ {b} : owner'[c] = owner[c] /\ size'[c] = size[c]
    BY <1>t, <2>1 DEF Types
  <2>3. /\ \A q \in Threads \ {p} : op'[q] = op[q]
        /\ \A t \in Trackers :
             (IF op'[p].tracker = t THEN op'[p].reserved ELSE 0) =
               IF o.tracker = t THEN Surplus(o) ELSE 0
    <3>1. CASE Done(p) /\ Surplus(o) = 0
      <4>1. \A t \in Trackers : t # NoTracker
        BY HoldersAssumption
      <4>. QED  BY <1>d, <3>1, <4>1, NothingType
    <3>2. CASE op' = [op EXCEPT ![p].reserved = Surplus(o)]
      BY <1>t, <3>2 DEF Operations
    <3>. QED  BY <1>2, <3>1, <3>2 DEF RawSucceeds
  <2>4. ASSUME NEW t \in Trackers
        PROVE  /\ IsFiniteSet(Units(Charged(t)'))
               /\ live'[t] = Cardinality(Units(Charged(t)'))
    <3>1. /\ Charged(t)[p] = IF o.tracker = t THEN o.reserved ELSE 0
          /\ Charged(t)'[p] = IF o.tracker = t THEN Surplus(o) ELSE 0
          /\ Charged(t)[b] = IF owner[b] = t THEN size[b] ELSE 0
          /\ Charged(t)'[b] = IF o.tracker = t THEN o.size ELSE 0
      BY <2>1, <2>2, <2>3, ChargedAt
    <3>2. /\ size[b] \in Nat /\ o.size \in Nat /\ t # NoTracker
          /\ o.reserved = IF o.tracker = NoTracker THEN 0 ELSE o.amount
          /\ o.kind = "allocate" => size[b] = 0 /\ o.amount = o.size
          /\ o.kind # "allocate" =>
               /\ owner[b] = o.tracker
               /\ o.amount = IF o.size > size[b] THEN o.size - size[b] ELSE 0
      BY <1>t, <2>1, HoldersAssumption DEF OpOK, Types, Operations
    <3>3. Charged(t)[p] + Charged(t)[b] = Charged(t)'[p] + Charged(t)'[b]
      <4>1. CASE o.kind = "allocate"
        BY <3>1, <3>2, <4>1 DEF Surplus
      <4>2. CASE o.kind # "allocate" /\ o.tracker # t
        BY <3>1, <3>2, <4>2
      <4>3. CASE o.kind # "allocate" /\ o.tracker = t
        BY <3>1, <3>2, <4>3 DEF Surplus
      <4>. QED  BY <4>1, <4>2, <4>3
    <3>4. ASSUME NEW h \in Holders \ {p, b} PROVE Charged(t)'[h] = Charged(t)[h]
      <4>1. CASE h \in Blocks
        BY <4>1, <2>2, ChargedAt
      <4>2. CASE h \in Threads
        BY <4>2, <2>3, ChargedAt
      <4>. QED  BY <4>1, <4>2 DEF Holders
    <3>. QED  BY <2>1, <3>3, <3>4, SumMove DEF Holders
  <2>5. live' \in [Trackers -> Int]
    BY <1>t, <2>1
  <2>. QED  BY <2>4, <2>5, SumsNext
<1>3. CASE FreeReplaced(p)
  <2>1. UNCHANGED <<live, owner, size>>
    BY <1>3 DEF FreeReplaced
  <2>2. CASE UNCHANGED op
    BY <2>1, <2>2, ThreadSumsKept
  <2>3. CASE Done(p) /\ op[p].reserved = 0
    BY <1>d, <2>1, <2>3, NothingType, ThreadSumsKept
  <2>. QED  BY <1>3, <2>2, <2>3 DEF FreeReplaced
<1>4. CASE Release(p)
  <2>1. /\ live' = [live EXCEPT ![op[p].tracker] = @ - op[p].reserved]
        /\ Done(p) /\ UNCHANGED <<owner, size>> /\ op[p].tracker \in Trackers
    BY <1>4, <1>t DEF Release, blocks, OpOK
  <2>2. op[p].reserved \in Nat
    BY <1>t DEF Operations
  <2>3. live' \in [Trackers -> Int]
    BY <1>t, <2>1, <2>2
  <2>4. ASSUME NEW t \in Trackers
        PROVE  live'[t] = live[t] - Charged(t)[p] + Charged(t)'[p]
    <3>1. t # NoTracker
      BY HoldersAssumption
    <3>2. /\ Charged(t)[p] = IF op[p].tracker = t THEN op[p].reserved ELSE 0
          /\ Charged(t)'[p] = 0
      BY <1>d, <2>1, <3>1, NothingType, ChargedAt
    <3>. QED  BY <1>t, <2>1, <2>2, <3>2
  <2>. QED  BY <1>d, <2>1, <2>3, <2>4, ThreadSumsChange
<1>5. CASE FreeBacking(p)
  <2>1. UNCHANGED <<live, owner, size>> /\ Done(p) /\ op[p].reserved = 0
    BY <1>5, <1>t DEF FreeBacking, OpOK
  <2>. QED  BY <1>d, <2>1, NothingType, ThreadSumsKept
<1>. QED  BY <1>1, <1>2, <1>3, <1>4, <1>5 DEF Raw

-----------------------------------------------------------------------------
(***************************************************************************)
(* The invariant and what follows from it                                  *)
(***************************************************************************)

LEMMA InvInit == Init => Inv
<1>. SUFFICES ASSUME Init PROVE Inv
  OBVIOUS
<1>1. Local
  BY LocalInit
<1>2. live \in [Trackers -> Nat]
  BY DEF Init
<1>3. Sums
  <2>. SUFFICES ASSUME NEW t \in Trackers
                PROVE  IsFiniteSet(Units(Charged(t))) /\ live[t] = Cardinality(Units(Charged(t)))
    BY DEF Sums
  <2>1. Charged(t) \in [Holders -> Nat] /\ \A h \in Holders : Charged(t)[h] = 0
    <3>1. Charged(t) \in [Holders -> Nat]
      BY <1>1, ChargedType DEF Local
    <3>2. \A b \in Blocks : Charged(t)[b] = 0
      BY ChargedAt DEF Init
    <3>3. \A p \in Threads : Charged(t)[p] = 0
      BY ChargedAt, NothingType DEF Init
    <3>. QED  BY <3>1, <3>2, <3>3 DEF Holders
  <2>. QED  BY <2>1, UnitsZero DEF Init
<1>. QED  BY <1>1, <1>2, <1>3 DEF Inv

LEMMA InvNext == Inv /\ [Next]_vars => Inv'
<1>. SUFFICES ASSUME Inv, [Next]_vars PROVE Inv'
  OBVIOUS
<1>l. Local /\ live \in [Trackers -> Nat]
  BY DEF Inv
<1>1. CASE UNCHANGED vars
  BY <1>1 DEF vars, limits, blocks, Inv, Local, Types, OpOK, Exclusive, Headers,
              BlocksIntact, Sums, Charged
<1>2. CASE Application \/ \E p \in Threads : Scopes(p)
  <2>1. Local'
    BY <1>2, <1>l, LocalRest
  <2>2. UNCHANGED <<live, owner, size, op>>
    BY <1>2 DEF Application, AddDirect, ResetDirect, SetFactor, SetThreshold,
                Scopes, Enter, Leave, blocks
  <2>3. Types'
    BY <2>1 DEF Local
  <2>4. \A t \in Trackers : \A h \in Holders : Charged(t)'[h] = Charged(t)[h]
    BY <2>2, ChargedAt DEF Holders
  <2>. QED  BY <2>1, <2>2, <2>3, <2>4, SumsKept DEF Inv
<1>3. ASSUME NEW p \in Threads, Requests(p) \/ Charge(p) \/ Raw(p) PROVE Inv'
  <2>1. Local'
    BY <1>3, <1>l, LocalRequests, LocalCharge, LocalRaw
  <2>2. Types'
    BY <2>1 DEF Local
  <2>3. Sums' /\ live' \in [Trackers -> Nat]
    BY <1>3, <2>2, SumsRequests, SumsCharge, SumsRaw
  <2>. QED  BY <2>1, <2>3 DEF Inv
<1>. QED  BY <1>1, <1>2, <1>3 DEF Next

LEMMA InvAlways == Spec => []Inv
BY InvInit, InvNext, PTL DEF Spec

\* Every variable keeps its type: the live counts never go below zero.
THEOREM TypeCorrect == Spec => []TypeOK
<1>1. Inv => TypeOK
  BY DEF Inv, Local, Types, TypeOK
<1>. QED  BY <1>1, InvAlways, PTL

\* Every byte counted is the byte of a block or of a call in progress, once
\* (AllocationTracker::charge and release, Charge::commit and drop).
THEOREM AccountedCorrect == Spec => []Accounted
<1>1. Inv => Accounted
  BY DEF Inv, Sums, Accounted
<1>. QED  BY <1>1, InvAlways, PTL

\* The assertion of AllocationTracker::release never fails.
THEOREM NoUnderflowCorrect == Spec => []NoUnderflow
<1>1. Inv => NoUnderflow
  <2>. SUFFICES ASSUME Inv PROVE NoUnderflow
    OBVIOUS
  <2>1. ASSUME NEW t \in Trackers, NEW h \in Holders PROVE live[t] >= Charged(t)[h]
    <3>1. Charged(t) \in [Holders -> Nat]
      BY ChargedType DEF Inv, Local
    <3>2. IsFiniteSet(Units(Charged(t))) /\ live[t] = Cardinality(Units(Charged(t)))
      BY DEF Inv, Sums
    <3>3. Charged(t)[h] <= Cardinality(Units(Charged(t))) /\ Cardinality(Units(Charged(t))) \in Nat
      BY <3>1, <3>2, UnitsBound
    <3>. QED  BY <3>1, <3>2, <3>3
  <2>2. ASSUME NEW p \in Threads, pc[p] \in {"refused", "shrunk"}
        PROVE  live[op[p].tracker] >= op[p].reserved
    <3>1. op[p].tracker \in Trackers
      BY <2>2 DEF Inv, Local, OpOK
    <3>2. Charged(op[p].tracker)[p] = op[p].reserved
      BY <3>1, ChargedAt
    <3>. QED  BY <2>1, <3>1, <3>2 DEF Holders
  <2>3. ASSUME NEW b \in Blocks, owner[b] # NoTracker PROVE live[owner[b]] >= size[b]
    <3>1. owner[b] \in Trackers
      BY <2>3 DEF Inv, Local, Types
    <3>2. Charged(owner[b])[b] = size[b]
      BY <3>1, ChargedAt
    <3>. QED  BY <2>1, <3>1, <3>2 DEF Holders
  <2>. QED  BY <2>2, <2>3 DEF NoUnderflow
<1>. QED  BY <1>1, InvAlways, PTL

\* A failed operation leaves a block's memory as it was (Allocator::resize).
THEOREM BlocksIntactCorrect == Spec => []BlocksIntact
<1>1. Inv => BlocksIntact
  BY DEF Inv, Local
<1>. QED  BY <1>1, InvAlways, PTL

LEMMA CeilingStep == ASSUME Inv, CeilingKept, [Next]_vars PROVE CeilingKept'
<1>t. /\ live \in [Trackers -> Nat] /\ peak \in [Trackers -> Nat] /\ Types
      /\ Ceiling \in Nat
  BY SizesAssumption DEF Inv, Local, Types
<1>1. CASE UNCHANGED <<live, peak>>
  BY <1>1 DEF CeilingKept
<1>2. ASSUME NEW p \in Threads, Reserve(p) PROVE CeilingKept'
  BY <1>2, <1>t DEF CeilingKept, Reserve, Accepts
<1>3. ASSUME NEW p \in Threads, RaisePeak(p) PROVE CeilingKept'
  <2>1. op[p].next <= Ceiling
    BY <1>3 DEF RaisePeak, Inv, Local, OpOK
  <2>. QED  BY <1>3, <1>t, <2>1 DEF CeilingKept, RaisePeak
<1>4. ASSUME NEW p \in Threads, Release(p) PROVE CeilingKept'
  <2>1. op[p].reserved \in Nat
    BY DEF Inv, Local, Types, Operations
  <2>. QED  BY <1>4, <1>t, <2>1 DEF CeilingKept, Release
<1>5. ASSUME NEW p \in Threads, NEW b \in Blocks, Deallocate(p, b) PROVE CeilingKept'
  <2>1. size[b] \in Nat
    BY <1>t DEF Types
  <2>. QED  BY <1>5, <1>t, <2>1 DEF CeilingKept, Deallocate
<1>. QED
  <2>1. CASE UNCHANGED vars \/ Application
    BY <1>1, <2>1 DEF vars, Application, AddDirect, ResetDirect, SetFactor, SetThreshold
  <2>2. ASSUME NEW p \in Threads, Scopes(p) \/ Requests(p) PROVE CeilingKept'
    BY <1>1, <1>5, <2>2 DEF Scopes, Enter, Leave, Requests, Allocate, Resize
  <2>3. ASSUME NEW p \in Threads, Charge(p) \/ Raw(p) PROVE CeilingKept'
    BY <1>1, <1>2, <1>3, <1>4, <2>3
       DEF Charge, Raw, LoadThreshold, LoadFactor, LoadDirect, Load,
           RawFails, RawSucceeds, FreeReplaced, FreeBacking
  <2>. QED  BY <2>1, <2>2, <2>3 DEF Next

\* Neither the live count nor the peak passes MAXIMUM_LIVE_BYTES, whatever
\* limits the application sets meanwhile.
THEOREM CeilingCorrect == Spec => []CeilingKept
<1>1. Init => CeilingKept
  BY SizesAssumption DEF Init, CeilingKept
<1>2. Inv /\ CeilingKept /\ [Next]_vars => CeilingKept'
  BY CeilingStep
<1>. QED  BY <1>1, <1>2, InvAlways, PTL DEF Spec

-----------------------------------------------------------------------------
(***************************************************************************)
(* Arithmetic with f32                                                     *)
(***************************************************************************)

\* The numbers that are converted.
Counts == (0..Ceiling) \cup (0..MaxDirect)

\* Products, with the larger factor last.
LEMMA Times ==
  ASSUME NEW f \in Nat, NEW d \in Nat
  PROVE  /\ f * d \in Nat /\ d * f = f * d
         /\ \A e \in Nat : d <= e => f * d <= f * e
         /\ \A e \in Nat : d < e => f * d + f <= f * e
         /\ \A e \in Nat : f * (d + e) = f * d + f * e
         /\ \A e \in Nat : d <= e => \E k \in Nat : e = d + k /\ f * e = f * d + f * k
<1>1. f * d \in Nat /\ d * f = f * d
  OBVIOUS
<1>2. \A e \in Nat : f * (d + e) = f * d + f * e /\ f * e \in Nat
  OBVIOUS
<1>3. \A e \in Nat : d <= e => \E k \in Nat : e = d + k /\ f * e = f * d + f * k
  <2>1. SUFFICES ASSUME NEW e \in Nat, d <= e PROVE \E k \in Nat : e = d + k /\ f * e = f * d + f * k
    OBVIOUS
  <2>2. e - d \in Nat /\ e = d + (e - d)
    BY <2>1
  <2>. QED  BY <1>2, <2>2
<1>4. ASSUME NEW e \in Nat, d <= e PROVE f * d <= f * e
  <2>1. PICK k \in Nat : e = d + k /\ f * e = f * d + f * k
    BY <1>3, <1>4
  <2>. QED  BY <1>1, <1>2, <2>1
<1>5. ASSUME NEW e \in Nat, d < e PROVE f * d + f <= f * e
  <2>1. d + 1 \in Nat /\ d + 1 <= e /\ f * (d + 1) = f * d + f
    BY <1>5
  <2>2. PICK k \in Nat : e = (d + 1) + k
    <3>1. e - (d + 1) \in Nat /\ e = (d + 1) + (e - (d + 1))
      BY <1>5
    <3>. QED  BY <3>1
  <2>3. f * e = f * (d + 1) + f * k /\ f * k \in Nat
    BY <2>2
  <2>. QED  BY <1>1, <2>1, <2>3
<1>. QED  BY <1>1, <1>2, <1>3, <1>4, <1>5

LEMMA ScaleIs ==
  ASSUME NEW n \in Counts
  PROVE  Scale(n) \in Scales /\ Scale(n) \in Nat \ {0} /\ HeldIn(n, Scale(n))
BY FloatsAssumption DEF Counts, Scale

\* A count is rounded to a multiple of its scale, by half of that at most.
LEMMA Nearest ==
  ASSUME NEW n \in Nat, Scale(n) \in Nat \ {0}
  PROVE  \E k \in Nat : /\ Rounded(n) = Scale(n) * k
                        /\ 2 * Rounded(n) <= 2 * n + Scale(n) /\ 2 * n <= 2 * Rounded(n) + Scale(n)
                        /\ Scale(n) = 1 => Rounded(n) = n
<1>. DEFINE u == Scale(n)
            q == n \div u
            r == n % u
            down == 2 * r < u \/ (2 * r = u /\ q % 2 = 0)
            k == IF down THEN q ELSE q + 1
<1>1. q \in Nat /\ r \in Nat /\ r < u /\ n = u * q + r
  OBVIOUS
<1>2. Rounded(n) = u * k
  BY DEF Rounded
<1>. HIDE DEF q, r
<1>3. u * q \in Nat /\ u * (q + 1) = u * q + u
  BY <1>1
<1>4. CASE down
  <2>1. k = q /\ 2 * r <= u
    BY <1>1, <1>4
  <2>. HIDE DEF k, down, u
  <2>. QED  BY <1>1, <1>2, <1>3, <2>1 DEF u
<1>5. CASE ~down
  <2>1. k = q + 1 /\ u <= 2 * r
    BY <1>1, <1>5
  <2>2. u # 1
    BY <1>1, <2>1
  <2>. HIDE DEF k, down, u
  <2>. QED  BY <1>1, <1>2, <1>3, <2>1, <2>2 DEF u
<1>. QED  BY <1>4, <1>5

LEMMA CountsAreNat == Counts \subseteq Nat
BY SizesAssumption, LimitsAssumption DEF Counts

\* Rounding is exact below Precision and else off by one part in Precision at most.
LEMMA RoundedNear ==
  ASSUME NEW n \in Counts
  PROVE  /\ Rounded(n) \in Nat
         /\ Precision * Rounded(n) <= Precision * n + n
         /\ Precision * n <= Precision * Rounded(n) + n
         /\ n < Precision => Rounded(n) = n
<1>. DEFINE u == Scale(n)
            R == Rounded(n)
<1>1. n \in Nat /\ u \in Nat \ {0} /\ HeldIn(n, u) /\ Precision \in Nat \ {0}
  BY ScaleIs, CountsAreNat, FloatsAssumption
<1>2. PICK k \in Nat : /\ R = u * k /\ 2 * R <= 2 * n + u /\ 2 * n <= 2 * R + u
                       /\ u = 1 => R = n
  BY <1>1, Nearest
<1>3. R \in Nat
  BY <1>1, <1>2
<1>. HIDE DEF u, R
<1>4. CASE u = 1
  <2>1. Precision * n \in Nat
    BY <1>1, Times
  <2>. QED  BY <1>1, <1>2, <1>4, <2>1 DEF R
<1>5. CASE u # 1
  <2>1. Precision * u <= 2 * n /\ Precision * u \in Nat
    BY <1>1, <1>5, Times DEF HeldIn
  <2>2. ~(n < Precision)
    <3>1. 2 \in Nat /\ 2 <= u
      BY <1>1, <1>5
    <3>2. Precision * 2 <= Precision * u
      BY <1>1, <3>1, Times
    <3>. QED  BY <1>1, <2>1, <3>2
  <2>3. Precision * (2 * R) <= Precision * (2 * n + u) /\ Precision * (2 * n) <= Precision * (2 * R + u)
    <3>1. 2 * R \in Nat /\ 2 * n + u \in Nat /\ 2 * n \in Nat /\ 2 * R + u \in Nat
      BY <1>1, <1>3
    <3>. QED  BY <1>1, <1>2, <3>1, Times
  <2>4. /\ Precision * (2 * R) = 2 * (Precision * R) /\ Precision * (2 * n) = 2 * (Precision * n)
        /\ Precision * (2 * n + u) = 2 * (Precision * n) + Precision * u
        /\ Precision * (2 * R + u) = 2 * (Precision * R) + Precision * u
        /\ Precision * R \in Nat /\ Precision * n \in Nat
    BY <1>1, <1>3
  <2>5. Precision * R <= Precision * n + n /\ Precision * n <= Precision * R + n
    BY <1>1, <2>1, <2>3, <2>4
  <2>. QED  BY <1>3, <2>2, <2>5 DEF R
<1>. QED  BY <1>4, <1>5

\* Larger counts have larger scales.
LEMMA ScaleMonotone ==
  ASSUME NEW a \in Counts, NEW b \in Counts, a <= b
  PROVE  Scale(a) = Scale(b) \/ 2 * Scale(a) <= Scale(b)
<1>. DEFINE u == Scale(a)
            v == Scale(b)
<1>1. /\ a \in Nat /\ u \in Nat \ {0} /\ HeldIn(a, u) /\ u \in Scales
      /\ b \in Nat /\ v \in Nat \ {0} /\ HeldIn(b, v) /\ v \in Scales /\ Precision \in Nat \ {0}
  BY ScaleIs, CountsAreNat, FloatsAssumption
<1>. HIDE DEF u, v
<1>2. CASE v < u
  <2>1. 2 * v <= u /\ 2 * v \in Nat
    BY <1>1, <1>2, FloatsAssumption
  <2>2. Precision * (2 * v) <= Precision * u
    BY <1>1, <2>1, Times
  <2>3. Precision * (2 * v) = 2 * (Precision * v) /\ Precision * v \in Nat /\ Precision * u \in Nat
    BY <1>1
  <2>4. Precision * u <= 2 * a /\ b < Precision * v
    BY <1>1, <1>2 DEF HeldIn
  <2>5. FALSE
    BY <1>1, <2>2, <2>3, <2>4
  <2>. QED  BY <2>5
<1>3. CASE u < v
  BY <1>1, <1>3, FloatsAssumption DEF u, v
<1>. QED  BY <1>1, <1>2, <1>3 DEF u, v

\* Rounding keeps the order of counts.
LEMMA RoundedMonotone ==
  ASSUME NEW a \in Counts, NEW b \in Counts, a <= b
  PROVE  Rounded(a) <= Rounded(b)
<1>. DEFINE u == Scale(a)
            v == Scale(b)
            R == Rounded(a)
            S == Rounded(b)
<1>1. /\ a \in Nat /\ u \in Nat \ {0} /\ HeldIn(a, u)
      /\ b \in Nat /\ v \in Nat \ {0} /\ HeldIn(b, v) /\ Precision \in Nat \ {0}
  BY ScaleIs, CountsAreNat, FloatsAssumption
<1>2. PICK i \in Nat : /\ R = u * i /\ 2 * R <= 2 * a + u /\ 2 * a <= 2 * R + u
                       /\ u = 1 => R = a
  BY <1>1, Nearest
<1>3. PICK j \in Nat : /\ S = v * j /\ 2 * S <= 2 * b + v /\ 2 * b <= 2 * S + v
                       /\ v = 1 => S = b
  BY <1>1, Nearest
<1>4. R \in Nat /\ S \in Nat /\ (u = v \/ 2 * u <= v)
  BY <1>1, <1>2, <1>3, ScaleMonotone
<1>. HIDE DEF u, v, R, S
<1>5. CASE a = b
  BY <1>4, <1>5 DEF R, S
<1>6. CASE a < b /\ u = v
  <2>1. CASE j < i
    <3>1. u * j + u <= u * i
      BY <1>1, <2>1, Times
    <3>2. FALSE
      BY <1>1, <1>2, <1>3, <1>4, <1>6, <3>1
    <3>. QED  BY <3>2
  <2>2. CASE i <= j
    <3>1. u * i <= u * j
      BY <1>1, <2>2, Times
    <3>. QED  BY <1>2, <1>3, <1>6, <3>1 DEF R, S
  <2>. QED  BY <2>1, <2>2
<1>7. CASE 2 * u <= v
  \* Between them there is the number Precision * u, which both scales hold.
  <2>1. PICK h \in Nat : Precision = 2 * h
    <3>1. Precision \div 2 \in Nat /\ Precision = 2 * (Precision \div 2)
      BY FloatsAssumption
    <3>. QED  BY <3>1
  <2>2. /\ u * Precision \in Nat /\ v * Precision \in Nat /\ v * h \in Nat
        /\ v * Precision = 2 * (v * h) /\ u * Precision = 2 * (u * h) /\ u * h \in Nat
        /\ u * Precision = Precision * u /\ v * Precision = Precision * v
    BY <1>1, <2>1
  <2>3. u * Precision <= v * h
    <3>1. h * (2 * u) <= h * v
      BY <1>1, <1>7, <2>1, Times
    <3>2. h * (2 * u) = 2 * (u * h) /\ h * v = v * h
      BY <1>1, <2>1
    <3>. QED  BY <2>2, <3>1, <3>2
  <2>4. R <= u * Precision
    <3>1. SUFFICES ASSUME Precision < i PROVE FALSE
      <4>1. CASE i <= Precision
        BY <1>1, <1>2, <4>1, Times
      <4>. QED  BY <1>1, <3>1, <4>1
    <3>2. u * Precision + u <= R
      BY <1>1, <1>2, <3>1, Times
    <3>3. a < u * Precision
      BY <1>1, <2>2 DEF HeldIn
    <3>. QED  BY <1>1, <1>2, <1>4, <2>2, <3>2, <3>3
  <2>5. v * h <= S
    <3>1. SUFFICES ASSUME j < h PROVE FALSE
      <4>1. CASE h <= j
        BY <1>1, <1>3, <2>1, <4>1, Times
      <4>. QED  BY <2>1, <3>1, <4>1
    <3>2. S + v <= v * h
      BY <1>1, <1>3, <2>1, <3>1, Times
    <3>3. v * h <= b
      <4>1. v # 1
        BY <1>1, <1>7
      <4>. QED  BY <1>1, <2>2, <4>1 DEF HeldIn
    <3>. QED  BY <1>1, <1>3, <1>4, <2>2, <3>2, <3>3
  <2>. QED  BY <1>4, <2>2, <2>3, <2>4, <2>5 DEF R, S
<1>. QED  BY <1>1, <1>4, <1>5, <1>6, <1>7

\* What a finite factor is.
LEMMA FactorIs ==
  ASSUME NEW f \in Factors, f # Infinite
  PROVE  /\ f.significand \in Nat /\ f.scale \in Nat \ {0} /\ f.significand < Precision
         /\ Precision <= 2 * f.significand
<1>1. f \in [significand : (Precision \div 2)..(Precision - 1), scale : Scales]
  BY FloatsAssumption
<1>. /\ f.significand \in (Precision \div 2)..(Precision - 1) /\ f.scale \in Nat \ {0}
     /\ Precision \in Nat \ {0} /\ Precision % 2 = 0
  BY <1>1, FloatsAssumption
<1>2. PICK h \in Nat : Precision = 2 * h /\ Precision \div 2 = h
  OBVIOUS
<1>. QED  BY <1>2

\* Fewer bytes of more input are not amplified more.
LEMMA AmplifiedLess ==
  ASSUME NEW f \in Factors, NEW d \in Counts, NEW e \in Counts, d <= e,
         NEW m \in Counts, NEW n \in Counts, n <= m, ~Amplified(m, f, d)
  PROVE  ~Amplified(n, f, e)
<1>1. CASE f = Infinite
  BY <1>1 DEF Amplified
<1>2. CASE f # Infinite
  <2>. DEFINE c == (2 * f.significand + 1) * f.scale
  <2>1. f.significand \in Nat /\ f.scale \in Nat
    BY <1>2, FactorIs
  <2>2. c \in Nat /\ Precision \in Nat /\ (f.significand % 2 = 1) \in BOOLEAN
    BY <2>1, FloatsAssumption
  <2>3. /\ Rounded(d) \in Nat /\ Rounded(e) \in Nat /\ Rounded(m) \in Nat /\ Rounded(n) \in Nat
        /\ Rounded(d) <= Rounded(e) /\ Rounded(n) <= Rounded(m)
    BY RoundedNear, RoundedMonotone
  <2>. HIDE DEF c
  <2>4. /\ c * Rounded(d) \in Nat /\ c * Rounded(e) \in Nat /\ c * Rounded(d) <= c * Rounded(e)
        /\ Precision * Rounded(n) \in Nat /\ Precision * Rounded(m) \in Nat
        /\ Precision * Rounded(n) <= Precision * Rounded(m)
    BY <2>2, <2>3, Times
  <2>5. \A k, l \in Counts : Amplified(k, f, l) <=>
          \/ Precision * Rounded(k) > c * Rounded(l)
          \/ Precision * Rounded(k) = c * Rounded(l) /\ f.significand % 2 = 1
    BY <1>2 DEF Amplified, c
  <2>. QED  BY <2>4, <2>5
<1>. QED  BY <1>1, <1>2

\* A product of the rounded input count exceeds that of the count by one part
\* in Precision at most, and so do the others.
LEMMA AmplifiedWithin ==
  ASSUME NEW f \in Factors, NEW d \in Counts, NEW n \in Counts, ~Amplified(n, f, d)
  PROVE  Within(n, f, d)
<1>1. CASE f = Infinite
  BY <1>1 DEF Within
<1>2. CASE f # Infinite
  <2>. DEFINE P == Precision
              M == f.significand
              s == f.scale
              R == Rounded(n)
              S == Rounded(d)
              A == 2 * M * s           \* P times the factor
  <2>1. /\ M \in Nat /\ s \in Nat \ {0} /\ M < P /\ P <= 2 * M /\ P \in Nat \ {0}
        /\ n \in Nat /\ d \in Nat
    BY <1>2, FactorIs, CountsAreNat, FloatsAssumption
  <2>2. /\ R \in Nat /\ P * n <= P * R + n /\ (n < P => R = n)
        /\ S \in Nat /\ P * S <= P * d + d /\ (d < P => S = d)
    BY RoundedNear
  <2>3. P * R <= ((2 * M + 1) * s) * S
    <3>1. ~(P * R > ((2 * M + 1) * s) * S)
      BY <1>2 DEF Amplified
    <3>2. P * R \in Nat /\ ((2 * M + 1) * s) * S \in Nat
      BY <2>1, <2>2
    <3>. QED  BY <3>1, <3>2
  <2>. HIDE DEF P, M, s, R, S
  <2>4. A \in Nat /\ A * d \in Nat /\ A * S \in Nat /\ s * S \in Nat /\ P * s <= A
    <3>1. A \in Nat /\ A * d \in Nat /\ A * S \in Nat /\ s * S \in Nat
      BY <2>1, <2>2
    <3>2. s * P <= s * (2 * M) /\ s * P = P * s /\ s * (2 * M) = A
      BY <2>1, Times
    <3>. QED  BY <3>1, <3>2
  <2>5. ((2 * M + 1) * s) * S = A * S + s * S
    BY <2>1, <2>2
  <2>6. ASSUME A % P = 0, n < P, d < P PROVE P * n <= A * d
    <3>1. PICK w \in Nat : A = P * w
      <4>1. A \div P \in Nat /\ A = P * (A \div P)
        BY <2>1, <2>4, <2>6
      <4>. QED  BY <4>1
    <3>2. R = n /\ S = d
      BY <2>2, <2>6
    <3>3. A * d = P * (w * d) /\ w * d \in Nat /\ P * n \in Nat /\ P * (w * d) \in Nat
      BY <2>1, <3>1
    <3>4. SUFFICES ASSUME w * d < n PROVE FALSE
      <4>1. CASE n <= w * d
        BY <2>1, <3>3, <4>1, Times
      <4>. QED  BY <2>1, <3>3, <3>4, <4>1
    <3>5. P * (w * d) + P <= P * n
      BY <2>1, <3>3, <3>4, Times
    <3>6. P <= s * d
      BY <2>1, <2>3, <2>4, <2>5, <3>2, <3>3, <3>5
    <3>7. s * d <= w * d
      <4>1. CASE w < s
        <5>1. P * w + P <= P * s
          BY <2>1, <3>1, <4>1, Times
        <5>. QED  BY <2>1, <2>4, <3>1, <5>1
      <4>2. CASE s <= w
        <5>1. d * s <= d * w /\ d * s = s * d /\ d * w = w * d
          BY <2>1, <3>1, <4>2, Times
        <5>. QED  BY <5>1
      <4>. QED  BY <2>1, <4>1, <4>2
    <3>. QED  BY <2>1, <2>2, <2>4, <2>6, <3>2, <3>3, <3>4, <3>6, <3>7
  <2>7. n * (P - 1) * P * P <= A * d * (P + 1) * (P + 1)
    <3>1. n * (P - 1) \in Nat /\ n * (P - 1) <= P * R /\ P * R \in Nat
      <4>1. n * (P - 1) = P * n - n /\ P * n \in Nat /\ P * R \in Nat /\ P - 1 \in Nat
        BY <2>1, <2>2
      <4>2. n * (P - 1) \in Nat
        BY <2>1, <4>1, Times
      <4>. QED  BY <2>1, <2>2, <4>1, <4>2
    <3>2. P * (A * S) <= (P + 1) * (A * d)
      <4>1. P * S \in Nat /\ P * d + d \in Nat
        BY <2>1, <2>2
      <4>2. A * (P * S) <= A * (P * d + d)
        BY <2>2, <2>4, <4>1, Times
      <4>3. A * (P * S) = P * (A * S) /\ A * (P * d + d) = (P + 1) * (A * d)
        BY <2>1, <2>2, <2>4
      <4>. QED  BY <4>2, <4>3
    <3>3. P * (s * S) <= A * S
      <4>1. S * (P * s) <= S * A /\ P * s \in Nat
        BY <2>1, <2>2, <2>4, Times
      <4>2. S * (P * s) = P * (s * S) /\ S * A = A * S
        BY <2>1, <2>2, <2>4
      <4>. QED  BY <4>1, <4>2
    <3>4. P * (P * R) <= (P + 1) * (A * S)
      <4>1. P * (P * R) <= P * (A * S + s * S)
        BY <2>1, <2>3, <2>4, <2>5, <3>1, Times
      <4>2. P * (A * S + s * S) = P * (A * S) + P * (s * S) /\ (P + 1) * (A * S) = P * (A * S) + A * S
        BY <2>1, <2>4
      <4>3. P * (A * S) \in Nat /\ P * (s * S) \in Nat /\ P * (P * R) \in Nat
        BY <2>1, <2>4, <3>1, Times
      <4>. QED  BY <2>4, <3>3, <4>1, <4>2, <4>3
    <3>5. P * (P * (P * R)) <= (P + 1) * ((P + 1) * (A * d))
      <4>1. P * (P * R) \in Nat /\ (P + 1) * (A * S) \in Nat /\ P * (A * S) \in Nat /\ (P + 1) * (A * d) \in Nat
            /\ P + 1 \in Nat
        BY <2>1, <2>4, <3>1, Times
      <4>2. P * (P * (P * R)) <= P * ((P + 1) * (A * S))
        BY <2>1, <3>4, <4>1, Times
      <4>3. P * ((P + 1) * (A * S)) = (P + 1) * (P * (A * S))
        BY <2>1, <2>4
      <4>4. (P + 1) * (P * (A * S)) <= (P + 1) * ((P + 1) * (A * d))
        BY <3>2, <4>1, Times
      <4>5. /\ P * (P * (P * R)) \in Nat /\ P * ((P + 1) * (A * S)) \in Nat
            /\ (P + 1) * (P * (A * S)) \in Nat /\ (P + 1) * ((P + 1) * (A * d)) \in Nat
        BY <2>1, <4>1, Times
      <4>. HIDE DEF A
      <4>. QED  BY <4>2, <4>3, <4>4, <4>5
    <3>6. P * (P * (n * (P - 1))) <= P * (P * (P * R))
      <4>1. P * (n * (P - 1)) <= P * (P * R) /\ P * (n * (P - 1)) \in Nat /\ P * (P * R) \in Nat
        BY <2>1, <3>1, Times
      <4>. QED  BY <2>1, <4>1, Times
    <3>7. /\ n * (P - 1) * P * P = P * (P * (n * (P - 1)))
          /\ A * d * (P + 1) * (P + 1) = (P + 1) * ((P + 1) * (A * d))
      BY <2>1, <2>4
    <3>8. /\ P * (P * (n * (P - 1))) \in Nat /\ P * (P * (P * R)) \in Nat
          /\ (P + 1) * ((P + 1) * (A * d)) \in Nat
      <4>1. P * (n * (P - 1)) \in Nat /\ P * (P * R) \in Nat /\ (P + 1) * (A * d) \in Nat /\ P + 1 \in Nat
        BY <2>1, <2>4, <3>1, Times
      <4>. QED  BY <2>1, <4>1, Times
    <3>. HIDE DEF A
    <3>. QED  BY <3>5, <3>6, <3>7, <3>8
  <2>. QED  BY <2>6, <2>7 DEF Within, P, M, s
<1>. QED  BY <1>1, <1>2

\* Nothing is within every limit.
LEMMA NothingWithin ==
  ASSUME NEW f \in Factors, NEW d \in Counts PROVE Within(0, f, d)
<1>1. CASE f # Infinite
  <2>. DEFINE product == 2 * f.significand * f.scale * d
  <2>1. Precision \in Nat /\ product \in Nat
    BY <1>1, FactorIs, CountsAreNat, FloatsAssumption
  <2>. HIDE DEF product
  <2>2. /\ Precision * 0 = 0 /\ 0 * (Precision - 1) * Precision * Precision = 0
        /\ product * (Precision + 1) * (Precision + 1) \in Nat
    BY <2>1
  <2>3. Precision * 0 <= product
        /\ 0 * (Precision - 1) * Precision * Precision <= product * (Precision + 1) * (Precision + 1)
    BY <2>1, <2>2
  <2>. QED  BY <2>3 DEF Within, product
<1>. QED  BY <1>1 DEF Within

-----------------------------------------------------------------------------
(***************************************************************************)
(* The relative limit                                                      *)
(***************************************************************************)

\* What a charge has read of limits that still stand: the input count may only
\* have grown since.
Seen(p) ==
  LET o == op[p]
      t == o.tracker
  IN
  pc[p] \in Charging /\ steady[t] =>
    /\ pc[p] # "threshold" => o.threshold = threshold[t]
    /\ pc[p] \in {"direct", "reserve"} => o.factor = factor[t]
    /\ pc[p] = "reserve" => o.direct <= direct[t]

\* The test of the last charge that made a count as large as it is holds still.
TestHolds ==
  \A t \in Trackers :
    steady[t] /\ live[t] >= threshold[t] /\ live[t] > 0 => ~Amplified(live[t], factor[t], direct[t])

InputBounded == \A t \in Trackers : direct[t] <= MaxDirect

Relative == Inv /\ CeilingKept /\ InputBounded /\ TestHolds /\ \A p \in Threads : Seen(p)

LEMMA RelativeCounts ==
  ASSUME Relative, NEW t \in Trackers PROVE live[t] \in Counts /\ direct[t] \in Counts
<1>1. live[t] \in Nat /\ live[t] <= Ceiling /\ direct[t] \in Nat /\ direct[t] <= MaxDirect
  BY DEF Relative, Inv, Local, Types, CeilingKept, InputBounded
<1>. QED  BY <1>1, SizesAssumption, LimitsAssumption DEF Counts

\* Limits that still stand are the same as before the step.
LEMMA SteadyStep ==
  ASSUME Types, [Next]_vars, NEW t \in Trackers, steady'[t]
  PROVE  /\ steady[t] /\ factor'[t] = factor[t] /\ threshold'[t] = threshold[t]
         /\ direct[t] \in Nat /\ direct'[t] \in Nat /\ direct[t] <= direct'[t]
<1>1. CASE UNCHANGED limits
  BY <1>1 DEF limits, Types
<1>2. ASSUME NEW s \in Trackers, NEW bytes \in Inputs, AddDirect(s, bytes)
      PROVE  /\ steady[t] /\ factor'[t] = factor[t] /\ threshold'[t] = threshold[t]
             /\ direct[t] \in Nat /\ direct'[t] \in Nat /\ direct[t] <= direct'[t]
  <2>1. bytes \in Nat
    BY LimitsAssumption
  <2>. QED  BY <1>2, <2>1 DEF AddDirect, Types
<1>3. ASSUME NEW s \in Trackers,
             \/ ResetDirect(s) \/ \E f \in Factors : SetFactor(s, f)
             \/ \E bytes \in Thresholds : SetThreshold(s, bytes)
      PROVE  /\ steady[t] /\ factor'[t] = factor[t] /\ threshold'[t] = threshold[t]
             /\ direct[t] \in Nat /\ direct'[t] \in Nat /\ direct[t] <= direct'[t]
  <2>1. t # s
    BY <1>3 DEF ResetDirect, SetFactor, SetThreshold, Types
  <2>. QED  BY <1>3, <2>1 DEF ResetDirect, SetFactor, SetThreshold, Types
<1>4. CASE Application
  BY <1>2, <1>3, <1>4 DEF Application
<1>5. CASE UNCHANGED vars \/ \E p \in Threads : Scopes(p) \/ Requests(p) \/ Charge(p) \/ Raw(p)
  <2>1. ASSUME NEW p \in Threads, Scopes(p) \/ Requests(p) PROVE UNCHANGED limits
    BY <2>1 DEF Scopes, Enter, Leave, Requests, Deallocate, Allocate, Resize
  <2>2. ASSUME NEW p \in Threads, Charge(p) PROVE UNCHANGED limits
    BY <2>2 DEF Charge, LoadThreshold, LoadFactor, LoadDirect, Load, Reserve, RaisePeak
  <2>3. ASSUME NEW p \in Threads, Raw(p) PROVE UNCHANGED limits
    BY <2>3 DEF Raw, RawFails, RawSucceeds, FreeReplaced, Release, FreeBacking
  <2>. QED  BY <1>1, <1>5, <2>1, <2>2, <2>3 DEF vars
<1>. QED  BY <1>4, <1>5 DEF Next

\* No more input is accounted than a document can have.
LEMMA InputStep == ASSUME Types, InputBounded, [Next]_vars PROVE InputBounded'
<1>1. CASE UNCHANGED direct
  BY <1>1 DEF InputBounded
<1>2. ASSUME NEW t \in Trackers, ResetDirect(t) \/ \E bytes \in Inputs : AddDirect(t, bytes)
      PROVE  InputBounded'
  <2>t. direct \in [Trackers -> Nat] /\ MaxDirect \in Nat
    BY LimitsAssumption DEF Types
  <2>1. ASSUME NEW bytes \in Inputs, AddDirect(t, bytes) PROVE InputBounded'
    BY <2>1, <2>t DEF AddDirect, InputBounded
  <2>2. ASSUME ResetDirect(t) PROVE InputBounded'
    BY <2>2, <2>t DEF ResetDirect, InputBounded
  <2>. QED  BY <1>2, <2>1, <2>2
<1>3. CASE UNCHANGED vars \/ Application
  BY <1>1, <1>2, <1>3 DEF vars, limits, Application, SetFactor, SetThreshold
<1>4. ASSUME NEW p \in Threads, Scopes(p) \/ Requests(p) PROVE UNCHANGED direct
  BY <1>4 DEF Scopes, Enter, Leave, Requests, Deallocate, Allocate, Resize, limits
<1>5. ASSUME NEW p \in Threads, Charge(p) PROVE UNCHANGED direct
  BY <1>5 DEF Charge, LoadThreshold, LoadFactor, LoadDirect, Load, Reserve, RaisePeak, limits
<1>6. ASSUME NEW p \in Threads, Raw(p) PROVE UNCHANGED direct
  BY <1>6 DEF Raw, RawFails, RawSucceeds, FreeReplaced, Release, FreeBacking, limits
<1>. QED  BY <1>1, <1>3, <1>4, <1>5, <1>6 DEF Next

\* The live count of a tracker only grows by a charge that is accepted.
LEMMA LiveStep ==
  ASSUME Inv, Inv', [Next]_vars, NEW t \in Trackers
  PROVE  \/ live'[t] <= live[t]
         \/ \E p \in Threads : /\ pc[p] = "reserve" /\ op[p].tracker = t
                               /\ live'[t] = live[t] + op[p].amount /\ Accepts(op[p], live'[t])
<1>t. /\ live \in [Trackers -> Nat] /\ live' \in [Trackers -> Nat] /\ Types
  BY DEF Inv, Local
<1>1. CASE UNCHANGED live
  BY <1>1, <1>t
<1>2. ASSUME NEW p \in Threads, Reserve(p)
      PROVE  \/ live'[t] <= live[t]
             \/ /\ pc[p] = "reserve" /\ op[p].tracker = t
                /\ live'[t] = live[t] + op[p].amount /\ Accepts(op[p], live'[t])
  <2>1. op[p].tracker \in Trackers /\ pc[p] = "reserve"
    BY <1>2 DEF Reserve, Inv, Local, OpOK, Charging
  <2>2. CASE UNCHANGED live
    BY <2>2, <1>t
  <2>3. CASE /\ Accepts(op[p], live[op[p].tracker] + op[p].amount)
             /\ live' = [live EXCEPT ![op[p].tracker] = live[op[p].tracker] + op[p].amount]
    <3>1. CASE op[p].tracker = t
      BY <1>t, <2>1, <2>3, <3>1
    <3>2. CASE op[p].tracker # t
      BY <1>t, <2>1, <2>3, <3>2
    <3>. QED  BY <3>1, <3>2
  <2>. QED  BY <1>2, <2>2, <2>3 DEF Reserve
<1>3. ASSUME NEW p \in Threads, Release(p) PROVE live'[t] <= live[t]
  <2>1. op[p].reserved \in Nat
    BY <1>t DEF Types, Operations
  <2>. QED  BY <1>3, <1>t, <2>1 DEF Release
<1>4. ASSUME NEW p \in Threads, NEW b \in Blocks, Deallocate(p, b) PROVE live'[t] <= live[t]
  <2>1. size[b] \in Nat
    BY <1>t DEF Types
  <2>. QED  BY <1>4, <1>t, <2>1 DEF Deallocate
<1>5. CASE UNCHANGED vars \/ Application
  BY <1>1, <1>5 DEF vars, Application, AddDirect, ResetDirect, SetFactor, SetThreshold
<1>6. ASSUME NEW p \in Threads, Scopes(p) \/ Requests(p)
      PROVE  UNCHANGED live \/ \E b \in Blocks : Deallocate(p, b)
  BY <1>6 DEF Scopes, Enter, Leave, Requests, Allocate, Resize
<1>7. ASSUME NEW p \in Threads, Charge(p) \/ Raw(p)
      PROVE  UNCHANGED live \/ Reserve(p) \/ Release(p)
  BY <1>7 DEF Charge, Raw, LoadThreshold, LoadFactor, LoadDirect, Load, RaisePeak,
              RawFails, RawSucceeds, FreeReplaced, FreeBacking
<1>. QED  BY <1>1, <1>2, <1>3, <1>4, <1>5, <1>6, <1>7 DEF Next

\* A thread reads the limits one by one.
LEMMA SeenStep ==
  ASSUME Inv, Inv', [Next]_vars, NEW p \in Threads, Seen(p)
  PROVE  Seen(p)'
<1>t. /\ op \in [Threads -> Operations] /\ pc \in [Threads -> Steps] /\ Types /\ OpOK(p)
  BY DEF Inv, Local, Types
<1> SUFFICES ASSUME pc'[p] \in Charging, steady'[op'[p].tracker]
             PROVE  /\ pc'[p] # "threshold" => op'[p].threshold = threshold'[op'[p].tracker]
                    /\ pc'[p] \in {"direct", "reserve"} => op'[p].factor = factor'[op'[p].tracker]
                    /\ pc'[p] = "reserve" => op'[p].direct <= direct'[op'[p].tracker]
  BY DEF Seen
<1>1. op'[p].tracker \in Trackers
  BY DEF Inv, Local, OpOK
<1>2. PICK t \in Trackers : t = op'[p].tracker
  BY <1>1
<1>3. /\ steady[t] /\ factor'[t] = factor[t] /\ threshold'[t] = threshold[t]
      /\ direct[t] \in Nat /\ direct'[t] \in Nat /\ direct[t] <= direct'[t]
  BY <1>t, <1>2, SteadyStep
<1>4. CASE op'[p] = op[p] /\ pc'[p] = pc[p]
  <2>1. op[p].direct \in Nat
    BY <1>t DEF Operations
  <2>. QED  BY <1>2, <1>3, <1>4, <2>1 DEF Seen
<1>5. CASE LoadThreshold(p) \/ LoadFactor(p) \/ LoadDirect(p)
  <2>1. op[p] \in Operations /\ UNCHANGED limits
    BY <1>5, <1>t DEF LoadThreshold, LoadFactor, LoadDirect, Load
  <2>2. CASE LoadThreshold(p)
    <3>1. op'[p] = [op[p] EXCEPT !.threshold = threshold[op[p].tracker]] /\ pc'[p] = "factor"
      BY <1>t, <2>2 DEF LoadThreshold, Load, Goto, Operations
    <3>. QED  BY <1>2, <1>3, <2>1, <3>1 DEF Operations
  <2>3. CASE LoadFactor(p)
    <3>1. /\ op'[p] = [op[p] EXCEPT !.factor = factor[op[p].tracker]] /\ pc'[p] = "direct"
          /\ pc[p] = "factor"
      BY <1>t, <2>3 DEF LoadFactor, Load, Goto, Operations
    <3>. QED  BY <1>2, <1>3, <2>1, <3>1 DEF Operations, Seen, Charging
  <2>4. CASE LoadDirect(p)
    <3>1. /\ op'[p] = [op[p] EXCEPT !.direct = direct[op[p].tracker]] /\ pc'[p] = "reserve"
          /\ pc[p] = "direct"
      BY <1>t, <2>4 DEF LoadDirect, Load, Goto, Operations
    <3>. QED  BY <1>2, <1>3, <2>1, <3>1 DEF Operations, Seen, Charging
  <2>. QED  BY <1>5, <2>2, <2>3, <2>4
<1>6. CASE \E q \in Threads : q # p /\ (Scopes(q) \/ Requests(q) \/ Charge(q) \/ Raw(q))
  <2>. SUFFICES ASSUME NEW q \in Threads, q # p, Scopes(q) \/ Requests(q) \/ Charge(q) \/ Raw(q)
                PROVE  op'[p] = op[p] /\ pc'[p] = pc[p]
    BY <1>4, <1>6
  <2>1. CASE Scopes(q)
    BY <2>1 DEF Scopes, Enter, Leave
  <2>2. CASE Requests(q)
    <3>1. ASSUME NEW o, Begin(q, o) PROVE op'[p] = op[p] /\ pc'[p] = pc[p]
      BY <3>1, <1>t DEF Begin, Goto
    <3>2. ASSUME NEW b \in Blocks, Deallocate(q, b) PROVE op'[p] = op[p] /\ pc'[p] = pc[p]
      BY <3>2, <1>t DEF Deallocate, Goto
    <3>. QED  BY <2>2, <3>1, <3>2 DEF Requests, Allocate, Resize
  <2>3. CASE LoadThreshold(q) \/ LoadFactor(q) \/ LoadDirect(q)
    BY <2>3, <1>t DEF LoadThreshold, LoadFactor, LoadDirect, Load, Goto
  <2>4. CASE Reserve(q) \/ RaisePeak(q)
    BY <2>4, <1>t DEF Reserve, RaisePeak, Goto, Done
  <2>5. CASE Raw(q)
    BY <2>5, <1>t DEF Raw, RawFails, RawSucceeds, FreeReplaced, Release, FreeBacking, Goto, Done
  <2>. QED  BY <2>1, <2>2, <2>3, <2>4, <2>5 DEF Charge
<1>7. CASE UNCHANGED vars \/ Application \/ Scopes(p)
  BY <1>4, <1>7 DEF vars, Application, AddDirect, ResetDirect, SetFactor, SetThreshold, Scopes, Enter, Leave
<1>8. CASE Requests(p) \/ Reserve(p) \/ RaisePeak(p) \/ Raw(p)
  <2>1. CASE Requests(p)
    <3>1. ASSUME NEW o, Begin(p, o) PROVE pc'[p] \in {"raw", "threshold"}
      BY <3>1, <1>t DEF Begin, Goto
    <3>2. ASSUME NEW b \in Blocks, Deallocate(p, b) PROVE pc'[p] = "free"
      BY <3>2, <1>t DEF Deallocate, Goto
    <3>3. pc'[p] \in {"raw", "threshold", "free"}
      BY <2>1, <3>1, <3>2 DEF Requests, Allocate, Resize
    <3>. QED  BY <3>3 DEF Charging
  <2>2. CASE Reserve(p) \/ RaisePeak(p)
    BY <2>2, <1>t DEF Reserve, RaisePeak, Goto, Done, Charging
  <2>3. CASE Raw(p)
    BY <2>3, <1>t DEF Raw, RawFails, RawSucceeds, FreeReplaced, Release, FreeBacking, Goto, Done, Charging
  <2>. QED  BY <1>8, <2>1, <2>2, <2>3
<1>. QED  BY <1>5, <1>6, <1>7, <1>8 DEF Next, Charge

\* Once active, the relative limit holds although the input count it was checked
\* against was read earlier, and other threads charge and release meanwhile
\* (AllocationTracker::charge).
THEOREM AmplificationCorrect == Spec => []AmplificationKept
<1>1. Init => CeilingKept /\ InputBounded /\ TestHolds /\ \A p \in Threads : Seen(p)
  BY SizesAssumption, LimitsAssumption DEF Init, CeilingKept, InputBounded, TestHolds, Seen, Charging
<1>2. ASSUME Relative, Inv', CeilingKept', InputBounded', [Next]_vars PROVE TestHolds'
  <2>t. /\ live \in [Trackers -> Nat] /\ live' \in [Trackers -> Nat] /\ Types
    BY <1>2 DEF Relative, Inv, Local
  <2>. SUFFICES ASSUME NEW t \in Trackers, steady'[t], live'[t] >= threshold'[t], live'[t] > 0
                PROVE  ~Amplified(live'[t], factor'[t], direct'[t])
    BY DEF TestHolds
  <2>1. /\ steady[t] /\ factor'[t] = factor[t] /\ threshold'[t] = threshold[t]
        /\ direct[t] \in Nat /\ direct'[t] \in Nat /\ direct[t] <= direct'[t]
    BY <1>2, <2>t, SteadyStep
  <2>2. factor[t] \in Factors /\ threshold[t] \in Nat
    BY <2>t, LimitsAssumption DEF Types
  <2>c. live[t] \in Counts /\ direct[t] \in Counts /\ live'[t] \in Counts /\ direct'[t] \in Counts
    <3>1. live'[t] <= Ceiling /\ direct'[t] <= MaxDirect
      BY <1>2 DEF CeilingKept, InputBounded
    <3>. QED  BY <1>2, <2>t, <2>1, <3>1, RelativeCounts, SizesAssumption, LimitsAssumption DEF Counts
  <2>3. CASE live'[t] <= live[t]
    <3>1. live[t] >= threshold[t] /\ live[t] > 0
      BY <2>t, <2>1, <2>2, <2>3
    <3>2. ~Amplified(live[t], factor[t], direct[t])
      BY <1>2, <2>1, <3>1 DEF Relative, TestHolds
    <3>3. ~Amplified(live'[t], factor[t], direct'[t])
      BY <2>1, <2>2, <2>3, <2>c, <3>2, AmplifiedLess
    <3>. QED  BY <2>1, <3>3
  <2>4. ASSUME NEW p \in Threads, pc[p] = "reserve", op[p].tracker = t,
               live'[t] = live[t] + op[p].amount, Accepts(op[p], live'[t])
        PROVE  ~Amplified(live'[t], factor'[t], direct'[t])
    <3>1. op[p].threshold = threshold[t] /\ op[p].factor = factor[t] /\ op[p].direct <= direct[t]
      BY <1>2, <2>1, <2>4 DEF Relative, Seen, Charging
    <3>2. op[p].direct \in Nat
      BY <2>t DEF Types, Operations
    <3>3. ~Amplified(live'[t], factor[t], op[p].direct)
      BY <2>1, <2>4, <3>1 DEF Accepts
    <3>4. op[p].direct \in Counts /\ op[p].direct <= direct'[t]
      <4>1. direct[t] <= MaxDirect
        BY <1>2 DEF Relative, InputBounded
      <4>. QED  BY <2>1, <3>1, <3>2, <4>1, LimitsAssumption DEF Counts
    <3>5. live'[t] <= live'[t]
      BY <2>t
    <3>6. ~Amplified(live'[t], factor[t], direct'[t])
      BY <2>2, <2>c, <3>3, <3>4, <3>5, AmplifiedLess
    <3>. QED  BY <2>1, <3>6
  <2>. QED  BY <1>2, <2>3, <2>4, LiveStep DEF Relative
<1>3. ASSUME Relative, Inv', [Next]_vars PROVE \A p \in Threads : Seen(p)'
  BY <1>3, SeenStep DEF Relative
<1>4. ASSUME Relative, [Next]_vars PROVE InputBounded'
  BY <1>4, InputStep DEF Relative, Inv, Local
<1>5. Relative => AmplificationKept
  <2>. SUFFICES ASSUME Relative, NEW t \in Trackers, steady[t], live[t] >= threshold[t]
                PROVE  Within(live[t], factor[t], direct[t])
    BY DEF AmplificationKept
  <2>1. live[t] \in Counts /\ direct[t] \in Counts /\ factor[t] \in Factors /\ live[t] \in Nat
    BY RelativeCounts DEF Relative, Inv, Local, Types
  <2>2. CASE live[t] > 0
    BY <2>1, <2>2, AmplifiedWithin DEF Relative, TestHolds
  <2>3. CASE live[t] = 0
    BY <2>1, <2>3, NothingWithin
  <2>. QED  BY <2>1, <2>2, <2>3
<1>6. Init => Relative
  BY <1>1, InvInit DEF Relative
<1>7. Relative /\ [Next]_vars => Relative'
  BY <1>2, <1>3, <1>4, InvNext, CeilingStep DEF Relative
<1>. QED  BY <1>5, <1>6, <1>7, PTL DEF Spec
=============================================================================
