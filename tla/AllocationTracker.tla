------------------------- MODULE AllocationTracker -------------------------
(***************************************************************************)
(* The byte accounting of crates/xeme_storage (tracking.rs, allocator.rs): *)
(* threads allocate, resize and free blocks through a tracked allocator.   *)
(* Each block carries the tracker it was charged to; the tracker's         *)
(* counters are atomics that every thread updates without a lock, so each  *)
(* load, compare-and-swap, maximum and subtraction is a step of its own.   *)
(* Sizes are total sizes, header and padding included, so they are never   *)
(* zero.  Relaxed orderings are not modelled: every property is about      *)
(* single atomics, whose modification order is total.                      *)
(*                                                                         *)
(* The relative limit compares numbers of type f32, which hold a fraction  *)
(* of 24 bits: counts are rounded when they are converted and quotients    *)
(* when they are divided.                                                  *)
(***************************************************************************)
EXTENDS Integers, Sequences, FiniteSets

CONSTANTS
  Threads, Trackers, Blocks,
  NoTracker,       \* the tracker of an allocation made outside every scope
  NoBlock,
  Sizes,           \* total sizes the containers ask for
  Ceiling,         \* MAXIMUM_LIVE_BYTES
  Precision,       \* 2^24: significands of f32, as whole numbers, are below it
  Scales,          \* the powers of two that significands are multiplied by
  Infinite,        \* the amplification factor f32::INFINITY
  Factors,         \* amplification factors the application may set
  Thresholds,      \* activation thresholds the application may set
  Inputs,          \* sizes of the pieces of input the application accounts for
  MaxDirect,       \* bound: bytes of input accounted
  MaxDepth         \* bound: nested tracking scopes of a thread

ASSUME HoldersAssumption ==
  /\ Threads \cap Blocks = {} /\ NoTracker \notin Trackers /\ NoBlock \notin Blocks
  /\ IsFiniteSet(Threads) /\ IsFiniteSet(Blocks)
ASSUME SizesAssumption == Sizes \subseteq Nat \ {0} /\ Ceiling \in Nat
ASSUME LimitsAssumption ==
  Thresholds \subseteq Nat /\ Inputs \subseteq Nat /\ MaxDirect \in Nat /\ MaxDepth \in Nat

\* A count n is held in multiples of u: it is less than Precision of them, and at
\* least half as many unless they are ones.
HeldIn(n, u) == n < Precision * u /\ (u = 1 \/ Precision * u <= 2 * n)

\* A finite factor of at least 1 is `significand` times `scale`, in parts
\* of which Precision \div 2 make 1.
ASSUME FloatsAssumption ==
  /\ Precision \in Nat \ {0} /\ Precision % 2 = 0
  /\ Scales \subseteq Nat \ {0} /\ \A u, v \in Scales : u < v => 2 * u <= v
  /\ \A n \in (0..Ceiling) \cup (0..MaxDirect) : \E u \in Scales : HeldIn(n, u)
  /\ Factors \ {Infinite} \subseteq
       [significand : (Precision \div 2)..(Precision - 1), scale : Scales]

VARIABLES
  live, peak,        \* of each tracker: bytes live or reserved, and the most of it
  direct,            \* its input bytes
  factor, threshold, \* its relative limit
  owner, size,       \* the header of each block: tracker and total size
  backing,           \* bytes of backing memory held for each block
  scope,             \* of each thread: the trackers it selected, innermost last
  pc,                \* where each thread is
  op                 \* what it is doing

\* History: the limits were not set, nor the input count reset, since the start.
VARIABLE steady

limits == <<direct, factor, threshold, steady>>
blocks == <<owner, size, backing>>
vars == <<live, peak, limits, blocks, scope, pc, op>>

Kinds == {"allocate", "resize", "replace", "free"}
Steps == {"idle", "threshold", "factor", "direct", "reserve", "peak", "raw",
          "refused", "replaced", "shrunk", "free"}

\* The locals of an operation: what it reserved or still has to release, and
\* the limits it has read.
Operations ==
  [kind : Kinds, block : Blocks \cup {NoBlock}, tracker : Trackers \cup {NoTracker},
   size : Nat, amount : Nat, reserved : Nat, threshold : Nat,
   factor : Factors \cup {Infinite}, direct : Nat, next : Nat]

Nothing == [kind |-> "free", block |-> NoBlock, tracker |-> NoTracker,
            size |-> 0, amount |-> 0, reserved |-> 0, threshold |-> 0,
            factor |-> Infinite, direct |-> 0, next |-> 0]

Init ==
  /\ live = [t \in Trackers |-> 0] /\ peak = [t \in Trackers |-> 0]
  /\ direct = [t \in Trackers |-> 0] /\ steady = [t \in Trackers |-> TRUE]
  /\ factor \in [Trackers -> Factors] /\ threshold \in [Trackers -> Thresholds]
  /\ owner = [b \in Blocks |-> NoTracker] /\ size = [b \in Blocks |-> 0]
  /\ backing = [b \in Blocks |-> 0]
  /\ scope = [p \in Threads |-> << >>]
  /\ pc = [p \in Threads |-> "idle"] /\ op = [p \in Threads |-> Nothing]

Goto(p, step) == pc' = [pc EXCEPT ![p] = step]

\* The thread forgets its locals.
Done(p) == Goto(p, "idle") /\ op' = [op EXCEPT ![p] = Nothing]

\* A block in an operation is owned by the container that performs it.
Free(b) == backing[b] = 0 /\ \A p \in Threads : op[p].block # b
Held(b) == size[b] # 0 /\ \A p \in Threads : op[p].block # b

-----------------------------------------------------------------------------
(***************************************************************************)
(* Scopes                                                                  *)
(***************************************************************************)

\* with_tracking, and without_tracking when `tracker` is NoTracker.
Enter(p, tracker) ==
  /\ pc[p] = "idle" /\ Len(scope[p]) < MaxDepth
  /\ scope' = [scope EXCEPT ![p] = Append(@, tracker)]
  /\ UNCHANGED <<live, peak, limits, blocks, pc, op>>

\* The closure returns or unwinds: the previous tracker is selected again.
Leave(p) ==
  /\ pc[p] = "idle" /\ scope[p] # << >>
  /\ scope' = [scope EXCEPT ![p] = SubSeq(@, 1, Len(@) - 1)]
  /\ UNCHANGED <<live, peak, limits, blocks, pc, op>>

CurrentTracker(p) == IF scope[p] = << >> THEN NoTracker
                     ELSE scope[p][Len(scope[p])]

-----------------------------------------------------------------------------
(***************************************************************************)
(* The operations of the allocator.                                        *)
(***************************************************************************)

\* Charge::reserve needs no charge for an untracked block or a smaller size.
Begin(p, operation) ==
  /\ pc[p] = "idle"
  /\ op' = [op EXCEPT ![p] = operation]
  /\ Goto(p, IF operation.tracker = NoTracker \/ operation.amount = 0
             THEN "raw" ELSE "threshold")

\* Variant: a resized block is charged to the current tracker.
ChargedToCurrent(p, b) == CurrentTracker(p)

\* A resize is charged to the tracker in the block's header.
ChargedTo(p, b) == owner[b]

\* allocate_tracked
Allocate(p, b, n) ==
  /\ Free(b)
  /\ Begin(p, [Nothing EXCEPT !.kind = "allocate", !.block = b, !.size = n,
                              !.tracker = CurrentTracker(p), !.amount = n])
  /\ UNCHANGED <<live, peak, limits, blocks, scope>>

\* resize: in place, or by a fresh block when the alignment decreases.
Resize(p, b, n, kind) ==
  /\ Held(b)
  /\ Begin(p, [Nothing EXCEPT !.kind = kind, !.block = b, !.size = n,
                              !.tracker = ChargedTo(p, b),
                              !.amount = IF n > size[b] THEN n - size[b] ELSE 0])
  /\ UNCHANGED <<live, peak, limits, blocks, scope>>

\* deallocate: the header is moved out and its bytes are released before the
\* backing memory is.
Deallocate(p, b) ==
  /\ pc[p] = "idle" /\ Held(b)
  /\ live' = IF owner[b] = NoTracker THEN live
             ELSE [live EXCEPT ![owner[b]] = @ - size[b]]
  /\ owner' = [owner EXCEPT ![b] = NoTracker] /\ size' = [size EXCEPT ![b] = 0]
  /\ op' = [op EXCEPT ![p] = [Nothing EXCEPT !.block = b]] /\ Goto(p, "free")
  /\ UNCHANGED <<peak, limits, backing, scope>>

-----------------------------------------------------------------------------
(***************************************************************************)
(* AllocationTracker::charge: three loads, a compare-and-swap loop, which  *)
(* takes effect at its last step, and a maximum.                           *)
(***************************************************************************)

Load(p, step, then, field, value) ==
  /\ pc[p] = step
  /\ op' = [op EXCEPT ![p][field] = value[op[p].tracker]]
  /\ Goto(p, then)
  /\ UNCHANGED <<live, peak, limits, blocks, scope>>

LoadThreshold(p) == Load(p, "threshold", "factor", "threshold", threshold)
LoadFactor(p) == Load(p, "factor", "direct", "factor", factor)
LoadDirect(p) == Load(p, "direct", "reserve", "direct", direct)

\* `n as f32`: the nearest multiple of its scale; of two, the even one.
Scale(n) == CHOOSE u \in Scales : HeldIn(n, u)
Rounded(n) ==
  LET u == Scale(n)
      q == n \div u
      down == 2 * (n % u) < u \/ (2 * (n % u) = u /\ q % 2 = 0)
  IN u * (IF down THEN q ELSE q + 1)

\* `next as f32 / direct as f32 > factor`.  The quotient is rounded too: it ends
\* up above the factor when it is beyond the middle between the factor and the
\* f32 that follows, or in the middle while the factor's significand is odd.
\* Division by zero gives infinity, which only an infinite factor admits.
Amplified(next, f, d) ==
  /\ f # Infinite
  /\ LET quotient == Precision * Rounded(next)
         middle == (2 * f.significand + 1) * f.scale * Rounded(d)
     IN quotient > middle \/ (quotient = middle /\ f.significand % 2 = 1)

\* Variants: the ceiling is not looked at; the relative limit is that of the
\* count before the charge.
AcceptsWithoutCeiling(o, next) ==
  ~(next >= o.threshold /\ Amplified(next, o.factor, o.direct))
AcceptsBefore(o, next) ==
  /\ next <= Ceiling
  /\ ~(next >= o.threshold /\ Amplified(next - o.amount, o.factor, o.direct))

Accepts(o, next) ==
  /\ next <= Ceiling
  /\ ~(next >= o.threshold /\ Amplified(next, o.factor, o.direct))

Reserve(p) ==
  LET o == op[p]
      next == live[o.tracker] + o.amount
  IN
  /\ pc[p] = "reserve"
  /\ \/ /\ Accepts(o, next)
        /\ live' = [live EXCEPT ![o.tracker] = next]
        /\ op' = [op EXCEPT ![p].reserved = o.amount, ![p].next = next]
        /\ Goto(p, "peak")
     \/ ~Accepts(o, next) /\ Done(p) /\ UNCHANGED live
  /\ UNCHANGED <<peak, limits, blocks, scope>>

RaisePeak(p) ==
  LET o == op[p] IN
  /\ pc[p] = "peak"
  /\ peak' = [peak EXCEPT ![o.tracker] = IF o.next > @ THEN o.next ELSE @]
  /\ Goto(p, "raw")
  /\ UNCHANGED <<live, limits, blocks, scope, op>>

-----------------------------------------------------------------------------
(***************************************************************************)
(* The backing allocator, which may fail, and what follows it.             *)
(***************************************************************************)


\* Charge::drop has something to release.
DropsReservation(p) == op[p].reserved # 0

\* Variant: the header is rewritten before the call that fails.
RawFailsLate(p) ==
  /\ pc[p] = "raw"
  /\ size' = [size EXCEPT ![op[p].block] = op[p].size]
  /\ IF DropsReservation(p) THEN Goto(p, "refused") /\ UNCHANGED op ELSE Done(p)
  /\ UNCHANGED <<live, peak, limits, owner, backing, scope>>

\* The block that was there stays as it was.
RawFails(p) ==
  /\ pc[p] = "raw"
  /\ IF DropsReservation(p) THEN Goto(p, "refused") /\ UNCHANGED op ELSE Done(p)
  /\ UNCHANGED <<live, peak, limits, blocks, scope>>

\* What a block that got smaller gives back, to a tracker.
Surplus(o) == IF o.tracker # NoTracker /\ o.kind # "allocate" /\ o.size < size[o.block]
              THEN size[o.block] - o.size ELSE 0

\* The new header is written: the charge is committed, and a surplus remains
\* to be released once the old memory is gone.
RawSucceeds(p) ==
  LET o == op[p]
      b == o.block
  IN
  /\ pc[p] = "raw"
  /\ owner' = [owner EXCEPT ![b] = o.tracker] /\ size' = [size EXCEPT ![b] = o.size]
  /\ backing' = [backing EXCEPT ![b] = IF o.kind = "replace" THEN @ + o.size ELSE o.size]
  /\ IF o.kind = "replace" \/ Surplus(o) # 0
     THEN /\ op' = [op EXCEPT ![p].reserved = Surplus(o)]
          /\ Goto(p, IF o.kind = "replace" THEN "replaced" ELSE "shrunk")
     ELSE Done(p)
  /\ UNCHANGED <<live, peak, limits, scope>>

\* The old block of a replacing resize is freed.
FreeReplaced(p) ==
  /\ pc[p] = "replaced"
  /\ backing' = [backing EXCEPT ![op[p].block] = op[p].size]
  /\ IF op[p].reserved # 0 THEN Goto(p, "shrunk") /\ UNCHANGED op ELSE Done(p)
  /\ UNCHANGED <<live, peak, limits, owner, size, scope>>

\* AllocationTracker::release, of a reservation or of a surplus.
Release(p) ==
  /\ pc[p] \in {"refused", "shrunk"}
  /\ live' = [live EXCEPT ![op[p].tracker] = @ - op[p].reserved]
  /\ Done(p)
  /\ UNCHANGED <<peak, limits, blocks, scope>>

FreeBacking(p) ==
  /\ pc[p] = "free"
  /\ backing' = [backing EXCEPT ![op[p].block] = 0]
  /\ Done(p)
  /\ UNCHANGED <<live, peak, limits, owner, size, scope>>

-----------------------------------------------------------------------------
(***************************************************************************)
(* The application: input, limits, a new document.                         *)
(***************************************************************************)

AddDirect(t, bytes) ==
  /\ direct[t] + bytes <= MaxDirect
  /\ direct' = [direct EXCEPT ![t] = @ + bytes]
  /\ UNCHANGED <<live, peak, factor, threshold, steady, blocks, scope, pc, op>>

ResetDirect(t) ==
  /\ steady' = [steady EXCEPT ![t] = FALSE]
  /\ direct' = [direct EXCEPT ![t] = 0]
  /\ UNCHANGED <<live, peak, factor, threshold, blocks, scope, pc, op>>

SetFactor(t, f) ==
  /\ steady' = [steady EXCEPT ![t] = FALSE]
  /\ factor' = [factor EXCEPT ![t] = f]
  /\ UNCHANGED <<live, peak, direct, threshold, blocks, scope, pc, op>>

SetThreshold(t, bytes) ==
  /\ steady' = [steady EXCEPT ![t] = FALSE]
  /\ threshold' = [threshold EXCEPT ![t] = bytes]
  /\ UNCHANGED <<live, peak, direct, factor, blocks, scope, pc, op>>

-----------------------------------------------------------------------------
Scopes(p) == Leave(p) \/ \E t \in Trackers \cup {NoTracker} : Enter(p, t)

Requests(p) ==
  \E b \in Blocks :
    \/ Deallocate(p, b)
    \/ \E n \in Sizes :
         Allocate(p, b, n) \/ Resize(p, b, n, "resize") \/ Resize(p, b, n, "replace")

Charge(p) == LoadThreshold(p) \/ LoadFactor(p) \/ LoadDirect(p) \/ Reserve(p) \/ RaisePeak(p)

Raw(p) == RawFails(p) \/ RawSucceeds(p) \/ FreeReplaced(p) \/ Release(p) \/ FreeBacking(p)

Application ==
  \E t \in Trackers :
    \/ ResetDirect(t)
    \/ \E bytes \in Inputs : AddDirect(t, bytes)
    \/ \E f \in Factors : SetFactor(t, f)
    \/ \E bytes \in Thresholds : SetThreshold(t, bytes)

Next == Application \/ \E p \in Threads : Scopes(p) \/ Requests(p) \/ Charge(p) \/ Raw(p)

Spec == Init /\ [][Next]_vars

-----------------------------------------------------------------------------
(***************************************************************************)
(* Properties                                                              *)
(***************************************************************************)

TypeOK ==
  /\ live \in [Trackers -> Nat] /\ peak \in [Trackers -> Nat]
  /\ direct \in [Trackers -> Nat] /\ steady \in [Trackers -> BOOLEAN]
  /\ factor \in [Trackers -> Factors] /\ threshold \in [Trackers -> Thresholds]
  /\ owner \in [Blocks -> Trackers \cup {NoTracker}]
  /\ size \in [Blocks -> Nat] /\ backing \in [Blocks -> Nat]
  /\ scope \in [Threads -> Seq(Trackers \cup {NoTracker})]
  /\ pc \in [Threads -> Steps] /\ op \in [Threads -> Operations]

Holders == Blocks \cup Threads

\* The bytes charged to a tracker, by the block or the operation they are for.
Charged(t) ==
  [h \in Holders |->
     IF h \in Blocks THEN (IF owner[h] = t THEN size[h] ELSE 0)
                     ELSE (IF op[h].tracker = t THEN op[h].reserved ELSE 0)]

\* One element for every byte.
Units(f) == UNION {{h} \X (1..f[h]) : h \in DOMAIN f}

\* The live count of a tracker is exactly what its blocks and the calls in
\* progress account for: no failure, resize or free on any thread leaks or
\* releases a byte twice, whatever scope it runs in.
Accounted == \A t \in Trackers : live[t] = Cardinality(Units(Charged(t)))

\* "allocation accounting underflow" is never asserted.
NoUnderflow ==
  /\ \A p \in Threads :
       pc[p] \in {"refused", "shrunk"} => live[op[p].tracker] >= op[p].reserved
  /\ \A b \in Blocks : owner[b] # NoTracker => live[owner[b]] >= size[b]

\* The absolute limit of a family holds at every step, for the peak as well.
CeilingKept == \A t \in Trackers : live[t] <= Ceiling /\ peak[t] <= Ceiling

\* n bytes are at most f times d: exactly, if the factor is a whole number and
\* the counts are ones that f32 holds; but for three roundings otherwise, each
\* off by at most one part in Precision.
Within(n, f, d) ==
  \/ f = Infinite
  \/ LET product == 2 * f.significand * f.scale * d  \* Precision times f times d
     IN /\ /\ (2 * f.significand * f.scale) % Precision = 0
           /\ n < Precision /\ d < Precision
           => Precision * n <= product
        /\ n * (Precision - 1) * Precision * Precision <=
             product * (Precision + 1) * (Precision + 1)

\* Once active, the relative limit holds at every step, although the input
\* count it was checked against was read before the swap and both counts were
\* rounded.  It holds until the application sets another limit or starts
\* another count.
AmplificationKept ==
  \A t \in Trackers :
    steady[t] /\ live[t] >= threshold[t] => Within(live[t], factor[t], direct[t])

\* A block keeps the memory it was last known to have: an operation that fails
\* leaves it as it was, and no other thread's operation touches it.
BlocksIntact ==
  \A b \in Blocks :
    (\A p \in Threads : op[p].block # b) => backing[b] = size[b]

\* tracking.rs says the live count is "Live backing bytes plus reservations
\* for allocator calls in progress": it is never less than the backing bytes.
BackingCovered ==
  \A t \in Trackers :
    live[t] >= Cardinality(Units([b \in Blocks |-> IF owner[b] = t THEN backing[b] ELSE 0]))
=============================================================================
