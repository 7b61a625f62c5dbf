--------------------------- MODULE SequenceLemmas ---------------------------
(***************************************************************************)
(* Facts about sequences of whatever elements, and about counting, that    *)
(* the proofs about several components use.                                *)
(***************************************************************************)
EXTENDS SequenceTheorems, FiniteSetTheorems, WellFoundedInduction, TLAPS

Sequence(s) == \E S : s \in Seq(S)

LEMMA SequenceIs ==
  ASSUME NEW s, Sequence(s)
  PROVE  /\ Len(s) \in Nat /\ DOMAIN s = 1..Len(s) /\ (s = << >> <=> Len(s) = 0)
         /\ s \in Seq({s[i] : i \in 1..Len(s)})
<1>1. PICK S : s \in Seq(S)
  BY DEF Sequence
<1>2. Len(s) \in Nat /\ DOMAIN s = 1..Len(s) /\ s \in [1..Len(s) -> S]
  BY <1>1, LenProperties
<1>3. s = << >> <=> Len(s) = 0
  BY <1>1, EmptySeq
<1>4. s \in [1..Len(s) -> {s[i] : i \in 1..Len(s)}]
  BY <1>2
<1>. QED  BY <1>2, <1>3, <1>4, SeqDef

LEMMA EmptyIs == Sequence(<< >>) /\ Len(<< >>) = 0 /\ 1..Len(<< >>) = {}
<1>1. << >> \in Seq({})
  BY EmptySeq
<1>. QED  BY <1>1, EmptySeq DEF Sequence

LEMMA SeqOver ==
  ASSUME NEW s, Sequence(s), NEW t, Sequence(t), NEW e
  PROVE  \E S : s \in Seq(S) /\ t \in Seq(S) /\ e \in S
<1>1. PICK A : s \in Seq(A)
  BY DEF Sequence
<1>2. PICK B : t \in Seq(B)
  BY DEF Sequence
<1>3. s \in Seq(A \cup B \cup {e}) /\ t \in Seq(A \cup B \cup {e})
  BY <1>1, <1>2, SeqMonotonic
<1>. QED  BY <1>3

LEMMA AppendIs ==
  ASSUME NEW s, Sequence(s), NEW e
  PROVE  /\ Sequence(Append(s, e)) /\ Append(s, e) # << >> /\ Len(Append(s, e)) = Len(s) + 1
         /\ \A i \in 1..Len(s) : Append(s, e)[i] = s[i]
         /\ Append(s, e)[Len(s) + 1] = e
         /\ Append(s, e) = s \o <<e>>
<1>1. PICK S : s \in Seq(S) /\ e \in S
  BY SeqOver
<1>. QED  BY <1>1, AppendProperties, AppendIsConcat DEF Sequence

LEMMA OneIs ==
  ASSUME NEW e
  PROVE  Sequence(<<e>>) /\ Len(<<e>>) = 1 /\ <<e>>[1] = e /\ <<e>> # << >>
<1>1. <<e>> \in Seq({e})
  OBVIOUS
<1>. QED  BY <1>1 DEF Sequence

LEMMA ConcatIs ==
  ASSUME NEW s, Sequence(s), NEW t, Sequence(t)
  PROVE  /\ Sequence(s \o t) /\ Len(s \o t) = Len(s) + Len(t)
         /\ \A i \in 1..Len(s) : (s \o t)[i] = s[i]
         /\ \A i \in 1..Len(t) : (s \o t)[Len(s) + i] = t[i]
         /\ s \o << >> = s /\ << >> \o s = s
<1>1. PICK S : s \in Seq(S) /\ t \in Seq(S)
  BY SeqOver
<1>2. /\ s \o t \in Seq(S) /\ Len(s \o t) = Len(s) + Len(t)
      /\ \A i \in 1..Len(s) + Len(t) : (s \o t)[i] = IF i <= Len(s) THEN s[i] ELSE t[i - Len(s)]
  BY <1>1, ConcatProperties
<1>3. Len(s) \in Nat /\ Len(t) \in Nat
  BY <1>1, LenProperties
<1>4. \A i \in 1..Len(s) : i \in 1..Len(s) + Len(t) /\ i <= Len(s)
  BY <1>3
<1>5. \A i \in 1..Len(t) : /\ Len(s) + i \in 1..Len(s) + Len(t) /\ ~(Len(s) + i <= Len(s))
                           /\ (Len(s) + i) - Len(s) = i
  BY <1>3
<1>6. s \o << >> = s /\ << >> \o s = s
  BY <1>1, ConcatEmptySeq
<1>. QED  BY <1>2, <1>4, <1>5, <1>6 DEF Sequence

LEMMA ConcatThree ==
  ASSUME NEW s, Sequence(s), NEW t, Sequence(t), NEW u, Sequence(u)
  PROVE  (s \o t) \o u = s \o (t \o u)
<1>1. PICK S : s \in Seq(S) /\ t \in Seq(S)
  BY SeqOver
<1>2. PICK T : u \in Seq(T)
  BY DEF Sequence
<1>3. s \in Seq(S \cup T) /\ t \in Seq(S \cup T) /\ u \in Seq(S \cup T)
  BY <1>1, <1>2, SeqMonotonic
<1>. QED  BY <1>3, ConcatAssociative

LEMMA TailIs ==
  ASSUME NEW s, Sequence(s), s # << >>
  PROVE  /\ Head(s) = s[1] /\ 1 \in 1..Len(s) /\ Len(s) \in 1..Len(s)
         /\ Sequence(Tail(s)) /\ Len(Tail(s)) = Len(s) - 1
         /\ \A i \in 1..Len(s) - 1 : Tail(s)[i] = s[i + 1]
<1>1. PICK S : s \in Seq(S)
  BY DEF Sequence
<1>2. Len(s) \in Nat \ {0}
  BY <1>1, EmptySeq
<1>. QED  BY <1>1, <1>2, HeadTailProperties DEF Sequence

LEMMA SubSeqIs ==
  ASSUME NEW s, Sequence(s), NEW m \in Nat \ {0}, NEW n \in Nat, n <= Len(s)
  PROVE  /\ Sequence(SubSeq(s, m, n))
         /\ Len(SubSeq(s, m, n)) = IF m <= n THEN (n - m) + 1 ELSE 0
         /\ \A i \in 1..Len(SubSeq(s, m, n)) :
              (m - 1) + i \in 1..Len(s) /\ SubSeq(s, m, n)[i] = s[(m - 1) + i]
<1>1. PICK S : s \in Seq(S)
  BY DEF Sequence
<1>2. \A i \in m..n : s[i] \in S
  <2>1. Len(s) \in Nat /\ \A i \in m..n : i \in 1..Len(s)
    BY <1>1, LenProperties
  <2>. QED  BY <1>1, <2>1, ElementOfSeq
<1>3. /\ SubSeq(s, m, n) \in Seq(S) /\ Len(SubSeq(s, m, n)) = IF m <= n THEN n - m + 1 ELSE 0
      /\ \A i \in 1..n - m + 1 : SubSeq(s, m, n)[i] = s[m + i - 1]
  BY <1>2, SubSeqProperties
<1>4. \A i \in 1..Len(SubSeq(s, m, n)) :
        i \in 1..n - m + 1 /\ m + i - 1 = (m - 1) + i /\ (m - 1) + i \in 1..Len(s)
  <2>1. Len(s) \in Nat
    BY <1>1, LenProperties
  <2>. QED  BY <1>3, <2>1
<1>. QED  BY <1>3, <1>4 DEF Sequence

\* The first elements.
Part(s, n) == SubSeq(s, 1, n)

LEMMA PartIs ==
  ASSUME NEW s, Sequence(s), NEW n \in Nat, n <= Len(s)
  PROVE  /\ Sequence(Part(s, n)) /\ Len(Part(s, n)) = n
         /\ \A i \in 1..n : i \in 1..Len(s) /\ Part(s, n)[i] = s[i]
<1>1. /\ Sequence(Part(s, n)) /\ Len(Part(s, n)) = IF 1 <= n THEN (n - 1) + 1 ELSE 0
      /\ \A i \in 1..Len(Part(s, n)) : (1 - 1) + i \in 1..Len(s) /\ Part(s, n)[i] = s[(1 - 1) + i]
  BY SubSeqIs DEF Part
<1>2. Len(Part(s, n)) = n
  BY <1>1
<1>3. \A i \in 1..n : (1 - 1) + i = i
  OBVIOUS
<1>. QED  BY <1>1, <1>2, <1>3

LEMMA FunctionIs ==
  ASSUME NEW n \in Nat, NEW f, f = [i \in 1..n |-> f[i]]
  PROVE  Sequence(f) /\ Len(f) = n
<1>1. f \in [1..n -> {f[i] : i \in 1..n}]
  OBVIOUS
<1>2. f \in Seq({f[i] : i \in 1..n})
  BY <1>1, SeqDef
<1>3. DOMAIN f = 1..n /\ DOMAIN f = 1..Len(f) /\ Len(f) \in Nat
  BY <1>1, <1>2, LenProperties
<1>4. Len(f) = n
  <2>. SUFFICES ASSUME Len(f) # n PROVE FALSE
    OBVIOUS
  <2>1. CASE Len(f) < n
    <3>1. n \in 1..n /\ n \notin 1..Len(f)
      BY <1>3, <2>1
    <3>. QED  BY <1>3, <3>1
  <2>2. CASE n < Len(f)
    <3>1. Len(f) \in 1..Len(f) /\ Len(f) \notin 1..n
      BY <1>3, <2>2
    <3>. QED  BY <1>3, <3>1
  <2>. QED  BY <1>3, <2>1, <2>2
<1>. QED  BY <1>2, <1>4 DEF Sequence

Updated(s, k, e) == [s EXCEPT ![k] = e]

LEMMA UpdateIs ==
  ASSUME NEW s, Sequence(s), NEW k \in 1..Len(s), NEW e
  PROVE  /\ Sequence(Updated(s, k, e)) /\ Len(Updated(s, k, e)) = Len(s)
         /\ \A i \in 1..Len(s) : Updated(s, k, e)[i] = IF i = k THEN e ELSE s[i]
<1>1. PICK S : s \in Seq(S) /\ e \in S
  BY SeqOver
<1>. QED  BY <1>1, ExceptSeq DEF Sequence, Updated

LEMMA EqualIs ==
  ASSUME NEW s, Sequence(s), NEW t, Sequence(t), Len(s) = Len(t),
         \A i \in 1..Len(s) : s[i] = t[i]
  PROVE  s = t
<1>1. PICK S : s \in Seq(S) /\ t \in Seq(S)
  BY SeqOver
<1>. QED  BY <1>1, SeqEqual

-----------------------------------------------------------------------------
(***************************************************************************)
(* Counting                                                                *)
(***************************************************************************)

\* A set of numbers has a least one.
LEMMA Least ==
  ASSUME NEW S \in SUBSET Nat, S # {}
  PROVE  \E x \in S : \A y \in S : x <= y
<1>. DEFINE below == OpToRel(<, Nat)
<1>1. IsWellFoundedOn(below, Nat)
  BY NatLessThanWellFounded
<1>2. PICK x \in S : \A y \in S : <<y, x>> \notin below
  <2>. HIDE DEF below
  <2>. QED  BY <1>1, WFMin
<1>3. \A y \in S : ~(y < x)
  BY <1>2 DEF OpToRel
<1>4. \A m, n \in Nat : ~(m < n) => n <= m
  OBVIOUS
<1>. QED  BY <1>3, <1>4

\* Sets whose elements are paired have the same size.
LEMMA SameSize ==
  ASSUME NEW S, IsFiniteSet(S), NEW T, NEW f \in [S -> T],
         \A x, y \in S : f[x] = f[y] => x = y,
         \A z \in T : \E x \in S : f[x] = z
  PROVE  IsFiniteSet(T) /\ Cardinality(T) = Cardinality(S)
<1>0. DOMAIN f = S
  OBVIOUS
<1>1. f \in Bijection(S, T)
  <2>1. f \in Injection(S, T)
    BY <1>0 DEF Injection, IsInjective
  <2>2. f \in Surjection(S, T)
    BY DEF Surjection
  <2>. QED  BY <2>1, <2>2 DEF Bijection
<1>2. ExistsBijection(S, T)
  BY <1>1 DEF ExistsBijection
<1>. QED  BY <1>2, FS_Bijection

\* Sets with no element in common.
LEMMA TwoParts ==
  ASSUME NEW S, IsFiniteSet(S), NEW T, IsFiniteSet(T), S \cap T = {}
  PROVE  IsFiniteSet(S \cup T) /\ Cardinality(S \cup T) = Cardinality(S) + Cardinality(T)
<1>1. Cardinality(S) \in Nat /\ Cardinality(T) \in Nat
  BY FS_CardinalityType
<1>2. IsFiniteSet(S \cup T)
      /\ Cardinality(S \cup T) = Cardinality(S) + Cardinality(T) - Cardinality(S \cap T)
  BY FS_Union
<1>3. Cardinality(S \cap T) = 0
  BY FS_EmptySet
<1>. QED  BY <1>1, <1>2, <1>3

=============================================================================
