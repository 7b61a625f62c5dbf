--------------------------- MODULE ContentProofs ---------------------------
(***************************************************************************)
(* Proofs about ContentParser, for any documents, entities and limits.     *)
(*                                                                         *)
(* The stacks of the parser are related to each other and to what the      *)
(* application was told.  What was told is the log and the queue together: *)
(* delivering an event moves it from the one to the other, so that each    *)
(* step adds to both what it does to the stacks.                           *)
(***************************************************************************)
EXTENDS ContentParser, SequenceLemmas

-----------------------------------------------------------------------------
(***************************************************************************)
(* Counting                                                                *)
(***************************************************************************)

\* The first event of the queue is moved behind the log.
LEMMA MoveHeadIs ==
  ASSUME NEW s, Sequence(s), NEW t, Sequence(t), t # << >>
  PROVE  Append(s, Head(t)) \o Tail(t) = s \o t
<1>1. t = <<Head(t)>> \o Tail(t)
  <2>. DEFINE u == <<Head(t)>> \o Tail(t)
  <2>1. /\ Sequence(u) /\ Len(u) = 1 + Len(Tail(t)) /\ u[1] = Head(t)
        /\ \A i \in 1..Len(Tail(t)) : u[1 + i] = Tail(t)[i]
    <3>1. Sequence(<<Head(t)>>) /\ Len(<<Head(t)>>) = 1 /\ <<Head(t)>>[1] = Head(t) /\ 1 \in 1..1
      BY OneIs
    <3>. QED  BY <3>1, TailIs, ConcatIs
  <2>. HIDE DEF u
  <2>2. /\ Len(t) \in Nat \ {0} /\ Head(t) = t[1] /\ Len(Tail(t)) = Len(t) - 1
        /\ \A i \in 1..Len(t) - 1 : Tail(t)[i] = t[i + 1]
    BY TailIs, SequenceIs
  <2>3. \A i \in 1..Len(t) : u[i] = t[i]
    <3>. SUFFICES ASSUME NEW i \in 1..Len(t) PROVE u[i] = t[i]
      OBVIOUS
    <3>1. CASE i = 1
      BY <2>1, <2>2, <3>1
    <3>2. CASE i # 1
      <4>1. PICK k \in 1..Len(t) - 1 : i = 1 + k /\ i = k + 1
        <5>1. i - 1 \in 1..Len(t) - 1 /\ i = 1 + (i - 1) /\ i = (i - 1) + 1
          BY <2>2, <3>2
        <5>. QED  BY <5>1
      <4>. QED  BY <2>1, <2>2, <4>1
    <3>. QED  BY <3>1, <3>2
  <2>4. Len(u) = Len(t)
    BY <2>1, <2>2
  <2>5. u = t
    BY <2>1, <2>3, <2>4, EqualIs
  <2>. QED  BY <2>5 DEF u
<1>2. Append(s, Head(t)) = s \o <<Head(t)>>
  BY AppendIs
<1>3. (s \o <<Head(t)>>) \o Tail(t) = s \o (<<Head(t)>> \o Tail(t))
  <2>1. Sequence(<<Head(t)>>) /\ Sequence(Tail(t))
    BY OneIs, TailIs
  <2>. QED  BY <2>1, ConcatThree
<1>. QED  BY <1>1, <1>2, <1>3

Places(events, kind, name) ==
  {i \in 1..Len(events) : events[i].kind = kind /\ events[i].name = name}

LEMMA CountIs ==
  ASSUME NEW s, Sequence(s), NEW kind, NEW name
  PROVE  /\ Count(s, kind, name) = Cardinality(Places(s, kind, name))
         /\ IsFiniteSet(Places(s, kind, name)) /\ Count(s, kind, name) \in Nat
<1>1. IsFiniteSet(1..Len(s))
  BY SequenceIs, FS_Interval
<1>2. Places(s, kind, name) \subseteq 1..Len(s)
  BY DEF Places
<1>3. IsFiniteSet(Places(s, kind, name))
  BY <1>1, <1>2, FS_Subset
<1>4. Count(s, kind, name) = Cardinality(Places(s, kind, name))
  BY DEF Places, Count
<1>. QED  BY <1>3, <1>4, FS_CardinalityType

\* Nothing of the kind and the name.
LEMMA CountNone ==
  ASSUME NEW s, Sequence(s), NEW kind, NEW name,
         \A i \in 1..Len(s) : ~(s[i].kind = kind /\ s[i].name = name)
  PROVE  Count(s, kind, name) = 0
<1>1. Places(s, kind, name) = {}
  BY DEF Places
<1>. QED  BY <1>1, CountIs, FS_EmptySet

LEMMA CountOne ==
  ASSUME NEW e, NEW kind, NEW name
  PROVE  Count(<<e>>, kind, name) = IF e.kind = kind /\ e.name = name THEN 1 ELSE 0
<1>1. Sequence(<<e>>) /\ Len(<<e>>) = 1 /\ <<e>>[1] = e /\ 1..1 = {1}
  BY OneIs
<1>2. CASE e.kind = kind /\ e.name = name
  <2>1. Places(<<e>>, kind, name) = {1}
    BY <1>1, <1>2 DEF Places
  <2>. QED  BY <1>1, <1>2, <2>1, CountIs, FS_Singleton
<1>3. CASE ~(e.kind = kind /\ e.name = name)
  <2>1. \A i \in 1..Len(<<e>>) : ~(<<e>>[i].kind = kind /\ <<e>>[i].name = name)
    BY <1>1, <1>3
  <2>2. Count(<<e>>, kind, name) = 0
    BY <1>1, <2>1, CountNone
  <2>. QED  BY <1>3, <2>2
<1>. QED  BY <1>2, <1>3

LEMMA CountConcat ==
  ASSUME NEW s, Sequence(s), NEW t, Sequence(t), NEW kind, NEW name
  PROVE  Count(s \o t, kind, name) = Count(s, kind, name) + Count(t, kind, name)
<1>. DEFINE A == Places(s, kind, name)
            B == Places(t, kind, name)
            C == {Len(s) + i : i \in B}
            f == [i \in B |-> Len(s) + i]
<1>1. /\ Sequence(s \o t) /\ Len(s \o t) = Len(s) + Len(t)
      /\ \A i \in 1..Len(s) : (s \o t)[i] = s[i]
      /\ \A i \in 1..Len(t) : (s \o t)[Len(s) + i] = t[i]
      /\ Len(s) \in Nat /\ Len(t) \in Nat
  BY ConcatIs, SequenceIs
<1>2. A \subseteq 1..Len(s) /\ B \subseteq 1..Len(t) /\ IsFiniteSet(A) /\ IsFiniteSet(B)
  <2>1. A \subseteq 1..Len(s) /\ B \subseteq 1..Len(t)
    BY DEF Places
  <2>. HIDE DEF A, B
  <2>2. IsFiniteSet(A) /\ IsFiniteSet(B)
    BY CountIs DEF A, B
  <2>. QED  BY <2>1, <2>2
<1>3. IsFiniteSet(C) /\ Cardinality(C) = Cardinality(B)
  <2>1. \A i, j \in B : f[i] = f[j] => i = j
    <3>1. \A i, j \in Nat : Len(s) + i = Len(s) + j => i = j
      BY <1>1
    <3>2. B \subseteq Nat
      BY <1>1, <1>2
    <3>. QED  BY <3>1, <3>2
  <2>2. f \in [B -> C] /\ \A z \in C : \E i \in B : f[i] = z
    OBVIOUS
  <2>. HIDE DEF B, C, f
  <2>. QED  BY <1>2, <2>1, <2>2, SameSize
<1>4. A \cap C = {}
  BY <1>1, <1>2
<1>5. Places(s \o t, kind, name) = A \cup C
  <2>1. ASSUME NEW k \in Places(s \o t, kind, name) PROVE k \in A \cup C
    <3>1. k \in 1..Len(s) + Len(t) /\ (s \o t)[k].kind = kind /\ (s \o t)[k].name = name
      BY <1>1, <2>1 DEF Places
    <3>2. CASE k \in 1..Len(s)
      BY <1>1, <3>1, <3>2 DEF Places
    <3>3. CASE k \notin 1..Len(s)
      <4>1. PICK i \in 1..Len(t) : k = Len(s) + i
        <5>1. k - Len(s) \in 1..Len(t) /\ k = Len(s) + (k - Len(s))
          BY <1>1, <3>1, <3>3
        <5>. QED  BY <5>1
      <4>2. i \in B
        BY <1>1, <3>1, <4>1 DEF Places
      <4>. QED  BY <4>1, <4>2
    <3>. QED  BY <3>2, <3>3
  <2>2. ASSUME NEW k \in A PROVE k \in Places(s \o t, kind, name)
    BY <1>1, <2>2 DEF Places
  <2>3. ASSUME NEW i \in B PROVE Len(s) + i \in Places(s \o t, kind, name)
    <3>1. i \in 1..Len(t) /\ Len(s) + i \in 1..Len(s) + Len(t)
      BY <1>1, <1>2, <2>3
    <3>. QED  BY <1>1, <2>3, <3>1 DEF Places
  <2>. QED  BY <2>1, <2>2, <2>3
<1>6. Cardinality(A \cup C) = Cardinality(A) + Cardinality(B)
  BY <1>2, <1>3, <1>4, TwoParts
<1>. HIDE DEF A, B, C
<1>7. /\ Count(s \o t, kind, name) = Cardinality(Places(s \o t, kind, name))
      /\ Count(s, kind, name) = Cardinality(A) /\ Count(t, kind, name) = Cardinality(B)
  BY <1>1, CountIs DEF A, B
<1>. QED  BY <1>5, <1>6, <1>7

\* A sequence of events of one kind, for some names read backwards.
Backwards(t, kind, names, n) ==
  /\ Sequence(t) /\ Len(t) = n
  /\ \A i \in 1..n : t[i].kind = kind /\ t[i].name = names[n + 1 - i]

LEMMA CountBackwards ==
  ASSUME NEW n \in Nat, NEW names, NEW t, NEW kind, NEW name, Backwards(t, kind, names, n)
  PROVE  /\ IsFiniteSet({i \in 1..n : names[i] = name})
         /\ Count(t, kind, name) = Cardinality({i \in 1..n : names[i] = name})
<1>. DEFINE A == {i \in 1..n : names[i] = name}
            f == [i \in A |-> n + 1 - i]
<1>2. IsFiniteSet(A)
  <2>1. IsFiniteSet(1..n)
    BY FS_Interval
  <2>. QED  BY <2>1, FS_Subset
<1>3. \A i \in 1..n : n + 1 - i \in 1..n /\ n + 1 - (n + 1 - i) = i
  OBVIOUS
<1>4. Places(t, kind, name) = {i \in 1..n : names[n + 1 - i] = name}
  BY DEF Places, Backwards
<1>5. f \in [A -> Places(t, kind, name)]
  BY <1>3, <1>4
<1>6. \A i, j \in A : f[i] = f[j] => i = j
  OBVIOUS
<1>7. \A z \in Places(t, kind, name) : \E i \in A : f[i] = z
  <2>. SUFFICES ASSUME NEW z \in Places(t, kind, name) PROVE n + 1 - z \in A /\ f[n + 1 - z] = z
    OBVIOUS
  <2>. QED  BY <1>3, <1>4
<1>. HIDE DEF A, f
<1>8. Cardinality(Places(t, kind, name)) = Cardinality(A)
  BY <1>2, <1>5, <1>6, <1>7, SameSize
<1>. QED  BY <1>2, <1>8, CountIs DEF A, Backwards

-----------------------------------------------------------------------------
(***************************************************************************)
(* Tokens and the places CHOOSE finds                                      *)
(***************************************************************************)

LEMMA DecodedIs ==
  ASSUME NEW from \in Nat, NEW to \in Nat, from <= to
  PROVE  DecodedTo(from, to) \in from..to
<1>. DEFINE bad == {i \in (from + 1)..to : doc[i].kind \in Undecodable}
            Fits(n) == /\ \A i \in (from + 1)..n : doc[i].kind \notin Undecodable
                       /\ n < to => doc[n + 1].kind \in Undecodable
<1>1. \E n \in from..to : Fits(n)
  <2>1. CASE bad = {}
    BY <2>1
  <2>2. CASE bad # {}
    <3>1. PICK x \in bad : \A y \in bad : x <= y
      <4>1. bad \in SUBSET Nat
        OBVIOUS
      <4>. HIDE DEF bad
      <4>. QED  BY <2>2, <4>1, Least
    <3>2. x - 1 \in from..to /\ (x - 1) + 1 = x /\ doc[x].kind \in Undecodable
      BY <3>1
    <3>3. \A i \in (from + 1)..(x - 1) : doc[i].kind \notin Undecodable
      <4>1. \A i \in (from + 1)..(x - 1) : i \in (from + 1)..to /\ ~(x <= i)
        BY <3>1
      <4>. QED  BY <3>1, <4>1
    <3>4. Fits(x - 1)
      BY <3>2, <3>3
    <3>. QED  BY <3>2, <3>4
  <2>. QED  BY <2>1, <2>2
<1>. QED  BY <1>1 DEF DecodedTo

LEMMA RunIs ==
  ASSUME Sequence(Rest)
  PROVE  RunLength \in 0..Len(Rest)
<1>. DEFINE other == {i \in 1..Len(Rest) : Rest[i].kind \notin Character}
            Fits(n) == /\ \A i \in 1..n : Rest[i].kind \in Character
                       /\ n < Len(Rest) => Rest[n + 1].kind \notin Character
<1>0. Len(Rest) \in Nat
  BY SequenceIs
<1>1. \E n \in 0..Len(Rest) : Fits(n)
  <2>1. CASE other = {}
    BY <1>0, <2>1
  <2>2. CASE other # {}
    <3>1. PICK x \in other : \A y \in other : x <= y
      <4>1. other \in SUBSET Nat
        BY <1>0
      <4>. HIDE DEF other
      <4>. QED  BY <2>2, <4>1, Least
    <3>2. x - 1 \in 0..Len(Rest) /\ (x - 1) + 1 = x /\ Rest[x].kind \notin Character
      BY <1>0, <3>1
    <3>3. \A i \in 1..(x - 1) : Rest[i].kind \in Character
      <4>1. \A i \in 1..(x - 1) : i \in 1..Len(Rest) /\ ~(x <= i)
        BY <1>0, <3>1
      <4>. QED  BY <3>1, <4>1
    <3>4. Fits(x - 1)
      BY <3>2, <3>3
    <3>. QED  BY <3>2, <3>4
  <2>. QED  BY <2>1, <2>2
<1>. QED  BY <1>1 DEF RunLength

\* The declarations of a start tag, and how many come before the one it fails on.
LEMMA StartErrorIs ==
  ASSUME NEW token, Sequence(token.decls)
  PROVE  StartError(token).after \in 0..Len(token.decls)
<1>. DEFINE decls == token.decls
            forbidden == {i \in 1..Len(decls) : Forbidden(decls[i])}
            first == CHOOSE i \in forbidden : \A j \in forbidden : i <= j
<1>0. Len(decls) \in Nat
  BY SequenceIs
<1>1. forbidden # {} => first - 1 \in 0..Len(decls)
  <2>. SUFFICES ASSUME forbidden # {} PROVE first - 1 \in 0..Len(decls)
    OBVIOUS
  <2>1. \E i \in forbidden : \A j \in forbidden : i <= j
    <3>1. forbidden \in SUBSET Nat
      BY <1>0
    <3>. HIDE DEF forbidden
    <3>. QED  BY <3>1, Least
  <2>2. first \in forbidden
    BY <2>1
  <2>. QED  BY <1>0, <2>2
<1>2. StartError(token).after \in {0, first - 1, Len(decls)} /\ (StartError(token).after = first - 1 => forbidden # {} \/ StartError(token).after \in {0, Len(decls)})
  BY DEF StartError
<1>. QED  BY <1>0, <1>1, <1>2

LEMMA SoundIs ==
  ASSUME NEW tokens
  PROVE  Sound(tokens) <=> Sequence(tokens) /\ \A i \in 1..Len(tokens) : SoundToken(tokens[i])
<1>1. Sound(tokens) => Sequence(tokens)
  BY DEF Sound, Sequence
<1>2. Sequence(tokens) => tokens \in Seq({tokens[i] : i \in 1..Len(tokens)})
  BY SequenceIs
<1>. QED  BY <1>1, <1>2 DEF Sound

LEMMA SoundConcat ==
  ASSUME NEW s, Sound(s), NEW t, Sound(t)
  PROVE  Sound(s \o t)
<1>1. Sequence(s) /\ Sequence(t) /\ Len(s) \in Nat /\ Len(t) \in Nat
  BY SoundIs, SequenceIs
<1>2. /\ Sequence(s \o t) /\ Len(s \o t) = Len(s) + Len(t)
      /\ \A i \in 1..Len(s) : (s \o t)[i] = s[i]
      /\ \A i \in 1..Len(t) : (s \o t)[Len(s) + i] = t[i]
  BY <1>1, ConcatIs
<1>3. ASSUME NEW i \in 1..Len(s) + Len(t) PROVE SoundToken((s \o t)[i])
  <2>1. CASE i \in 1..Len(s)
    BY <1>2, <2>1, SoundIs
  <2>2. CASE i \notin 1..Len(s)
    <3>1. PICK k \in 1..Len(t) : i = Len(s) + k
      <4>1. i - Len(s) \in 1..Len(t) /\ i = Len(s) + (i - Len(s))
        BY <1>1, <2>2
      <4>. QED  BY <4>1
    <3>. QED  BY <1>2, <3>1, SoundIs
  <2>. QED  BY <2>1, <2>2
<1>. QED  BY <1>2, <1>3, SoundIs

LEMMA SoundPart ==
  ASSUME NEW s, Sound(s), NEW m \in Nat \ {0}, NEW n \in Nat, n <= Len(s)
  PROVE  Sound(SubSeq(s, m, n))
<1>1. Sequence(s)
  BY SoundIs
<1>. QED  BY <1>1, SubSeqIs, SoundIs

LEMMA SoundTail ==
  ASSUME NEW s, Sound(s), s # << >>
  PROVE  Sound(Tail(s)) /\ SoundToken(Head(s)) /\ Sequence(s)
<1>1. Sequence(s)
  BY SoundIs
<1>2. /\ Head(s) = s[1] /\ 1 \in 1..Len(s) /\ Sequence(Tail(s)) /\ Len(Tail(s)) = Len(s) - 1
      /\ \A i \in 1..Len(s) - 1 : Tail(s)[i] = s[i + 1]
      /\ Len(s) \in Nat
  BY <1>1, TailIs, SequenceIs
<1>3. \A i \in 1..Len(s) - 1 : i + 1 \in 1..Len(s)
  BY <1>2
<1>. QED  BY <1>1, <1>2, <1>3, SoundIs

-----------------------------------------------------------------------------
(***************************************************************************)
(* The first error                                                         *)
(***************************************************************************)

LEMMA ScanNeeds == Scan => Scanning
<1>1. PopSource \/ EndOfInput \/ PartialToken => Scanning
  BY DEF PopSource, EndOfInput, PartialToken
<1>2. ReadText \/ TerminatorInText \/ OuterText => Scanning
  BY DEF ReadText, TerminatorInText, OuterText, AtCharacter
<1>3. ReadMisc \/ ReadBad \/ OpenCdata \/ CloseCdata => Scanning
  BY DEF ReadMisc, ReadBad, OpenCdata, CloseCdata, Next
<1>4. ReadReference \/ ReadStart \/ ReadEnd \/ OutOfResources => Scanning
  BY DEF ReadReference, ReadStart, ReadEnd, OutOfResources, Next
<1>. QED  BY <1>1, <1>2, <1>3, <1>4 DEF Scan

\* An error is final, but for an encoding the application then supplies: once
\* next_event has recorded one, no call of the parser replaces it, reads on or
\* changes the stacks, and only the events queued before it are delivered.
THEOREM ErrorFinalCorrect == Spec => ErrorFinal
<1>1. ASSUME Step PROVE FinalStep
  <2>. SUFFICES ASSUME error \notin {"none", "UnknownEncoding"},
                       decodingError # "UnknownEncoding"
                PROVE  /\ error' = error /\ UNCHANGED <<sources, stack, bindings>>
                       /\ log' \in {log} \cup (IF pending = << >> THEN {} ELSE {Append(log, Head(pending))})
                       /\ outcome' = "finished" => outcome = "finished"
    BY DEF FinalStep
  <2>1. CASE Application
    <3>1. Call
      BY <2>1 DEF Application, FeedFails, ResolveEncoding, ResolveConversion, Feed
    <3>. QED  BY <3>1 DEF Call, nestVars, historyVars
  <2>2. CASE Answer
    BY <2>2 DEF Answer, Return, Deliver, nestVars
  <2>3. CASE Scan
    BY <2>3, ScanNeeds DEF Scanning
  <2>. QED  BY <1>1, <2>1, <2>2, <2>3 DEF Step
<1>. QED  BY <1>1, PTL DEF Spec, ErrorFinal

-----------------------------------------------------------------------------
(***************************************************************************)
(* The inductive invariant                                                 *)
(***************************************************************************)

\* Input, with its decoder: what stops it is behind what is decoded.
Typed ==
  /\ input \in Inputs /\ received \in Nat /\ decoded \in Nat
  /\ decoded <= received /\ received <= Len(doc)
  /\ decodingError # "none" \/ converting => decoded < received
  /\ {finalInput, converting, inCdata, seenRoot, closedRoot, finished, calling} \subseteq BOOLEAN
  /\ part \in {"none", "fed", "read"}
  /\ outcome \in {"none", "event", "more", "error", "finished"}

\* A source, with the tokens left in it.
Source(source, height) ==
  /\ source = [name |-> source.name, rest |-> source.rest, depth |-> source.depth]
  /\ Sound(source.rest) /\ source.depth \in Nat /\ source.depth <= height

\* The sources, whatever the recorded error.
Nested ==
  /\ Sequence(sources) /\ sources # << >> /\ sources[1].name = "" /\ sources[1].depth = 0
  /\ \A i \in 1..Len(sources) : Source(sources[i], Len(stack))
  /\ \A i \in 2..Len(sources) : sources[i].name \in EntityNames
  /\ \A i, j \in 2..Len(sources) : i < j =>
       sources[i].name # sources[j].name /\ sources[i].depth <= sources[j].depth
  /\ Len(sources) > 1 => Len(sources) - 1 + ExternalDepth <= MaxEntityDepth

\* The index of open entities holds each name once, or not at all, while no
\* error, or none but an unknown encoding, is recorded.
Indexed ==
  /\ active \in [EntityNames -> Nat]
  /\ error = "none" \/ (error # "NoMemory" /\ decodingError = "UnknownEncoding") =>
       \A n \in EntityNames :
         active[n] = IF \E i \in 2..Len(sources) : sources[i].name = n THEN 1 ELSE 0

\* The open elements, and the undo blocks of those that declared something.
Block(block) == Sequence(block) /\ \A i \in 1..Len(block) : block[i].prefix \in Prefixes

Elements ==
  /\ Sequence(stack) /\ Sequence(scopes) /\ DOMAIN bindings = Prefixes
  /\ \A i \in 1..Len(stack) : stack[i].name \in DOMAIN PrefixOf /\ stack[i].scope \in Nat
  /\ \A s \in 1..Len(scopes) : Block(scopes[s])
  /\ ScopesOwned

\* What the application was told, or is about to be.
Events(events) ==
  Sequence(events) /\ \A i \in 1..Len(events) : events[i].kind \in EventKinds

Told ==
  /\ Events(log) /\ Events(pending)
  /\ Announced(log \o pending)
  /\ ~calling /\ outcome \in {"more", "error", "finished"} => pending = << >>

IInv == Typed /\ Nested /\ Indexed /\ Elements /\ Told

LEMMA Sources ==
  ASSUME Nested
  PROVE  /\ Len(sources) \in Nat \ {0} /\ 1 \in 1..Len(sources) /\ Len(sources) \in 1..Len(sources)
         /\ Source(Top, Len(stack)) /\ Sound(Rest) /\ Sequence(Rest) /\ Len(Rest) \in Nat
         /\ AtRoot => Top.depth = 0
<1>1. Len(sources) \in Nat \ {0} /\ 1 \in 1..Len(sources) /\ Len(sources) \in 1..Len(sources)
  <2>1. Sequence(sources) /\ sources # << >>
    BY DEF Nested
  <2>2. Len(sources) \in Nat /\ Len(sources) # 0
    BY <2>1, SequenceIs
  <2>. QED  BY <2>2
<1>2. Source(Top, Len(stack)) /\ (AtRoot => Top.depth = 0)
  BY <1>1 DEF Nested, Top, AtRoot
<1>3. Sound(Rest)
  BY <1>2 DEF Source, Rest
<1>. QED  BY <1>1, <1>2, <1>3, SoundIs, SequenceIs

LEMMA Tokens ==
  /\ \A i \in Inputs : Sound(i.tokens) /\ Sequence(i.tokens) /\ Len(i.tokens) \in Nat
  /\ \A n \in EntityNames : Sound(EntityValue[n])
BY TokensAssumption, SoundIs, SequenceIs

-----------------------------------------------------------------------------
(***************************************************************************)
(* Input and the decoder                                                   *)
(***************************************************************************)

LEMMA DecodeIs ==
  ASSUME Typed, NEW characters, NEW from \in Nat, NEW to \in Nat, from <= to, to <= Len(doc),
         Decode(characters, from, to)
  PROVE  /\ decoded' \in from..to /\ converting' \in BOOLEAN
         /\ decodingError' # "none" \/ converting' => decoded' < to
         /\ Publish(characters, from, decoded')
<1>. DEFINE n == DecodedTo(from, to)
            stop == IF n = to THEN "" ELSE doc[n + 1].kind
<1>1. n \in from..to
  BY DecodedIs
<1>. HIDE DEF n
<1>2. /\ decoded' = n /\ Publish(characters, from, n) /\ converting' = (stop = "convert")
      /\ decodingError' = CASE stop = "garbled" -> doc[n + 1].name
                            [] stop = "unknown" -> "UnknownEncoding"
                            [] OTHER -> "none"
  BY DEF Decode, n
<1>3. n = to => stop = ""
  OBVIOUS
<1>. HIDE DEF stop
<1>4. n = to => ~converting' /\ decodingError' = "none"
  BY <1>2, <1>3
<1>5. converting' \in BOOLEAN
  BY <1>2
<1>. QED  BY <1>1, <1>2, <1>4, <1>5

\* How next_event answers with an error.
LEMMA RaiseIs ==
  ASSUME NEW kind, NEW queue, NEW names, Raise(kind, queue, names)
  PROVE  calling' = FALSE /\ outcome' \in {"error", "event"}
BY DEF Raise, Return, Deliver

\* A scanning step leaves the input and the decoder alone, and so does an answer.
LEMMA ScanTyped ==
  ASSUME Typed, Answer \/ Scan
  PROVE  /\ UNCHANGED <<input, received, finalInput, decoded, decodingError, converting>>
         /\ {inCdata', seenRoot', closedRoot', finished', calling'} \subseteq BOOLEAN
         /\ part' \in {"none", "fed", "read"}
         /\ outcome' \in {"none", "event", "more", "error", "finished"}
<1>. USE DEF Typed
<1>1. CASE Answer
  BY <1>1 DEF Answer, Return, Deliver, inputVars, decoderVars, phaseVars
<1>2. ASSUME NEW kind, NEW queue, Fail(kind, queue)
      PROVE  /\ UNCHANGED <<input, received, finalInput, decoded, decodingError, converting>>
             /\ UNCHANGED <<inCdata, seenRoot, closedRoot, finished, part>> /\ calling' = FALSE
             /\ outcome' \in {"event", "error"}
  BY <1>2, RaiseIs DEF Fail, inputVars, decoderVars, phaseVars
<1>3. CASE PopSource
  <2>1. calling' \in BOOLEAN /\ outcome' \in {"none", "event", "more", "error", "finished"}
    BY <1>3, RaiseIs DEF PopSource, historyVars
  <2>. QED  BY <1>3, <2>1 DEF PopSource, inputVars, decoderVars, phaseVars
<1>4. CASE EndOfInput
  BY <1>2, <1>4 DEF EndOfInput, Wait, Return, inputVars, decoderVars, phaseVars
<1>5. CASE PartialToken
  BY <1>2, <1>5 DEF PartialToken, Wait, Return, inputVars, decoderVars, phaseVars, historyVars
<1>6. CASE ReadText
  BY <1>2, <1>6 DEF ReadText, Emit, inputVars, decoderVars, phaseVars, historyVars
<1>7. CASE TerminatorInText \/ ReadBad \/ OutOfResources
  BY <1>2, <1>7 DEF TerminatorInText, ReadBad, OutOfResources
<1>8. CASE OuterText
  BY <1>2, <1>8 DEF OuterText, Wait, Return, inputVars, decoderVars, phaseVars, historyVars
<1>9. CASE ReadMisc
  BY <1>2, <1>9 DEF ReadMisc, Emit, inputVars, decoderVars, phaseVars, historyVars
<1>10. CASE OpenCdata \/ CloseCdata
  BY <1>2, <1>10 DEF OpenCdata, CloseCdata, Emit, inputVars, decoderVars, phaseVars, historyVars
<1>11. CASE ReadReference
  BY <1>2, <1>11 DEF ReadReference, Emit, inputVars, decoderVars, phaseVars, historyVars
<1>12. CASE ReadStart
  BY <1>2, <1>12 DEF ReadStart, Emit, Closes, inputVars, decoderVars, phaseVars, historyVars
<1>13. CASE ReadEnd
  BY <1>2, <1>13 DEF ReadEnd, Emit, Closes, inputVars, decoderVars, phaseVars, historyVars
<1>. QED  BY <1>1, <1>3, <1>4, <1>5, <1>6, <1>7, <1>8, <1>9, <1>10, <1>11, <1>12, <1>13 DEF Scan

LEMMA TypedStep ==
  ASSUME Typed, Step
  PROVE  Typed'
<1>1. CASE Answer \/ Scan
  <2>1. doc' = doc
    BY <1>1, ScanTyped DEF doc
  <2>. QED  BY <1>1, <2>1, ScanTyped DEF Typed
<1>. DEFINE Kept == UNCHANGED <<input, finalInput, inCdata, seenRoot, closedRoot, finished, calling, outcome>>
<1>2. ASSUME NEW characters, NEW from \in Nat, NEW to \in Nat, from <= to, to <= Len(doc),
             decoded < from \/ from = decoded,
             Decode(characters, from, to), received' = to, input' = input
      PROVE  /\ received' \in Nat /\ decoded' \in Nat /\ decoded' <= received' /\ received' <= Len(doc')
             /\ decodingError' # "none" \/ converting' => decoded' < received'
             /\ converting' \in BOOLEAN
  <2>1. doc' = doc
    BY <1>2 DEF doc
  <2>2. /\ decoded' \in from..to /\ converting' \in BOOLEAN
        /\ decodingError' # "none" \/ converting' => decoded' < to
    BY <1>2, DecodeIs
  <2>. QED  BY <1>2, <2>1, <2>2
<1>3. CASE Application
  <2>0. Len(doc) \in Nat
    BY Tokens DEF Typed, doc
  <2>1. CASE Call \/ FeedFails
    <3>1. doc' = doc
      BY <2>1 DEF doc, Call, FeedFails, inputVars
    <3>2. /\ UNCHANGED <<received, finalInput, part, decoded, decodingError, converting>>
          /\ UNCHANGED <<input, inCdata, seenRoot, closedRoot, finished, outcome>>
          /\ calling' \in {calling, TRUE}
      BY <2>1 DEF Call, FeedFails, inputVars, decoderVars, phaseVars, historyVars
    <3>. QED  BY <3>1, <3>2 DEF Typed
  <2>2. CASE ResolveEncoding
    <3>1. received' = received /\ input' = input /\ decoded + 1 \in Nat /\ decoded + 1 <= received
      BY <2>2 DEF ResolveEncoding, inputVars, Typed
    <3>2. Decode(<< >>, decoded + 1, received)
      BY <2>2 DEF ResolveEncoding
    <3>3. /\ received' \in Nat /\ decoded' \in Nat /\ decoded' <= received' /\ received' <= Len(doc')
          /\ decodingError' # "none" \/ converting' => decoded' < received'
          /\ converting' \in BOOLEAN
      BY <1>2, <3>1, <3>2 DEF Typed
    <3>. QED  BY <2>2, <3>1, <3>3 DEF ResolveEncoding, Typed, inputVars, phaseVars, historyVars
  <2>3. CASE ResolveConversion
    <3>1. received' = received /\ input' = input /\ decoded + 1 \in Nat /\ decoded + 1 <= received
      BY <2>3 DEF ResolveConversion, inputVars, Typed
    <3>2. CASE Decode(<<[doc[decoded + 1] EXCEPT !.kind = "char"]>>, decoded + 1, received)
      <4>1. /\ received' \in Nat /\ decoded' \in Nat /\ decoded' <= received' /\ received' <= Len(doc')
            /\ decodingError' # "none" \/ converting' => decoded' < received'
            /\ converting' \in BOOLEAN
        BY <1>2, <3>1, <3>2 DEF Typed
      <4>. QED  BY <2>3, <3>1, <4>1 DEF ResolveConversion, Typed, inputVars, phaseVars, historyVars
    <3>3. CASE UNCHANGED <<decoderVars, sources>>
      <4>1. doc' = doc
        BY <3>1 DEF doc
      <4>. QED  BY <2>3, <3>1, <3>3, <4>1 DEF ResolveConversion, Typed, inputVars, decoderVars, phaseVars, historyVars
    <3>. QED  BY <2>3, <3>2, <3>3 DEF ResolveConversion
  <2>4. ASSUME NEW count \in 0..Len(doc), NEW beginning \in BOOLEAN, NEW final \in BOOLEAN,
               Feed(count, beginning, final)
        PROVE  Typed'
    <3>1. /\ received' = received + count /\ input' = input /\ received + count <= Len(doc)
          /\ finalInput' = final /\ part' \in {"none", "fed"}
      BY <2>4 DEF Feed
    <3>2. received' \in Nat /\ received <= received' /\ decoded <= received' /\ doc' = doc
      BY <2>0, <3>1 DEF Typed, doc
    <3>3. CASE decodingError = "none" /\ ~converting
      <4>1. Decode(<< >>, decoded, received')
        BY <2>4, <3>3 DEF Feed
      <4>2. /\ received' \in Nat /\ decoded' \in Nat /\ decoded' <= received' /\ received' <= Len(doc')
            /\ decodingError' # "none" \/ converting' => decoded' < received'
            /\ converting' \in BOOLEAN
        BY <1>2, <3>1, <3>2, <4>1 DEF Typed
      <4>. QED  BY <2>4, <3>1, <4>2 DEF Feed, Typed, phaseVars, historyVars
    <3>4. CASE ~(decodingError = "none" /\ ~converting)
      <4>1. UNCHANGED decoderVars
        BY <2>4, <3>4 DEF Feed
      <4>2. decoded' <= received' /\ (decodingError' # "none" \/ converting' => decoded' < received')
        BY <2>0, <3>2, <4>1 DEF decoderVars, Typed
      <4>. QED  BY <2>4, <3>1, <3>2, <4>1, <4>2 DEF Feed, Typed, decoderVars, phaseVars, historyVars
    <3>. QED  BY <3>3, <3>4
  <2>. QED  BY <1>3, <2>1, <2>2, <2>3, <2>4 DEF Application
<1>. QED  BY <1>1, <1>3 DEF Step

-----------------------------------------------------------------------------
(***************************************************************************)
(* The sources                                                             *)
(***************************************************************************)

\* The sources are the same ones, with other tokens left.
Alike ==
  /\ Sequence(sources') /\ Len(sources') = Len(sources)
  /\ \A i \in 1..Len(sources) :
       /\ sources'[i] = [name |-> sources[i].name, rest |-> sources'[i].rest, depth |-> sources[i].depth]
       /\ Sound(sources'[i].rest)

LEMMA SameAlike ==
  ASSUME Nested, UNCHANGED sources
  PROVE  Alike
BY DEF Nested, Alike, Source

LEMMA OtherSource ==
  ASSUME Nested, NEW k \in 1..Len(sources), NEW rest, Sound(rest), NEW changed,
         changed = [name |-> sources[k].name, rest |-> rest, depth |-> sources[k].depth],
         sources' = Updated(sources, k, changed)
  PROVE  Alike
<1>1. Sequence(sources)
  BY DEF Nested
<1>2. /\ Sequence(sources') /\ Len(sources') = Len(sources)
      /\ \A i \in 1..Len(sources) : sources'[i] = IF i = k THEN changed ELSE sources[i]
  BY <1>1, UpdateIs
<1>3. ASSUME NEW i \in 1..Len(sources)
      PROVE  /\ sources'[i] = [name |-> sources[i].name, rest |-> sources'[i].rest, depth |-> sources[i].depth]
             /\ Sound(sources'[i].rest)
  <2>1. CASE i = k
    BY <1>2, <2>1
  <2>2. CASE i # k
    <3>1. Source(sources[i], Len(stack)) /\ sources'[i] = sources[i]
      BY <1>2, <2>2 DEF Nested
    <3>. QED  BY <3>1 DEF Source
  <2>. QED  BY <2>1, <2>2
<1>. QED  BY <1>2, <1>3 DEF Alike

LEMMA OtherRest ==
  ASSUME Nested, NEW k \in 1..Len(sources), NEW rest, Sound(rest),
         sources' = [sources EXCEPT ![k].rest = rest]
  PROVE  Alike
<1>1. Source(sources[k], Len(stack))
  BY DEF Nested
<1>2. PICK changed : /\ changed = [sources[k] EXCEPT !.rest = rest]
                     /\ sources' = Updated(sources, k, changed)
  BY DEF Updated
<1>3. changed = [name |-> sources[k].name, rest |-> rest, depth |-> sources[k].depth]
  BY <1>1, <1>2 DEF Source
<1>. QED  BY <1>2, <1>3, OtherSource

LEMMA ConsumeAlike ==
  ASSUME Nested, NEW count \in Nat, count <= Len(Rest), Consume(count)
  PROVE  Alike
<1>1. Sound(Rest) /\ Len(Rest) \in Nat /\ Len(sources) \in 1..Len(sources)
  BY Sources
<1>2. Sound(SubSeq(Rest, count + 1, Len(Rest)))
  BY <1>1, SoundPart
<1>3. sources' = [sources EXCEPT ![Len(sources)].rest = SubSeq(Rest, count + 1, Len(Rest))]
  BY DEF Consume, Rest, Top
<1>. QED  BY <1>1, <1>2, <1>3, OtherRest

LEMMA PublishAlike ==
  ASSUME Typed, Nested, NEW characters, Sound(characters), NEW from \in Nat, NEW to \in Nat,
         to <= Len(doc), Publish(characters, from, to)
  PROVE  Alike
<1>1. Sound(doc) /\ 1 \in 1..Len(sources)
  BY Tokens, Sources DEF Typed, doc
<1>2. Sound(sources[1].rest)
  BY <1>1 DEF Nested, Source
<1>3. Sound(SubSeq(doc, from + 1, to))
  BY <1>1, SoundPart
<1>4. Sound(sources[1].rest \o characters \o SubSeq(doc, from + 1, to))
  BY <1>2, <1>3, SoundConcat
<1>5. sources' = [sources EXCEPT ![1].rest = sources[1].rest \o characters \o SubSeq(doc, from + 1, to)]
  BY DEF Publish
<1>. QED  BY <1>1, <1>4, <1>5, OtherRest

\* What the application does between calls only adds to the first source.
LEMMA ApplicationAlike ==
  ASSUME Typed, Nested, Application
  PROVE  Alike
<1>1. Sound(<< >>)
  BY EmptyIs, SoundIs
<1>2. Len(doc) \in Nat
  BY Tokens DEF Typed, doc
<1>3. ASSUME NEW characters, Sound(characters), NEW from \in Nat, NEW to \in Nat, from <= to,
             to <= Len(doc), Decode(characters, from, to)
      PROVE  Alike
  <2>1. decoded' \in from..to /\ Publish(characters, from, decoded')
    BY <1>3, DecodeIs
  <2>2. decoded' \in Nat /\ decoded' <= Len(doc)
    BY <1>2, <1>3, <2>1
  <2>. QED  BY <1>3, <2>1, <2>2, PublishAlike
<1>4. CASE Call \/ FeedFails
  BY <1>4, SameAlike DEF Call, FeedFails, nestVars
<1>5. CASE ResolveEncoding
  <2>1. decoded + 1 \in Nat /\ decoded + 1 <= received /\ Decode(<< >>, decoded + 1, received)
    BY <1>5 DEF ResolveEncoding, Typed
  <2>. QED  BY <1>1, <1>3, <2>1 DEF Typed
<1>6. CASE ResolveConversion
  <2>1. decoded + 1 \in Nat /\ decoded + 1 <= received /\ decoded + 1 \in 1..Len(doc)
    BY <1>2, <1>6 DEF ResolveConversion, Typed
  <2>2. CASE UNCHANGED <<decoderVars, sources>>
    BY <2>2, SameAlike
  <2>3. CASE Decode(<<[doc[decoded + 1] EXCEPT !.kind = "char"]>>, decoded + 1, received)
    <3>. DEFINE character == [doc[decoded + 1] EXCEPT !.kind = "char"]
    <3>1. SoundToken(doc[decoded + 1])
      BY <2>1, Tokens, SoundIs DEF Typed, doc
    <3>2. character = [kind |-> "char", name |-> doc[decoded + 1].name, decls |-> doc[decoded + 1].decls]
      BY <3>1 DEF SoundToken
    <3>3. SoundToken(character)
      BY <3>2 DEF SoundToken
    <3>. HIDE DEF character
    <3>4. Sound(<<character>>)
      <4>1. Sequence(<<character>>) /\ Len(<<character>>) = 1 /\ <<character>>[1] = character
        BY OneIs
      <4>2. \A i \in 1..1 : i = 1
        OBVIOUS
      <4>. QED  BY <3>3, <4>1, <4>2, SoundIs
    <3>5. Decode(<<character>>, decoded + 1, received)
      BY <2>3 DEF character
    <3>. QED  BY <1>3, <2>1, <3>4, <3>5 DEF Typed
  <2>. QED  BY <1>6, <2>2, <2>3 DEF ResolveConversion
<1>7. ASSUME NEW count \in 0..Len(doc), NEW beginning \in BOOLEAN, NEW final \in BOOLEAN,
             Feed(count, beginning, final)
      PROVE  Alike
  <2>1. received' = received + count /\ received' \in Nat /\ decoded <= received' /\ received' <= Len(doc)
    BY <1>2, <1>7 DEF Feed, Typed
  <2>2. CASE Decode(<< >>, decoded, received')
    BY <1>1, <1>3, <2>1, <2>2 DEF Typed
  <2>3. CASE UNCHANGED sources
    BY <2>3, SameAlike
  <2>. QED  BY <1>7, <2>2, <2>3 DEF Feed
<1>. QED  BY <1>4, <1>5, <1>6, <1>7 DEF Application

\* The sources, nesting in at least as many elements as the innermost needs.
LEMMA NestedAlike ==
  ASSUME Nested, Alike, input' = input, Len(stack') \in Nat, Len(stack) \in Nat,
         \A i \in 1..Len(sources) : sources[i].depth <= Len(stack')
  PROVE  Nested'
<1>1. Len(sources) \in Nat \ {0} /\ 1 \in 1..Len(sources)
  BY Sources
<1>2. \A i \in 1..Len(sources) :
        /\ sources'[i].name = sources[i].name /\ sources'[i].depth = sources[i].depth
        /\ Source(sources'[i], Len(stack'))
  <2>. SUFFICES ASSUME NEW i \in 1..Len(sources)
                PROVE  /\ sources'[i].name = sources[i].name /\ sources'[i].depth = sources[i].depth
                       /\ Source(sources'[i], Len(stack'))
    OBVIOUS
  <2>1. sources[i].depth \in Nat /\ sources[i].depth <= Len(stack')
    BY DEF Nested, Source
  <2>2. sources'[i] = [name |-> sources[i].name, rest |-> sources'[i].rest, depth |-> sources[i].depth]
        /\ Sound(sources'[i].rest)
    BY DEF Alike
  <2>3. sources'[i].name = sources[i].name /\ sources'[i].depth = sources[i].depth
    BY <2>2
  <2>. QED  BY <2>1, <2>2, <2>3 DEF Source
<1>3. \A i \in 2..Len(sources) : i \in 1..Len(sources)
  BY <1>1
<1>4. Sequence(sources') /\ sources' # << >> /\ Len(sources') = Len(sources)
  BY <1>1, SequenceIs DEF Alike
<1>5. ExternalDepth' = ExternalDepth
  BY DEF ExternalDepth
<1>6. /\ sources'[1].name = "" /\ sources'[1].depth = 0
      /\ \A i \in 1..Len(sources') : Source(sources'[i], Len(stack'))
  BY <1>1, <1>2, <1>4 DEF Nested
<1>7. \A i \in 2..Len(sources') : sources'[i].name \in EntityNames
  BY <1>2, <1>3, <1>4 DEF Nested
<1>8. \A i, j \in 2..Len(sources') : i < j =>
        sources'[i].name # sources'[j].name /\ sources'[i].depth <= sources'[j].depth
  <2>1. \A i, j \in 2..Len(sources) : i < j =>
          sources[i].name # sources[j].name /\ sources[i].depth <= sources[j].depth
    BY DEF Nested
  <2>2. \A i \in 2..Len(sources) :
          sources'[i].name = sources[i].name /\ sources'[i].depth = sources[i].depth
    BY <1>2, <1>3
  <2>. QED  BY <1>4, <2>1, <2>2
<1>9. Len(sources') > 1 => Len(sources') - 1 + ExternalDepth' <= MaxEntityDepth
  BY <1>4, <1>5 DEF Nested
<1>. QED  BY <1>4, <1>6, <1>7, <1>8, <1>9 DEF Nested

-----------------------------------------------------------------------------
(***************************************************************************)
(* What the events announce                                                *)
(***************************************************************************)

Nesting == {"StartNamespace", "EndNamespace", "StartElement", "EndElement"}

\* Events that close what they announce, and nothing else.
Neutral(events) ==
  /\ Events(events)
  /\ \A p \in Prefixes : Count(events, "StartNamespace", p) = Count(events, "EndNamespace", p)
  /\ \A n \in DOMAIN PrefixOf : Count(events, "StartElement", n) = Count(events, "EndElement", n)

LEMMA NothingNeutral == Neutral(<< >>)
<1>1. \A kind, name : Count(<< >>, kind, name) = 0
  BY EmptyIs, CountNone
<1>2. Events(<< >>)
  BY EmptyIs DEF Events
<1>. QED  BY <1>1, <1>2 DEF Neutral

LEMMA OneNeutral ==
  ASSUME NEW e, e.kind \in EventKinds \ Nesting
  PROVE  Neutral(<<e>>)
<1>1. \A kind \in Nesting : \A name : Count(<<e>>, kind, name) = 0
  <2>. SUFFICES ASSUME NEW kind \in Nesting, NEW name PROVE Count(<<e>>, kind, name) = 0
    OBVIOUS
  <2>1. ~(e.kind = kind /\ e.name = name)
    OBVIOUS
  <2>. QED  BY <2>1, CountOne
<1>2. Events(<<e>>)
  <2>1. Sequence(<<e>>) /\ Len(<<e>>) = 1 /\ <<e>>[1] = e
    BY OneIs
  <2>. QED  BY <2>1 DEF Events
<1>. QED  BY <1>1, <1>2 DEF Neutral, Nesting

LEMMA EventsConcat ==
  ASSUME NEW s, Events(s), NEW t, Events(t)
  PROVE  Events(s \o t)
<1>1. Sequence(s) /\ Sequence(t) /\ Len(s) \in Nat /\ Len(t) \in Nat
  BY SequenceIs DEF Events
<1>2. /\ Sequence(s \o t) /\ Len(s \o t) = Len(s) + Len(t)
      /\ \A i \in 1..Len(s) : (s \o t)[i] = s[i]
      /\ \A i \in 1..Len(t) : (s \o t)[Len(s) + i] = t[i]
  BY <1>1, ConcatIs
<1>3. ASSUME NEW i \in 1..Len(s) + Len(t) PROVE (s \o t)[i].kind \in EventKinds
  <2>1. CASE i \in 1..Len(s)
    BY <1>2, <2>1 DEF Events
  <2>2. CASE i \notin 1..Len(s)
    <3>1. PICK k \in 1..Len(t) : i = Len(s) + k
      <4>1. i - Len(s) \in 1..Len(t) /\ i = Len(s) + (i - Len(s))
        BY <1>1, <2>2
      <4>. QED  BY <4>1
    <3>. QED  BY <1>2, <3>1 DEF Events
  <2>. QED  BY <2>1, <2>2
<1>. QED  BY <1>2, <1>3 DEF Events

\* Declarations, each of a prefix.
LEMMA OpeningsIs ==
  ASSUME NEW decls, NEW n \in Nat
  PROVE  /\ Events(Openings(decls, n)) /\ Len(Openings(decls, n)) = n
         /\ \A i \in 1..n : /\ Openings(decls, n)[i].kind = "StartNamespace"
                            /\ Openings(decls, n)[i].name = decls[i].prefix
         /\ \A name : Count(Openings(decls, n), "StartNamespace", name)
                        = Cardinality({i \in 1..n : decls[i].prefix = name})
         /\ \A kind, name : kind # "StartNamespace" => Count(Openings(decls, n), kind, name) = 0
<1>. DEFINE x == Openings(decls, n)
<1>1. Sequence(x) /\ Len(x) = n
  <2>1. x = [i \in 1..n |-> x[i]]
    BY DEF Openings
  <2>. HIDE DEF x
  <2>. QED  BY <2>1, FunctionIs
<1>2. \A i \in 1..n : x[i].kind = "StartNamespace" /\ x[i].name = decls[i].prefix
  BY DEF Openings, Opening, Event
<1>. HIDE DEF x
<1>3. Events(x)
  BY <1>1, <1>2 DEF Events, EventKinds
<1>4. \A name : Places(x, "StartNamespace", name) = {i \in 1..n : decls[i].prefix = name}
  BY <1>1, <1>2 DEF Places
<1>5. \A name : Count(x, "StartNamespace", name) = Cardinality({i \in 1..n : decls[i].prefix = name})
  BY <1>1, <1>4, CountIs
<1>6. ASSUME NEW kind, NEW name, kind # "StartNamespace" PROVE Count(x, kind, name) = 0
  <2>1. \A i \in 1..Len(x) : ~(x[i].kind = kind /\ x[i].name = name)
    BY <1>1, <1>2, <1>6
  <2>. QED  BY <1>1, <2>1, CountNone
<1>. QED  BY <1>1, <1>2, <1>3, <1>5, <1>6 DEF x

\* Prefixes, closed in reverse.
LEMMA BackwardsIs ==
  ASSUME NEW n \in Nat, NEW names, NEW x, Backwards(x, "EndNamespace", names, n)
  PROVE  /\ Events(x)
         /\ \A name : Count(x, "EndNamespace", name) = Cardinality({i \in 1..n : names[i] = name})
         /\ \A kind, name : kind # "EndNamespace" => Count(x, kind, name) = 0
<1>3. Events(x)
  BY DEF Events, EventKinds, Backwards
<1>4. \A name : Count(x, "EndNamespace", name) = Cardinality({i \in 1..n : names[i] = name})
  <2>. SUFFICES ASSUME NEW name
                PROVE  Count(x, "EndNamespace", name) = Cardinality({i \in 1..n : names[i] = name})
    OBVIOUS
  <2>. QED  BY CountBackwards
<1>5. ASSUME NEW kind, NEW name, kind # "EndNamespace" PROVE Count(x, kind, name) = 0
  <2>1. \A i \in 1..Len(x) : ~(x[i].kind = kind /\ x[i].name = name)
    BY <1>5 DEF Backwards
  <2>. QED  BY <2>1, CountNone DEF Backwards
<1>. QED  BY <1>3, <1>4, <1>5

LEMMA ClosingsIs ==
  ASSUME NEW decls, Sequence(decls)
  PROVE  /\ Events(Closings(decls))
         /\ \A name : Count(Closings(decls), "EndNamespace", name)
                        = Cardinality({i \in 1..Len(decls) : decls[i].prefix = name})
         /\ \A kind, name : kind # "EndNamespace" => Count(Closings(decls), kind, name) = 0
<1>. DEFINE n == Len(decls)
            names == [i \in 1..n |-> decls[i].prefix]
<1>1. n \in Nat
  BY SequenceIs
<1>2. Backwards(Closings(decls), "EndNamespace", names, n)
  <2>1. \A i \in 1..n : n + 1 - i \in 1..n
    BY <1>1
  <2>2. \A i \in 1..n : names[n + 1 - i] = decls[n + 1 - i].prefix
    BY <2>1
  <2>3. Closings(decls) = [i \in 1..n |-> Closings(decls)[i]]
    BY DEF Closings
  <2>4. Sequence(Closings(decls)) /\ Len(Closings(decls)) = n
    BY <1>1, <2>3, FunctionIs
  <2>5. \A i \in 1..n : /\ Closings(decls)[i].kind = "EndNamespace"
                       /\ Closings(decls)[i].name = decls[n + 1 - i].prefix
    BY DEF Closings, Closing, Event
  <2>. HIDE DEF names
  <2>. QED  BY <2>2, <2>4, <2>5 DEF Backwards
<1>3. \A name : {i \in 1..n : names[i] = name} = {i \in 1..n : decls[i].prefix = name}
  OBVIOUS
<1>. HIDE DEF n, names
<1>4. /\ Events(Closings(decls))
      /\ \A name : Count(Closings(decls), "EndNamespace", name) = Cardinality({i \in 1..n : names[i] = name})
      /\ \A kind, name : kind # "EndNamespace" => Count(Closings(decls), kind, name) = 0
  BY <1>1, <1>2, BackwardsIs
<1>. QED  BY <1>3, <1>4 DEF n

\* What a step that fails has queued.
Queue(queue) ==
  \/ queue = << >>
  \/ \E characters : queue = <<Text(characters)>>
  \/ \E decls : \E n \in Nat : queue = Openings(decls, n)

\* What it announced is closed again.
LEMMA CloseBindingsNeutral ==
  ASSUME NEW queue, Queue(queue)
  PROVE  /\ Neutral(CloseBindings(queue))
         /\ queue # << >> => CloseBindings(queue) # << >>
<1>. DEFINE starts == {i \in 1..Len(queue) : queue[i].kind = "StartNamespace"}
            n == Cardinality(starts)
            closings == [i \in 1..n |-> Closing(queue[n + 1 - i].name)]
<1>1. CloseBindings(queue) = queue \o closings
  BY DEF CloseBindings
<1>2. ASSUME starts = {}, Sequence(queue)
      PROVE  CloseBindings(queue) = queue
  <2>1. n = 0
    BY <1>2, FS_EmptySet
  <2>. HIDE DEF n
  <2>2. 1..n = {}
    BY <2>1
  <2>3. closings = << >>
    BY <2>2
  <2>. QED  BY <1>1, <1>2, <2>3, ConcatIs
<1>3. CASE queue = << >>
  <2>1. Sequence(queue) /\ starts = {}
    BY <1>3, EmptyIs
  <2>. QED  BY <1>2, <1>3, <2>1, NothingNeutral
<1>4. ASSUME NEW characters, queue = <<Text(characters)>>
      PROVE  Neutral(CloseBindings(queue)) /\ CloseBindings(queue) # << >>
  <2>. DEFINE text == Text(characters)
  <2>1. text.kind = "Text"
    BY DEF Text, Event
  <2>. HIDE DEF text
  <2>2. queue = <<text>>
    BY <1>4 DEF text
  <2>3. Sequence(queue) /\ Len(queue) = 1 /\ queue[1] = text /\ queue # << >>
    BY <2>2, OneIs
  <2>4. starts = {}
    BY <2>1, <2>3
  <2>5. Neutral(queue)
    BY <2>1, <2>2, OneNeutral DEF EventKinds, Nesting
  <2>. QED  BY <1>2, <2>3, <2>4, <2>5
<1>5. ASSUME NEW decls, NEW m \in Nat, queue = Openings(decls, m)
      PROVE  /\ Neutral(CloseBindings(queue))
             /\ queue # << >> => CloseBindings(queue) # << >>
  <2>. DEFINE names == [i \in 1..m |-> queue[i].name]
  <2>1. /\ Events(queue) /\ Len(queue) = m
        /\ \A i \in 1..m : queue[i].kind = "StartNamespace" /\ queue[i].name = decls[i].prefix
        /\ \A name : Count(queue, "StartNamespace", name) = Cardinality({i \in 1..m : decls[i].prefix = name})
        /\ \A kind, name : kind # "StartNamespace" => Count(queue, kind, name) = 0
    BY <1>5, OpeningsIs
  <2>2. n = m
    <3>1. starts = 1..m
      BY <2>1
    <3>2. Cardinality(1..m) = m
      <4>1. m >= 1 => Cardinality(1..m) = m - 1 + 1
        BY FS_Interval
      <4>2. m = 0 => 1..m = {}
        OBVIOUS
      <4>. QED  BY <4>1, <4>2, FS_EmptySet
    <3>. QED  BY <3>1, <3>2
  <2>. DEFINE t == [i \in 1..m |-> Closing(queue[m + 1 - i].name)]
  <2>3. CloseBindings(queue) = queue \o t
    BY <1>1, <2>2
  <2>4. Backwards(t, "EndNamespace", names, m)
    <3>1. \A i \in 1..m : m + 1 - i \in 1..m
      OBVIOUS
    <3>2. \A i \in 1..m : names[m + 1 - i] = queue[m + 1 - i].name
      BY <3>1
    <3>3. t = [i \in 1..m |-> t[i]]
      OBVIOUS
    <3>4. Sequence(t) /\ Len(t) = m
      <4>. HIDE DEF t
      <4>. QED  BY <3>3, FunctionIs
    <3>5. \A i \in 1..m : t[i].kind = "EndNamespace" /\ t[i].name = queue[m + 1 - i].name
      BY DEF Closing, Event
    <3>. HIDE DEF t, names
    <3>. QED  BY <3>2, <3>4, <3>5 DEF Backwards
  <2>5. \A name : {i \in 1..m : names[i] = name} = {i \in 1..m : decls[i].prefix = name}
    BY <2>1
  <2>. HIDE DEF t, names, n, closings, starts
  <2>6. /\ Events(t)
        /\ \A name : Count(t, "EndNamespace", name) = Cardinality({i \in 1..m : names[i] = name})
        /\ \A kind, name : kind # "EndNamespace" => Count(t, kind, name) = 0
    BY <2>4, BackwardsIs
  <2>7. Sequence(queue) /\ Sequence(t)
    BY <2>1, <2>6 DEF Events
  <2>8. \A kind, name : Count(queue \o t, kind, name) = Count(queue, kind, name) + Count(t, kind, name)
    BY <2>7, CountConcat
  <2>9. \A kind, name : Count(queue, kind, name) \in Nat /\ Count(t, kind, name) \in Nat
    BY <2>7, CountIs
  <2>10. Events(queue \o t)
    BY <2>1, <2>6, EventsConcat
  <2>11. \A name : /\ Count(queue \o t, "StartNamespace", name) = Count(queue, "StartNamespace", name)
                   /\ Count(queue \o t, "EndNamespace", name) = Count(t, "EndNamespace", name)
                   /\ Count(queue \o t, "StartElement", name) = 0
                   /\ Count(queue \o t, "EndElement", name) = 0
    BY <2>1, <2>6, <2>8, <2>9
  <2>12. \A name : Count(queue, "StartNamespace", name) = Count(t, "EndNamespace", name)
    BY <2>1, <2>5, <2>6
  <2>13. queue # << >> => queue \o t # << >>
    <3>1. /\ Len(queue) \in Nat /\ Len(t) \in Nat /\ (queue = << >> <=> Len(queue) = 0)
          /\ Len(queue \o t) = Len(queue) + Len(t)
          /\ Sequence(queue \o t)
      BY <2>7, SequenceIs, ConcatIs
    <3>2. queue \o t = << >> <=> Len(queue \o t) = 0
      BY <3>1, SequenceIs
    <3>. QED  BY <3>1, <3>2
  <2>. QED  BY <2>3, <2>10, <2>11, <2>12, <2>13 DEF Neutral
<1>. QED  BY <1>3, <1>4, <1>5 DEF Queue

\* What a start tag tells, and an end tag.
StartTells(decls, name, uri) ==
  Append(Openings(decls, Len(decls)), Event("StartElement", name, uri))

EndTells(undo, name, uri) == <<Event("EndElement", name, uri)>> \o Closings(undo)

\* The events announce a namespace for each declaration, and an element.
Announcing(x, decls, name) ==
  /\ Events(x)
  /\ \A p : /\ Count(x, "StartNamespace", p) = Cardinality({i \in 1..Len(decls) : decls[i].prefix = p})
            /\ Count(x, "EndNamespace", p) = 0
  /\ \A n : /\ Count(x, "StartElement", n) = IF n = name THEN 1 ELSE 0
            /\ Count(x, "EndElement", n) = 0

\* They close them.
Concluding(x, undo, name) ==
  /\ Events(x)
  /\ \A p : /\ Count(x, "EndNamespace", p) = Cardinality({i \in 1..Len(undo) : undo[i].prefix = p})
            /\ Count(x, "StartNamespace", p) = 0
  /\ \A n : /\ Count(x, "EndElement", n) = IF n = name THEN 1 ELSE 0
            /\ Count(x, "StartElement", n) = 0

LEMMA OpeningTells ==
  ASSUME NEW decls, Sequence(decls), NEW name, NEW uri
  PROVE  Announcing(StartTells(decls, name, uri), decls, name)
<1>. DEFINE s == Openings(decls, Len(decls))
            e == Event("StartElement", name, uri)
            x == StartTells(decls, name, uri)
<1>1. Len(decls) \in Nat
  BY SequenceIs
<1>2. /\ Events(s)
      /\ \A p : Count(s, "StartNamespace", p) = Cardinality({i \in 1..Len(decls) : decls[i].prefix = p})
      /\ \A kind, p : kind # "StartNamespace" => Count(s, kind, p) = 0
  BY <1>1, OpeningsIs
<1>3. e.kind = "StartElement" /\ e.name = name
  BY DEF Event
<1>. HIDE DEF s, e, x
<1>4. Sequence(s) /\ Sequence(<<e>>) /\ Len(<<e>>) = 1 /\ <<e>>[1] = e
  BY <1>2, OneIs DEF Events
<1>5. x = s \o <<e>>
  BY <1>4, AppendIs DEF s, e, x, StartTells
<1>6. Events(<<e>>)
  BY <1>3, <1>4 DEF Events, EventKinds
<1>7. \A kind, p : Count(x, kind, p) = Count(s, kind, p) + Count(<<e>>, kind, p)
  <2>1. \A kind, p : Count(s \o <<e>>, kind, p) = Count(s, kind, p) + Count(<<e>>, kind, p)
    BY <1>4, CountConcat
  <2>. QED  BY <1>5, <2>1
<1>8. \A kind, p : Count(s, kind, p) \in Nat
  BY <1>4, CountIs
<1>9. \A p : /\ Count(<<e>>, "StartNamespace", p) = 0 /\ Count(<<e>>, "EndNamespace", p) = 0
             /\ Count(<<e>>, "StartElement", p) = (IF p = name THEN 1 ELSE 0)
             /\ Count(<<e>>, "EndElement", p) = 0
  <2>1. \A kind, p : Count(<<e>>, kind, p) = IF e.kind = kind /\ e.name = p THEN 1 ELSE 0
    BY CountOne
  <2>. QED  BY <1>3, <2>1
<1>10. Events(x)
  BY <1>2, <1>5, <1>6, EventsConcat
<1>11. \A p : Count(x, "StartNamespace", p) = Count(s, "StartNamespace", p)
  BY <1>7, <1>8, <1>9
<1>12. \A p : /\ Count(x, "EndNamespace", p) = 0 /\ Count(x, "EndElement", p) = 0
              /\ Count(x, "StartElement", p) = IF p = name THEN 1 ELSE 0
  BY <1>2, <1>7, <1>9
<1>. QED  BY <1>2, <1>10, <1>11, <1>12 DEF Announcing, x

LEMMA ClosingTells ==
  ASSUME NEW undo, Sequence(undo), NEW name, NEW uri
  PROVE  Concluding(EndTells(undo, name, uri), undo, name)
<1>. DEFINE s == Closings(undo)
            e == Event("EndElement", name, uri)
            x == EndTells(undo, name, uri)
<1>2. /\ Events(s)
      /\ \A p : Count(s, "EndNamespace", p) = Cardinality({i \in 1..Len(undo) : undo[i].prefix = p})
      /\ \A kind, p : kind # "EndNamespace" => Count(s, kind, p) = 0
  BY ClosingsIs
<1>3. e.kind = "EndElement" /\ e.name = name
  BY DEF Event
<1>. HIDE DEF s, e, x
<1>4. Sequence(s) /\ Sequence(<<e>>) /\ Len(<<e>>) = 1 /\ <<e>>[1] = e
  BY <1>2, OneIs DEF Events
<1>5. x = <<e>> \o s
  BY DEF s, e, x, EndTells
<1>6. Events(<<e>>)
  BY <1>3, <1>4 DEF Events, EventKinds
<1>7. \A kind, p : Count(x, kind, p) = Count(<<e>>, kind, p) + Count(s, kind, p)
  <2>1. \A kind, p : Count(<<e>> \o s, kind, p) = Count(<<e>>, kind, p) + Count(s, kind, p)
    BY <1>4, CountConcat
  <2>. QED  BY <1>5, <2>1
<1>8. \A kind, p : Count(s, kind, p) \in Nat
  BY <1>4, CountIs
<1>9. \A p : /\ Count(<<e>>, "StartNamespace", p) = 0 /\ Count(<<e>>, "EndNamespace", p) = 0
             /\ Count(<<e>>, "EndElement", p) = (IF p = name THEN 1 ELSE 0)
             /\ Count(<<e>>, "StartElement", p) = 0
  <2>1. \A kind, p : Count(<<e>>, kind, p) = IF e.kind = kind /\ e.name = p THEN 1 ELSE 0
    BY CountOne
  <2>. QED  BY <1>3, <2>1
<1>10. Events(x)
  BY <1>2, <1>5, <1>6, EventsConcat
<1>11. \A p : Count(x, "EndNamespace", p) = Count(s, "EndNamespace", p)
  BY <1>7, <1>8, <1>9
<1>12. \A p : /\ Count(x, "StartNamespace", p) = 0 /\ Count(x, "StartElement", p) = 0
              /\ Count(x, "EndElement", p) = IF p = name THEN 1 ELSE 0
  <2>1. \A p : /\ Count(s, "StartNamespace", p) = 0 /\ Count(s, "StartElement", p) = 0
               /\ Count(s, "EndElement", p) = 0
    BY <1>2
  <2>. QED  BY <1>7, <1>9, <2>1
<1>. QED  BY <1>2, <1>10, <1>11, <1>12 DEF Concluding, x

\* An empty-element tag tells both.
LEMMA BothNeutral ==
  ASSUME NEW x, NEW y, NEW decls, NEW name, Announcing(x, decls, name), Concluding(y, decls, name)
  PROVE  Neutral(x \o y)
<1>1. Sequence(x) /\ Sequence(y)
  BY DEF Events, Announcing, Concluding
<1>2. \A kind, p : Count(x \o y, kind, p) = Count(x, kind, p) + Count(y, kind, p)
  BY <1>1, CountConcat
<1>3. \A kind, p : Count(x, kind, p) \in Nat /\ Count(y, kind, p) \in Nat
  BY <1>1, CountIs
<1>4. \A p : /\ Count(x \o y, "StartNamespace", p) = Count(x, "StartNamespace", p)
             /\ Count(x \o y, "EndNamespace", p) = Count(y, "EndNamespace", p)
  BY <1>2, <1>3 DEF Announcing, Concluding
<1>5. \A n : Count(x \o y, "StartElement", n) = Count(x \o y, "EndElement", n)
  BY <1>2, <1>3 DEF Announcing, Concluding
<1>6. \A p : Count(x, "StartNamespace", p) = Count(y, "EndNamespace", p)
  BY DEF Announcing, Concluding
<1>7. Events(x \o y)
  BY EventsConcat DEF Announcing, Concluding
<1>. QED  BY <1>4, <1>5, <1>6, <1>7 DEF Neutral

-----------------------------------------------------------------------------
(***************************************************************************)
(* What a scanning step does                                               *)
(***************************************************************************)

\* It fails, and changes nothing else.
Fails == \E kind, queue : kind # "none" /\ Queue(queue) /\ Fail(kind, queue)

\* It enters an entity.
Enters ==
  \E name \in EntityNames :
    /\ ~Open(name) /\ ~(Len(sources) + ExternalDepth > MaxEntityDepth)
    /\ Rest # << >>
    /\ sources' = Append([sources EXCEPT ![Len(sources)].rest = Tail(@)],
                         [name |-> name, rest |-> EntityValue[name], depth |-> Len(stack)])
    /\ active' = Entered(name)
    /\ UNCHANGED <<stack, scopes, bindings, pending, error, calling, log, outcome>>

\* It reads what is in the source, and tells something.
Reads ==
  /\ Alike /\ UNCHANGED <<active, error, log>>
  /\ (calling' /\ outcome' = outcome) \/ pending' = << >>

\* What it tells is closed at once.
Plain == UNCHANGED <<stack, scopes>> /\ DOMAIN bindings' = Prefixes /\ Neutral(pending')

\* It opens the element of a start tag.
OpensElement ==
  \E token :
    LET decls == token.decls
        uri == Bound(bindings, decls)[PrefixOf[token.name]]
    IN /\ SoundToken(token) /\ token.kind = "start"
       /\ pending' = StartTells(decls, token.name, uri)
       /\ scopes' = IF decls = << >> THEN scopes ELSE Append(scopes, Undo(decls))
       /\ stack' = Append(stack, [name |-> token.name, uri |-> uri,
                                  scope |-> IF decls = << >> THEN 0 ELSE Len(scopes) + 1])
       /\ bindings' = Bound(bindings, decls)

\* It closes the innermost element, which the source has opened.
ShutsElement ==
  LET element == stack[Len(stack)]
      undo == IF element.scope = 0 THEN << >> ELSE scopes[Len(scopes)]
  IN /\ stack # << >> /\ (AtRoot \/ Top.depth < Len(stack))
     /\ pending' = EndTells(undo, element.name, element.uri)
     /\ bindings' = Bound(bindings, undo)
     /\ scopes' = TakeScope(element)
     /\ stack' = SubSeq(stack, 1, Len(stack) - 1)

LEMMA FailsIs ==
  ASSUME NEW kind, kind # "none", NEW queue, Queue(queue), Fail(kind, queue)
  PROVE  Fails
BY DEF Fails

LEMMA QueueIs ==
  /\ Queue(<< >>) /\ \A characters : Queue(<<Text(characters)>>)
  /\ \A decls : \A n \in Nat : Queue(Openings(decls, n))
BY DEF Queue

LEMMA MisplacedIs == Misplaced # "none"
BY DEF Misplaced

\* Nothing is told and nothing moves.
LEMMA StillReads ==
  ASSUME Nested, Elements, pending = << >>, UNCHANGED <<nestVars, error, log, pending>>
  PROVE  Reads /\ Plain
<1>1. Alike
  BY SameAlike DEF nestVars
<1>2. Neutral(pending')
  BY NothingNeutral
<1>. QED  BY <1>1, <1>2 DEF Reads, Plain, nestVars, Elements

\* Some tokens are read, for one event.
LEMMA OneReads ==
  ASSUME Nested, Elements, Scanning, NEW count \in Nat, count <= Len(Rest), Consume(count),
         NEW e, e.kind \in EventKinds \ Nesting, Emit(<<e>>),
         UNCHANGED <<active, stack, scopes, bindings>>
  PROVE  Reads /\ Plain
<1>1. Alike
  BY ConsumeAlike
<1>2. Neutral(pending')
  BY OneNeutral DEF Emit
<1>. QED  BY <1>1, <1>2 DEF Reads, Plain, Elements, Emit, historyVars, Scanning

\* The text, the partial tokens and the end of the input.
LEMMA TextKinds ==
  ASSUME Typed, Nested, Elements,
         EndOfInput \/ PartialToken \/ ReadText \/ TerminatorInText \/ OuterText
  PROVE  Fails \/ (Reads /\ Plain)
<1>1. Len(Rest) \in Nat /\ Sequence(Rest)
  BY Sources
<1>2. Rest # << >> => 1 <= Len(Rest)
  BY <1>1, SequenceIs
<1>3. CASE EndOfInput
  <2>1. pending = << >>
    BY <1>3 DEF EndOfInput, Scanning
  <2>2. CASE decodingError # "none" /\ Fail(decodingError, << >>)
    BY <2>2, FailsIs, QueueIs
  <2>3. CASE FailsAtEnd # "none" /\ Fail(FailsAtEnd, << >>)
    BY <2>3, FailsIs, QueueIs
  <2>4. CASE UNCHANGED <<nestVars, error, log, pending>>
    BY <2>1, <2>4, StillReads
  <2>. QED  BY <1>3, <2>2, <2>3, <2>4 DEF EndOfInput, Wait
<1>4. CASE PartialToken
  <2>1. pending = << >> /\ calling
    BY <1>4 DEF PartialToken, Scanning
  <2>2. CASE \E kind \in {"InvalidToken", Misplaced, "UnclosedToken"} : Fail(kind, << >>)
    BY <2>2, FailsIs, QueueIs, MisplacedIs
  <2>3. CASE UNCHANGED <<nestVars, error, log, pending>>
    BY <2>1, <2>3, StillReads
  <2>4. CASE pending' = <<Text(<<"]">>)>> /\ UNCHANGED <<nestVars, error, calling, historyVars>>
    <3>1. Alike
      BY <2>4, SameAlike DEF nestVars
    <3>. DEFINE text == Text(<<"]">>)
    <3>2. text.kind = "Text"
      BY DEF Text, Event
    <3>. HIDE DEF text
    <3>3. Neutral(<<text>>)
      BY <3>2, OneNeutral DEF EventKinds, Nesting
    <3>4. Neutral(pending')
      BY <2>4, <3>3 DEF text
    <3>. QED  BY <2>1, <2>4, <3>1, <3>4 DEF Reads, Plain, Elements, nestVars, historyVars
  <2>. QED  BY <1>4, <2>2, <2>3, <2>4 DEF PartialToken, Wait
<1>5. CASE ReadText
  <2>1. PICK n \in 1..RunLength :
          LET text == Text([i \in 1..n |-> Rest[i].name]) IN
          \/ /\ Consume(n) /\ Emit(<<text>>)
             /\ UNCHANGED <<inputVars, part, decoderVars, active, stack, scopes,
                            bindings, phaseVars, finished>>
          \/ Exhaustible /\ ~inCdata /\ Fail("LimitExceeded", <<text>>)
    BY <1>5 DEF ReadText
  <2>. DEFINE text == Text([i \in 1..n |-> Rest[i].name])
  <2>2. text.kind = "Text" /\ Queue(<<text>>)
    BY QueueIs DEF Text, Event
  <2>3. n \in Nat /\ n <= Len(Rest)
    BY <1>1, RunIs
  <2>4. Scanning
    BY <1>5 DEF ReadText, AtCharacter
  <2>. HIDE DEF text
  <2>5. CASE Fail("LimitExceeded", <<text>>)
    BY <2>2, <2>5, FailsIs
  <2>6. CASE Consume(n) /\ Emit(<<text>>) /\ UNCHANGED <<active, stack, scopes, bindings>>
    BY <2>2, <2>3, <2>4, <2>6, OneReads DEF EventKinds, Nesting
  <2>. QED  BY <2>1, <2>5, <2>6 DEF text
<1>6. CASE TerminatorInText
  <2>1. CASE \E kind \in {"InvalidToken", Misplaced} : Fail(kind, << >>)
    BY <2>1, FailsIs, QueueIs, MisplacedIs
  <2>. QED  BY <1>6, <2>1 DEF TerminatorInText
<1>7. CASE OuterText
  <2>1. Scanning /\ pending = << >> /\ Rest # << >>
    BY <1>7 DEF OuterText, AtCharacter, Scanning
  <2>2. CASE \E kind \in {"InvalidToken", Misplaced, "Syntax"} : Fail(kind, << >>)
    BY <2>2, FailsIs, QueueIs, MisplacedIs
  <2>3. CASE decodingError # "none" /\ Fail(decodingError, << >>)
    BY <2>3, FailsIs, QueueIs
  <2>4. CASE UNCHANGED <<nestVars, error, log, pending>>
    BY <2>1, <2>4, StillReads
  <2>5. CASE Consume(1) /\ UNCHANGED <<active, stack, scopes, bindings, pending, error, calling, historyVars>>
    <3>1. Alike
      BY <1>2, <2>1, <2>5, ConsumeAlike
    <3>2. Neutral(pending')
      BY <2>1, <2>5, NothingNeutral
    <3>. QED  BY <2>1, <2>5, <3>1, <3>2 DEF Reads, Plain, Elements, historyVars, Scanning
  <2>. DEFINE name == \A i \in 1..RunLength : Rest[i].kind = "char"
              last == RunLength = Len(Rest) /\ ~(part = "fed" /\ decoded = received)
              after == IF RunLength < Len(Rest) THEN Rest[RunLength + 1].kind
                       ELSE IF last THEN "" ELSE doc[received + 1].kind
  <2>7. CASE Head(Rest).kind = "char"
    <3>1. IF closedRoot \/ ~name THEN Fail(Misplaced, << >>)
          ELSE IF ~last
               THEN Fail(IF after \in {"ref", "cdataEnd"} THEN "Syntax" ELSE "InvalidToken", << >>)
               ELSE IF ~IsFinal THEN Wait
               ELSE Fail(IF decodingError # "none" THEN decodingError ELSE "Syntax", << >>)
      BY <1>7, <2>7 DEF OuterText
    <3>. HIDE DEF name, last, after
    <3>. QED  BY <2>2, <2>3, <2>4, <3>1 DEF Wait
  <2>. QED  BY <1>7, <2>5, <2>7 DEF OuterText
<1>. QED  BY <1>3, <1>4, <1>5, <1>6, <1>7

\* Markup but for the tags, and references.
LEMMA MarkupKinds ==
  ASSUME Typed, Nested, Elements,
         ReadMisc \/ ReadBad \/ OpenCdata \/ CloseCdata \/ ReadReference \/ OutOfResources
  PROVE  Fails \/ Enters \/ (Reads /\ Plain)
<1>1. Len(Rest) \in Nat /\ Sequence(Rest)
  BY Sources
<1>2. Rest # << >> => 1 <= Len(Rest)
  BY <1>1, SequenceIs
<1>3. ASSUME NEW kind, NEW name, kind \in EventKinds \ Nesting, Scanning, Rest # << >>, Consume(1),
             Emit(<<Event(kind, name, NoUri)>>), UNCHANGED <<active, stack, scopes, bindings>>
      PROVE  Reads /\ Plain
  <2>. DEFINE e == Event(kind, name, NoUri)
  <2>1. e.kind = kind
    BY DEF Event
  <2>. HIDE DEF e
  <2>2. Emit(<<e>>)
    BY <1>3 DEF e
  <2>. QED  BY <1>2, <1>3, <2>1, <2>2, OneReads
<1>4. \A kind : kind # "none" /\ Fail(kind, << >>) => Fails
  BY FailsIs, QueueIs
<1>5. CASE ReadMisc
  <2>1. Scanning /\ Rest # << >> /\ Consume(1) /\ Emit(<<Event("Misc", "", NoUri)>>)
        /\ UNCHANGED <<active, stack, scopes, bindings>>
    BY <1>5 DEF ReadMisc, Next
  <2>. QED  BY <1>3, <2>1 DEF EventKinds, Nesting
<1>6. CASE ReadBad
  BY <1>4, <1>6 DEF ReadBad
<1>7. CASE OpenCdata
  <2>1. CASE Fail(Misplaced, << >>)
    BY <1>4, <2>1, MisplacedIs
  <2>2. CASE /\ Consume(1) /\ Emit(<<Event("StartCdata", "", NoUri)>>)
             /\ UNCHANGED <<active, stack, scopes, bindings>>
    <3>1. Scanning /\ Rest # << >>
      BY <1>7 DEF OpenCdata, Next
    <3>. QED  BY <1>3, <2>2, <3>1 DEF EventKinds, Nesting
  <2>. QED  BY <1>7, <2>1, <2>2 DEF OpenCdata
<1>8. CASE CloseCdata
  <2>1. Scanning /\ Rest # << >> /\ Consume(1) /\ Emit(<<Event("EndCdata", "", NoUri)>>)
        /\ UNCHANGED <<active, stack, scopes, bindings>>
    BY <1>8 DEF CloseCdata, Next
  <2>. QED  BY <1>3, <2>1 DEF EventKinds, Nesting
<1>9. CASE ReadReference
  <2>. DEFINE name == Head(Rest).name
              internal == name \in EntityNames /\ EntityKind[name] = "internal"
  <2>1. Scanning /\ Rest # << >>
    BY <1>9 DEF ReadReference, Next
  <2>2. CASE ReferenceError(name) # "none" /\ Fail(ReferenceError(name), << >>)
    BY <1>4, <2>2
  <2>3. CASE /\ Consume(1)
             /\ Emit(<<Event(IF name \notin EntityNames \/ internal THEN "Skipped" ELSE "External",
                             name, NoUri)>>)
             /\ UNCHANGED <<active, stack, scopes, bindings>>
    <3>1. (IF name \notin EntityNames \/ internal THEN "Skipped" ELSE "External") \in EventKinds \ Nesting
      BY DEF EventKinds, Nesting
    <3>. HIDE DEF name, internal
    <3>. QED  BY <1>3, <2>1, <2>3, <3>1
  <2>4. CASE /\ ReferenceError(name) = "none" /\ internal
             /\ sources' = Append([sources EXCEPT ![Len(sources)].rest = Tail(@)],
                                  [name |-> name, rest |-> EntityValue[name], depth |-> Len(stack)])
             /\ active' = Entered(name)
             /\ UNCHANGED <<stack, scopes, bindings, pending, error, calling, historyVars>>
    <3>1. name \in EntityNames /\ Content
      BY <2>4 DEF ReferenceError
    <3>2. ~Open(name) /\ ~(Len(sources) + ExternalDepth > MaxEntityDepth)
      <4>. HIDE DEF name
      <4>. QED  BY <2>4, <3>1 DEF ReferenceError
    <3>. HIDE DEF name
    <3>. QED  BY <2>1, <2>4, <3>1, <3>2 DEF Enters, historyVars
  <2>. QED  BY <1>9, <2>2, <2>3, <2>4 DEF ReadReference
<1>10. CASE OutOfResources
  BY <1>4, <1>10 DEF OutOfResources
<1>. QED  BY <1>5, <1>6, <1>7, <1>8, <1>9, <1>10

LEMMA BoundIs ==
  ASSUME NEW before, NEW decls
  PROVE  DOMAIN Bound(before, decls) = Prefixes
BY DEF Bound

\* Start tags and end tags.
LEMMA TagKinds ==
  ASSUME Typed, Nested, Elements, ReadStart \/ ReadEnd
  PROVE  Fails \/ (Reads /\ (Plain \/ OpensElement \/ ShutsElement))
<1>1. Len(Rest) \in Nat /\ Sequence(Rest) /\ Sound(Rest)
  BY Sources
<1>2. Scanning /\ calling /\ Rest # << >>
  BY DEF ReadStart, ReadEnd, Next, Scanning
<1>3. 1 <= Len(Rest) /\ SoundToken(Head(Rest))
  BY <1>1, <1>2, SequenceIs, SoundTail
<1>4. \A kind : kind # "none" /\ Fail(kind, << >>) => Fails
  BY FailsIs, QueueIs
<1>5. CASE ReadStart
  <2>. DEFINE token == Head(Rest)
              decls == token.decls
              after == Bound(bindings, decls)
              uri == after[PrefixOf[token.name]]
              failure == StartError(token)
  <2>1. token.kind \in {"start", "empty"}
    BY <1>5 DEF ReadStart, Next
  <2>2. Sequence(decls)
    BY <1>3, <2>1 DEF SoundToken, Sequence
  <2>3. Len(decls) \in Nat /\ failure.after \in Nat
    BY <2>2, SequenceIs, StartErrorIs
  <2>4. \/ /\ failure.kind # "none"
           /\ Fail(failure.kind, Openings(decls, failure.after))
        \/ \E n \in 0..Len(decls) : Fail("LimitExceeded", Openings(decls, n))
        \/ /\ Consume(1)
           /\ UNCHANGED active
           /\ \/ /\ token.kind = "start"
                 /\ Emit(StartTells(decls, token.name, uri))
                 /\ scopes' = IF decls = << >> THEN scopes ELSE Append(scopes, Undo(decls))
                 /\ stack' = Append(stack, [name |-> token.name, uri |-> uri,
                                            scope |-> IF decls = << >> THEN 0 ELSE Len(scopes) + 1])
                 /\ bindings' = after
              \/ /\ token.kind = "empty"
                 /\ Emit(StartTells(decls, token.name, uri) \o EndTells(decls, token.name, uri))
                 /\ bindings' = Bound(after, Undo(decls))
                 /\ UNCHANGED <<stack, scopes>>
    BY <1>5 DEF ReadStart, StartTells, EndTells
  <2>. HIDE DEF failure, uri, after
  <2>5. CASE failure.kind # "none" /\ Fail(failure.kind, Openings(decls, failure.after))
    BY <2>3, <2>5, FailsIs, QueueIs
  <2>6. ASSUME NEW n \in 0..Len(decls), Fail("LimitExceeded", Openings(decls, n)) PROVE Fails
    <3>1. n \in Nat
      BY <2>3
    <3>. QED  BY <2>6, <3>1, FailsIs, QueueIs
  <2>7. CASE /\ Consume(1) /\ UNCHANGED active /\ token.kind = "start"
             /\ Emit(StartTells(decls, token.name, uri))
             /\ scopes' = IF decls = << >> THEN scopes ELSE Append(scopes, Undo(decls))
             /\ stack' = Append(stack, [name |-> token.name, uri |-> uri,
                                        scope |-> IF decls = << >> THEN 0 ELSE Len(scopes) + 1])
             /\ bindings' = after
    <3>1. Alike
      BY <1>3, <2>7, ConsumeAlike
    <3>2. Reads
      BY <1>2, <2>7, <3>1 DEF Reads, Emit, historyVars
    <3>3. OpensElement
      BY <1>3, <2>7 DEF OpensElement, Emit, uri, after
    <3>. QED  BY <3>2, <3>3
  <2>8. CASE /\ Consume(1) /\ UNCHANGED active /\ token.kind = "empty"
             /\ Emit(StartTells(decls, token.name, uri) \o EndTells(decls, token.name, uri))
             /\ bindings' = Bound(after, Undo(decls))
             /\ UNCHANGED <<stack, scopes>>
    <3>1. Alike
      BY <1>3, <2>8, ConsumeAlike
    <3>2. Reads
      BY <1>2, <2>8, <3>1 DEF Reads, Emit, historyVars
    <3>3. Neutral(StartTells(decls, token.name, uri) \o EndTells(decls, token.name, uri))
      BY <2>2, OpeningTells, ClosingTells, BothNeutral
    <3>4. DOMAIN bindings' = Prefixes
      BY <2>8, BoundIs
    <3>5. Neutral(pending')
      BY <2>8, <3>3 DEF Emit
    <3>6. Plain
      BY <2>8, <3>4, <3>5 DEF Plain
    <3>. QED  BY <3>2, <3>6
  <2>. QED  BY <2>4, <2>5, <2>6, <2>7, <2>8
<1>6. CASE ReadEnd
  <2>. DEFINE token == Head(Rest)
              element == stack[Len(stack)]
              undo == IF element.scope = 0 THEN << >> ELSE scopes[Len(scopes)]
  <2>1. CASE EndError(token) # "none" /\ Fail(EndError(token), << >>)
    BY <1>4, <2>1
  <2>2. CASE /\ EndError(token) = "none" /\ UNCHANGED active /\ Consume(1)
             /\ Emit(EndTells(undo, element.name, element.uri))
             /\ bindings' = Bound(bindings, undo) /\ scopes' = TakeScope(element)
             /\ stack' = SubSeq(stack, 1, Len(stack) - 1)
    <3>1. Alike
      BY <1>3, <2>2, ConsumeAlike
    <3>2. Reads
      BY <1>2, <2>2, <3>1 DEF Reads, Emit, historyVars
    <3>3. stack # << >> /\ (AtRoot \/ ~(Len(stack) <= Top.depth))
      BY <2>2 DEF EndError
    <3>4. AtRoot \/ Top.depth < Len(stack)
      <4>1. Top.depth \in Nat /\ Len(stack) \in Nat
        BY Sources, SequenceIs DEF Source, Elements
      <4>. QED  BY <3>3, <4>1
    <3>. HIDE DEF undo
    <3>5. pending' = EndTells(undo, element.name, element.uri)
      BY <2>2 DEF Emit
    <3>6. ShutsElement
      BY <2>2, <3>3, <3>4, <3>5 DEF ShutsElement, undo
    <3>. QED  BY <3>2, <3>6
  <2>. QED  BY <1>6, <2>1, <2>2 DEF ReadEnd, EndTells
<1>. QED  BY <1>5, <1>6

\* Each scanning step fails, ends an entity, enters one, or reads.
LEMMA ScanKinds ==
  ASSUME Typed, Nested, Elements, Scan
  PROVE  Fails \/ PopSource \/ Enters \/ (Reads /\ (Plain \/ OpensElement \/ ShutsElement))
BY TextKinds, MarkupKinds, TagKinds DEF Scan

-----------------------------------------------------------------------------
(***************************************************************************)
(* The entities nest                                                       *)
(***************************************************************************)

LEMMA HeightIs ==
  ASSUME Elements
  PROVE  Len(stack) \in Nat /\ Len(scopes) \in Nat
BY SequenceIs DEF Elements

\* Between calls the stacks stay.
LEMMA ApplicationStays ==
  ASSUME Application
  PROVE  UNCHANGED <<active, stack, scopes, bindings, pending, log, outcome, input>>
BY DEF Application, Call, FeedFails, ResolveEncoding, ResolveConversion, Feed,
       inputVars, nestVars, historyVars

LEMMA NestedSame ==
  ASSUME Nested, Elements, Alike, UNCHANGED <<stack, input>>
  PROVE  Nested'
<1>1. \A i \in 1..Len(sources) : sources[i].depth <= Len(stack')
  BY DEF Nested, Source
<1>. QED  BY <1>1, HeightIs, NestedAlike

\* The depths of the sources go up.
LEMMA TopDeepest ==
  ASSUME Nested, Elements
  PROVE  \A i \in 1..Len(sources) : sources[i].depth <= Top.depth
<1>1. Len(sources) \in Nat \ {0} /\ Len(sources) \in 1..Len(sources)
  BY Sources
<1>2. \A i \in 1..Len(sources) : sources[i].depth \in Nat
  BY DEF Nested, Source
<1>. SUFFICES ASSUME NEW i \in 1..Len(sources) PROVE sources[i].depth <= sources[Len(sources)].depth
  BY DEF Top
<1>3. CASE i = Len(sources)
  BY <1>1, <1>2, <1>3
<1>4. CASE i = 1
  <2>1. sources[1].depth = 0
    BY DEF Nested
  <2>2. sources[Len(sources)].depth \in Nat
    BY <1>1, <1>2
  <2>. QED  BY <1>4, <2>1, <2>2
<1>5. CASE i # 1 /\ i # Len(sources)
  <2>1. i \in 2..Len(sources) /\ Len(sources) \in 2..Len(sources) /\ i < Len(sources)
    BY <1>1, <1>5
  <2>. QED  BY <2>1 DEF Nested
<1>. QED  BY <1>3, <1>4, <1>5

LEMMA NestedShuts ==
  ASSUME Nested, Elements, Alike, input' = input, ShutsElement
  PROVE  Nested'
<1>1. Len(stack) \in Nat \ {0} /\ Sequence(stack)
  BY HeightIs, SequenceIs DEF Elements, ShutsElement
<1>2. stack' = Part(stack, Len(stack) - 1)
  BY DEF ShutsElement, Part
<1>3. Len(stack') = Len(stack) - 1
  <2>1. Len(stack) - 1 \in Nat /\ Len(stack) - 1 <= Len(stack)
    BY <1>1
  <2>. QED  BY <1>1, <1>2, <2>1, PartIs
<1>4. Top.depth <= Len(stack) - 1
  <2>1. Top.depth \in Nat /\ (AtRoot => Top.depth = 0)
    BY Sources DEF Source
  <2>2. AtRoot \/ Top.depth < Len(stack)
    BY DEF ShutsElement
  <2>. QED  BY <1>1, <2>1, <2>2
<1>5. \A i \in 1..Len(sources) : sources[i].depth <= Len(stack')
  <2>1. \A i \in 1..Len(sources) : sources[i].depth \in Nat /\ sources[i].depth <= Top.depth
    BY TopDeepest DEF Nested, Source
  <2>2. Top.depth \in Nat
    BY Sources DEF Source
  <2>. QED  BY <1>1, <1>3, <1>4, <2>1, <2>2
<1>6. Len(stack') \in Nat
  BY <1>1, <1>3
<1>. QED  BY <1>1, <1>5, <1>6, NestedAlike

LEMMA NestedOpens ==
  ASSUME Nested, Elements, Alike, input' = input, OpensElement
  PROVE  Nested'
<1>1. Len(stack) \in Nat /\ Sequence(stack)
  BY HeightIs DEF Elements
<1>2. PICK element : stack' = Append(stack, element)
  BY DEF OpensElement
<1>3. Len(stack') = Len(stack) + 1
  BY <1>1, <1>2, AppendIs
<1>4. \A i \in 1..Len(sources) : sources[i].depth \in Nat /\ sources[i].depth <= Len(stack)
  BY DEF Nested, Source
<1>5. \A i \in 1..Len(sources) : sources[i].depth <= Len(stack')
  BY <1>1, <1>3, <1>4
<1>. QED  BY <1>1, <1>3, <1>5, NestedAlike

\* The innermost source is left.
LEMMA NestedPops ==
  ASSUME Typed, Nested, Elements, PopSource
  PROVE  Nested'
<1>1. Len(sources) \in Nat /\ Len(sources) > 1 /\ Sequence(sources)
  <2>1. Len(sources) \in Nat \ {0} /\ Len(sources) # 1
    BY Sources DEF PopSource, AtRoot
  <2>2. \A n \in Nat \ {0} : n # 1 => n > 1
    OBVIOUS
  <2>3. Sequence(sources)
    BY DEF Nested
  <2>. QED  BY <2>1, <2>2, <2>3
<1>2. sources' = Part(sources, Len(sources) - 1) /\ stack' = stack /\ input' = input
  BY DEF PopSource, inputVars, Part
<1>3. /\ Sequence(sources') /\ Len(sources') = Len(sources) - 1
      /\ \A i \in 1..Len(sources') : sources'[i] = sources[i]
  <2>1. Len(sources) - 1 \in Nat /\ Len(sources) - 1 <= Len(sources)
    BY <1>1
  <2>. QED  BY <1>1, <1>2, <2>1, PartIs
<1>4. /\ \A i \in 1..Len(sources') : i \in 1..Len(sources)
      /\ \A i \in 2..Len(sources') : i \in 2..Len(sources) /\ i \in 1..Len(sources')
      /\ 1 \in 1..Len(sources') /\ Len(sources') # 0
  BY <1>1, <1>3
<1>5. sources' # << >>
  BY <1>3, <1>4, SequenceIs
<1>6. sources'[1].name = "" /\ sources'[1].depth = 0
  BY <1>3, <1>4 DEF Nested
<1>7. \A i \in 1..Len(sources') : Source(sources'[i], Len(stack'))
  BY <1>2, <1>3, <1>4 DEF Nested
<1>8. \A i \in 2..Len(sources') : sources'[i].name \in EntityNames
  BY <1>3, <1>4 DEF Nested
<1>9. \A i, j \in 2..Len(sources') : i < j =>
        sources'[i].name # sources'[j].name /\ sources'[i].depth <= sources'[j].depth
  BY <1>3, <1>4 DEF Nested
<1>10. Len(sources') > 1 => Len(sources') - 1 + ExternalDepth' <= MaxEntityDepth
  <2>1. ExternalDepth \in Nat /\ ExternalDepth' = ExternalDepth /\ MaxEntityDepth \in Nat
    BY <1>2, InputsAssumption, LimitsAssumption DEF Typed, ExternalDepth
  <2>2. Len(sources) - 1 + ExternalDepth <= MaxEntityDepth
    BY <1>1 DEF Nested
  <2>. QED  BY <1>1, <1>3, <2>1, <2>2
<1>. QED  BY <1>3, <1>5, <1>6, <1>7, <1>8, <1>9, <1>10 DEF Nested

\* An entity that is not open is entered.
LEMMA NestedEnters ==
  ASSUME Typed, Nested, Indexed, Elements, error = "none", Enters, input' = input
  PROVE  Nested'
<1>1. PICK name \in EntityNames :
        /\ ~Open(name) /\ ~(Len(sources) + ExternalDepth > MaxEntityDepth)
        /\ Rest # << >>
        /\ sources' = Append([sources EXCEPT ![Len(sources)].rest = Tail(@)],
                             [name |-> name, rest |-> EntityValue[name], depth |-> Len(stack)])
        /\ stack' = stack
  BY DEF Enters
<1>2. /\ Len(sources) \in Nat \ {0} /\ Len(sources) \in 1..Len(sources) /\ 1 \in 1..Len(sources)
      /\ Sequence(sources) /\ Len(stack) \in Nat
  BY Sources, HeightIs DEF Nested
<1>. DEFINE left == [name |-> Top.name, rest |-> Tail(Rest), depth |-> Top.depth]
            entered == [name |-> name, rest |-> EntityValue[name], depth |-> Len(stack)]
            below == Updated(sources, Len(sources), left)
<1>3. left = [Top EXCEPT !.rest = Tail(Rest)]
  <2>1. Top = [name |-> Top.name, rest |-> Top.rest, depth |-> Top.depth]
    BY Sources DEF Source
  <2>2. \A top, r : top = [name |-> top.name, rest |-> top.rest, depth |-> top.depth] =>
          [name |-> top.name, rest |-> r, depth |-> top.depth] = [top EXCEPT !.rest = r]
    OBVIOUS
  <2>. QED  BY <2>1, <2>2
<1>4. sources' = Append(below, entered)
  <2>1. [sources EXCEPT ![Len(sources)].rest = Tail(@)] = Updated(sources, Len(sources), [Top EXCEPT !.rest = Tail(Rest)])
    BY DEF Updated, Top, Rest
  <2>. QED  BY <1>1, <1>3, <2>1
<1>5. Source(left, Len(stack)) /\ Source(entered, Len(stack))
  <2>1. Source(Top, Len(stack)) /\ Sound(Tail(Rest))
    BY <1>1, Sources, SoundTail
  <2>2. Sound(EntityValue[name])
    BY Tokens
  <2>. QED  BY <1>2, <2>1, <2>2 DEF Source
<1>6. left.name = Top.name /\ left.depth = Top.depth /\ entered.name = name /\ entered.depth = Len(stack)
  OBVIOUS
<1>. HIDE DEF left, entered, below
<1>7. /\ Sequence(below) /\ Len(below) = Len(sources)
      /\ \A i \in 1..Len(sources) : below[i] = IF i = Len(sources) THEN left ELSE sources[i]
  BY <1>2, UpdateIs DEF below
<1>8. /\ Sequence(sources') /\ sources' # << >> /\ Len(sources') = Len(sources) + 1
      /\ \A i \in 1..Len(sources) : sources'[i] = below[i]
      /\ sources'[Len(sources) + 1] = entered
  <2>1. /\ Sequence(Append(below, entered)) /\ Append(below, entered) # << >>
        /\ Len(Append(below, entered)) = Len(below) + 1
        /\ \A i \in 1..Len(below) : Append(below, entered)[i] = below[i]
        /\ Append(below, entered)[Len(below) + 1] = entered
    BY <1>7, AppendIs
  <2>. QED  BY <1>4, <1>7, <2>1
<1>9. \A i \in 1..Len(sources) :
        /\ sources'[i].name = sources[i].name /\ sources'[i].depth = sources[i].depth
        /\ Source(sources'[i], Len(stack))
  <2>. SUFFICES ASSUME NEW i \in 1..Len(sources)
                PROVE  /\ sources'[i].name = sources[i].name /\ sources'[i].depth = sources[i].depth
                       /\ Source(sources'[i], Len(stack))
    OBVIOUS
  <2>1. CASE i = Len(sources)
    <3>1. sources'[i] = left /\ sources[i] = Top
      BY <1>7, <1>8, <2>1 DEF Top
    <3>. QED  BY <1>5, <1>6, <3>1
  <2>2. CASE i # Len(sources)
    <3>1. sources'[i] = sources[i]
      BY <1>7, <1>8, <2>2
    <3>. QED  BY <3>1 DEF Nested
  <2>. QED  BY <2>1, <2>2
<1>10. \A i \in 1..Len(sources') : i \in 1..Len(sources) \/ i = Len(sources) + 1
  BY <1>2, <1>8
<1>11. \A i \in 2..Len(sources') : (i \in 2..Len(sources) /\ i \in 1..Len(sources)) \/ i = Len(sources) + 1
  BY <1>2, <1>8
<1>12. sources'[1].name = "" /\ sources'[1].depth = 0
  BY <1>2, <1>9 DEF Nested
<1>13. \A i \in 1..Len(sources') : Source(sources'[i], Len(stack'))
  BY <1>1, <1>5, <1>8, <1>9, <1>10
<1>14. \A i \in 2..Len(sources') : sources'[i].name \in EntityNames
  BY <1>6, <1>8, <1>9, <1>11 DEF Nested
<1>15. \A i \in 2..Len(sources) : sources[i].name # name
  <2>1. active[name] \in Nat /\ ~(active[name] > 0)
    BY <1>1 DEF Open, Indexed
  <2>2. active[name] = 0
    BY <2>1
  <2>. QED  BY <2>2 DEF Indexed
<1>16. ASSUME NEW i \in 2..Len(sources'), NEW j \in 2..Len(sources'), i < j
       PROVE  sources'[i].name # sources'[j].name /\ sources'[i].depth <= sources'[j].depth
  <2>1. i \in 2..Len(sources) /\ i \in 1..Len(sources)
    BY <1>2, <1>8, <1>16
  <2>2. CASE j \in 2..Len(sources)
    <3>1. j \in 1..Len(sources)
      BY <1>2, <2>2
    <3>. QED  BY <1>9, <1>16, <2>1, <2>2, <3>1 DEF Nested
  <2>3. CASE j = Len(sources) + 1
    <3>1. sources[i].depth <= Len(stack)
      BY <2>1 DEF Nested, Source
    <3>. QED  BY <1>6, <1>8, <1>9, <1>15, <2>1, <2>3, <3>1
  <2>. QED  BY <1>11, <2>2, <2>3
<1>17. Len(sources') > 1 => Len(sources') - 1 + ExternalDepth' <= MaxEntityDepth
  <2>1. ExternalDepth \in Nat /\ ExternalDepth' = ExternalDepth /\ MaxEntityDepth \in Nat
    BY InputsAssumption, LimitsAssumption DEF Typed, ExternalDepth
  <2>. QED  BY <1>1, <1>2, <1>8, <2>1
<1>. QED  BY <1>8, <1>12, <1>13, <1>14, <1>16, <1>17 DEF Nested

-----------------------------------------------------------------------------
(***************************************************************************)
(* The index of open entities                                              *)
(***************************************************************************)

\* An encoding can still be supplied, or no error is recorded.
Running == error = "none" \/ (error # "NoMemory" /\ decodingError = "UnknownEncoding")

Named(n) == \E i \in 2..Len(sources) : sources[i].name = n

LEMMA IndexedIs ==
  Indexed <=> /\ active \in [EntityNames -> Nat]
              /\ Running => \A n \in EntityNames : active[n] = IF Named(n) THEN 1 ELSE 0
BY DEF Indexed, Running, Named

LEMMA AlikeNamed ==
  ASSUME Nested, Alike
  PROVE  \A n : Named(n)' <=> Named(n)
<1>1. Len(sources) \in Nat
  BY Sources
<1>2. Len(sources') = Len(sources) /\ \A i \in 1..Len(sources) : sources'[i].name = sources[i].name
  <2>1. ASSUME NEW i \in 1..Len(sources) PROVE sources'[i].name = sources[i].name
    <3>1. sources'[i] = [name |-> sources[i].name, rest |-> sources'[i].rest, depth |-> sources[i].depth]
      BY DEF Alike
    <3>. QED  BY <3>1
  <2>2. Len(sources') = Len(sources)
    BY DEF Alike
  <2>. QED  BY <2>1, <2>2
<1>3. \A i \in 2..Len(sources) : i \in 1..Len(sources)
  BY <1>1
<1>. QED  BY <1>2, <1>3 DEF Named

\* While an encoding can be supplied, an error keeps the index it is given.
LEMMA RaiseActive ==
  ASSUME NEW kind, kind # "none", NEW queue, NEW names, names \in [EntityNames -> Nat],
         Raise(kind, queue, names), decodingError' = decodingError
  PROVE  /\ active' \in [EntityNames -> Nat]
         /\ Running' => active' = names
<1>1. error' = Reported(kind)
      /\ active' = IF kind # "NoMemory" /\ decodingError = "UnknownEncoding"
                   THEN names ELSE [n \in EntityNames |-> 0]
  BY DEF Raise
<1>2. error' # "none" /\ (kind = "NoMemory" => error' = "NoMemory")
  BY <1>1 DEF Reported, Unfinished
<1>3. Running' => kind # "NoMemory" /\ decodingError = "UnknownEncoding"
  BY <1>2 DEF Running
<1>. QED  BY <1>1, <1>3

LEMMA IndexedSame ==
  ASSUME Nested, Indexed, Alike, UNCHANGED active, Running' => Running
  PROVE  Indexed'
<1>1. \A n : Named(n)' <=> Named(n)
  BY AlikeNamed
<1>2. /\ active' \in [EntityNames -> Nat]
      /\ Running' => \A n \in EntityNames : active'[n] = IF Named(n)' THEN 1 ELSE 0
  BY <1>1, IndexedIs
<1>. QED  BY <1>2 DEF Indexed, Running, Named

LEMMA IndexedFails ==
  ASSUME Nested, Indexed, error = "none", Fails
  PROVE  Indexed'
<1>1. PICK kind, queue : kind # "none" /\ Fail(kind, queue)
  BY DEF Fails
<1>2. /\ Raise(kind, queue, active) /\ decodingError' = decodingError /\ sources' = sources
      /\ active \in [EntityNames -> Nat]
  BY <1>1 DEF Fail, decoderVars, Indexed
<1>3. active' \in [EntityNames -> Nat] /\ (Running' => active' = active)
  BY <1>1, <1>2, RaiseActive
<1>4. \A n : Named(n)' <=> Named(n)
  BY <1>2 DEF Named
<1>5. Running
  BY DEF Running
<1>6. Running' => \A n \in EntityNames : active'[n] = IF Named(n)' THEN 1 ELSE 0
  BY <1>3, <1>4, <1>5, IndexedIs
<1>. QED  BY <1>3, <1>6 DEF Indexed, Running, Named

LEMMA IndexedPops ==
  ASSUME Nested, Indexed, PopSource
  PROVE  Indexed'
<1>. DEFINE names == [active EXCEPT ![Top.name] = @ - 1]
            N == Len(sources)
<1>1. N \in Nat /\ N > 1 /\ N \in 2..N /\ error = "none" /\ Running
  <2>1. N \in Nat \ {0} /\ N # 1 /\ error = "none"
    BY Sources DEF PopSource, AtRoot, Scanning
  <2>2. \A n \in Nat \ {0} : n # 1 => n > 1 /\ n \in 2..n
    OBVIOUS
  <2>. QED  BY <2>1, <2>2 DEF Running
<1>2. Top.name \in EntityNames /\ Named(Top.name)
  BY <1>1 DEF Nested, Top, Named
<1>3. \A n \in EntityNames : active[n] = IF Named(n) THEN 1 ELSE 0
  BY <1>1, IndexedIs
<1>4. \A n \in EntityNames : names[n] = IF n = Top.name THEN 0 ELSE active[n]
  <2>1. active[Top.name] = 1
    BY <1>2, <1>3
  <2>2. active \in [EntityNames -> Nat]
    BY DEF Indexed
  <2>. QED  BY <1>2, <2>1, <2>2
<1>5. names \in [EntityNames -> Nat]
  <2>1. names = [n \in EntityNames |-> names[n]]
    BY DEF Indexed
  <2>2. \A n \in EntityNames : names[n] \in Nat
    BY <1>4 DEF Indexed
  <2>. HIDE DEF names
  <2>. QED  BY <2>1, <2>2
<1>6. \A n : Named(n)' <=> Named(n) /\ n # Top.name
  <2>0. Sequence(sources)
    BY DEF Nested
  <2>1. Sequence(sources) /\ N - 1 \in Nat /\ N - 1 <= N
    <3>1. \A n \in Nat : n > 1 => n - 1 \in Nat /\ n - 1 <= n
      OBVIOUS
    <3>. QED  BY <1>1, <2>0, <3>1
  <2>2. sources' = Part(sources, N - 1)
    BY DEF PopSource, Part
  <2>3. Len(sources') = N - 1 /\ \A i \in 1..N - 1 : i \in 1..N /\ sources'[i] = sources[i]
    BY <2>1, <2>2, PartIs
  <2>4. \A i \in 2..N - 1 : i \in 2..N /\ i < N /\ i \in 1..N - 1
    BY <1>1
  <2>5. \A i \in 2..N : i = N \/ i \in 2..N - 1
    BY <1>1
  <2>6. \A i \in 2..N - 1 : sources[i].name # Top.name
    BY <1>1, <2>4 DEF Nested, Top
  <2>. QED  BY <2>3, <2>4, <2>5, <2>6 DEF Named, Top
<1>7. active' \in [EntityNames -> Nat] /\ (Running' => active' = names)
  <2>1. CASE active' = names
    BY <1>5, <2>1
  <2>2. CASE Raise("AsynchronousEntity", << >>, names)
    <3>1. decodingError' = decodingError
      BY DEF PopSource, decoderVars
    <3>. HIDE DEF names
    <3>. QED  BY <1>5, <2>2, <3>1, RaiseActive
  <2>. QED  BY <2>1, <2>2 DEF PopSource
<1>. HIDE DEF names
<1>8. Running' => \A n \in EntityNames : active'[n] = IF Named(n)' THEN 1 ELSE 0
  BY <1>3, <1>4, <1>6, <1>7
<1>. QED  BY <1>7, <1>8 DEF Indexed, Running, Named

LEMMA IndexedEnters ==
  ASSUME Nested, Indexed, error = "none", Enters
  PROVE  Indexed'
<1>1. PICK name \in EntityNames :
        /\ ~Open(name)
        /\ sources' = Append([sources EXCEPT ![Len(sources)].rest = Tail(@)],
                             [name |-> name, rest |-> EntityValue[name], depth |-> Len(stack)])
        /\ active' = Entered(name)
  BY DEF Enters
<1>2. /\ Sequence(sources) /\ Len(sources) \in Nat \ {0} /\ Len(sources) \in 1..Len(sources)
  BY Sources DEF Nested
<1>3. PICK left : /\ left.name = Top.name
                  /\ [sources EXCEPT ![Len(sources)].rest = Tail(@)] = Updated(sources, Len(sources), left)
  <2>1. Top = [name |-> Top.name, rest |-> Top.rest, depth |-> Top.depth]
    BY Sources DEF Source
  <2>2. [Top EXCEPT !.rest = Tail(Rest)].name = Top.name
    <3>1. \A top, r : top = [name |-> top.name, rest |-> top.rest, depth |-> top.depth] =>
            [top EXCEPT !.rest = r].name = top.name
      OBVIOUS
    <3>. QED  BY <2>1, <3>1
  <2>3. [sources EXCEPT ![Len(sources)].rest = Tail(@)] = Updated(sources, Len(sources), [Top EXCEPT !.rest = Tail(Rest)])
    BY DEF Updated, Top, Rest
  <2>. QED  BY <2>2, <2>3
<1>4. PICK below, entered : /\ below = Updated(sources, Len(sources), left)
                            /\ entered.name = name /\ sources' = Append(below, entered)
  BY <1>1, <1>3
<1>5. /\ Sequence(below) /\ Len(below) = Len(sources)
      /\ \A i \in 1..Len(sources) : below[i] = IF i = Len(sources) THEN left ELSE sources[i]
  BY <1>2, <1>4, UpdateIs
<1>6. /\ Len(sources') = Len(sources) + 1
      /\ \A i \in 1..Len(sources) : sources'[i].name = sources[i].name
      /\ sources'[Len(sources) + 1].name = name
  <2>1. /\ Len(Append(below, entered)) = Len(below) + 1
        /\ \A i \in 1..Len(below) : Append(below, entered)[i] = below[i]
        /\ Append(below, entered)[Len(below) + 1] = entered
    BY <1>5, AppendIs
  <2>2. \A i \in 1..Len(sources) : below[i].name = sources[i].name
    BY <1>3, <1>5 DEF Top
  <2>. QED  BY <1>4, <1>5, <2>1, <2>2
<1>7. \A n : Named(n)' <=> Named(n) \/ n = name
  <2>1. \A i \in 2..Len(sources) : i \in 1..Len(sources) /\ i \in 2..Len(sources) + 1
    BY <1>2
  <2>2. \A i \in 2..Len(sources) + 1 : i \in 2..Len(sources) \/ i = Len(sources) + 1
    BY <1>2
  <2>3. Len(sources) + 1 \in 2..Len(sources) + 1
    BY <1>2
  <2>. QED  BY <1>6, <2>1, <2>2, <2>3 DEF Named
<1>8. active \in [EntityNames -> Nat] /\ \A n \in EntityNames : active[n] = IF Named(n) THEN 1 ELSE 0
  BY DEF Indexed, Named
<1>9. active[name] = 0
  BY <1>1, <1>8 DEF Open
<1>10. active' \in [EntityNames -> Nat]
       /\ \A n \in EntityNames : active'[n] = IF n = name THEN 1 ELSE active[n]
  <2>1. active' = [active EXCEPT ![name] = active[name] + 1] /\ active[name] + 1 = 1
    BY <1>1, <1>9 DEF Entered
  <2>. QED  BY <1>8, <2>1
<1>11. \A n \in EntityNames : active'[n] = IF Named(n)' THEN 1 ELSE 0
  BY <1>7, <1>8, <1>10
<1>. QED  BY <1>10, <1>11 DEF Indexed, Named

LEMMA AnswerStays ==
  ASSUME Answer
  PROVE  UNCHANGED <<input, decodingError, sources, active, stack, scopes, bindings, error>>
BY DEF Answer, inputVars, decoderVars, nestVars

LEMMA SourcesStep ==
  ASSUME Typed, Nested, Indexed, Elements, Step
  PROVE  Nested' /\ Indexed'
<1>1. CASE Application
  <2>1. Alike /\ UNCHANGED <<active, stack, input>>
    BY <1>1, ApplicationAlike, ApplicationStays
  <2>2. Running' => Running
    BY <1>1 DEF Running, Application, Call, FeedFails, ResolveEncoding, ResolveConversion, Feed, decoderVars
  <2>. QED  BY <2>1, <2>2, NestedSame, IndexedSame
<1>2. CASE Answer
  <2>1. Alike
    BY <1>2, AnswerStays, SameAlike
  <2>2. Running' => Running
    BY <1>2, AnswerStays DEF Running
  <2>. QED  BY <1>2, <2>1, <2>2, AnswerStays, NestedSame, IndexedSame
<1>3. CASE Scan
  <2>1. input' = input /\ error = "none" /\ Running
    BY <1>3, ScanTyped, ScanNeeds DEF Scanning, Running
  <2>2. CASE Fails
    <3>1. UNCHANGED <<sources, stack>>
      BY <2>2 DEF Fails, Fail
    <3>2. Alike
      BY <3>1, SameAlike
    <3>. QED  BY <2>1, <2>2, <3>1, <3>2, NestedSame, IndexedFails
  <2>3. CASE PopSource
    BY <2>3, NestedPops, IndexedPops
  <2>4. CASE Enters
    BY <2>1, <2>4, NestedEnters, IndexedEnters
  <2>5. CASE Reads /\ (Plain \/ OpensElement \/ ShutsElement)
    <3>1. Alike /\ UNCHANGED active
      BY <2>5 DEF Reads
    <3>2. Nested'
      <4>1. CASE Plain
        BY <2>1, <3>1, <4>1, NestedSame DEF Plain
      <4>. QED  BY <2>1, <2>5, <3>1, <4>1, NestedOpens, NestedShuts
    <3>. QED  BY <2>1, <3>1, <3>2, IndexedSame
  <2>. QED  BY <1>3, <2>2, <2>3, <2>4, <2>5, ScanKinds
<1>. QED  BY <1>1, <1>2, <1>3 DEF Step

-----------------------------------------------------------------------------
(***************************************************************************)
(* The elements and their undo blocks                                      *)
(***************************************************************************)

LEMMA UndoIs ==
  ASSUME NEW decls, Block(decls)
  PROVE  /\ Block(Undo(decls)) /\ Len(Undo(decls)) = Len(decls)
         /\ \A i \in 1..Len(decls) : Undo(decls)[i].prefix = decls[i].prefix
<1>1. Len(decls) \in Nat
  BY SequenceIs DEF Block
<1>2. Undo(decls) = [i \in 1..Len(decls) |-> Undo(decls)[i]]
  BY DEF Undo
<1>3. Sequence(Undo(decls)) /\ Len(Undo(decls)) = Len(decls)
  BY <1>1, <1>2, FunctionIs
<1>4. \A i \in 1..Len(decls) : Undo(decls)[i].prefix = decls[i].prefix
  BY DEF Undo
<1>. QED  BY <1>3, <1>4 DEF Block

\* A start tag declares prefixes.
LEMMA DeclsAre ==
  ASSUME NEW token, SoundToken(token), token.kind \in {"start", "empty"}
  PROVE  Block(token.decls) /\ token.name \in DOMAIN PrefixOf
<1>. DEFINE D == [prefix : Prefixes, uri : {token.decls[i].uri : i \in 1..Len(token.decls)}]
<1>1. token.decls \in Seq(D) /\ token.name \in DOMAIN PrefixOf
  BY DEF SoundToken
<1>2. \A d \in D : d.prefix \in Prefixes
  OBVIOUS
<1>. HIDE DEF D
<1>3. \A i \in 1..Len(token.decls) : token.decls[i] \in D
  BY <1>1, ElementOfSeq
<1>. QED  BY <1>1, <1>2, <1>3 DEF Block, Sequence

LEMMA ElementsPlain ==
  ASSUME Elements, UNCHANGED <<stack, scopes>>, DOMAIN bindings' = Prefixes
  PROVE  Elements'
BY DEF Elements, ScopesOwned

Declaring == {i \in 1..Len(stack) : stack[i].scope # 0}

LEMMA ScopesOwnedIs ==
  ScopesOwned <=> /\ \A i, j \in Declaring : i < j => stack[i].scope < stack[j].scope
                  /\ {stack[i].scope : i \in Declaring} = 1..Len(scopes)
BY DEF ScopesOwned, Declaring

LEMMA ElementsOpens ==
  ASSUME Elements, OpensElement
  PROVE  Elements'
<1>1. PICK token :
        LET decls == token.decls
            uri == Bound(bindings, decls)[PrefixOf[token.name]]
        IN /\ SoundToken(token) /\ token.kind = "start"
           /\ scopes' = IF decls = << >> THEN scopes ELSE Append(scopes, Undo(decls))
           /\ stack' = Append(stack, [name |-> token.name, uri |-> uri,
                                      scope |-> IF decls = << >> THEN 0 ELSE Len(scopes) + 1])
           /\ bindings' = Bound(bindings, decls)
  BY DEF OpensElement
<1>. DEFINE decls == token.decls
            scope == IF decls = << >> THEN 0 ELSE Len(scopes) + 1
<1>2. PICK element : stack' = Append(stack, element) /\ element.name = token.name /\ element.scope = scope
  BY <1>1
<1>3. Block(decls) /\ token.name \in DOMAIN PrefixOf /\ Block(Undo(decls))
  BY <1>1, DeclsAre, UndoIs
<1>4. scopes' = (IF decls = << >> THEN scopes ELSE Append(scopes, Undo(decls)))
      /\ DOMAIN bindings' = Prefixes
  BY <1>1, BoundIs
<1>. HIDE DEF decls
<1>5. /\ Sequence(stack) /\ Sequence(scopes) /\ Len(stack) \in Nat /\ Len(scopes) \in Nat
      /\ \A i \in 1..Len(stack) : stack[i].name \in DOMAIN PrefixOf /\ stack[i].scope \in Nat
      /\ \A s \in 1..Len(scopes) : Block(scopes[s])
  BY HeightIs DEF Elements
<1>6. /\ Sequence(stack') /\ Len(stack') = Len(stack) + 1
      /\ \A i \in 1..Len(stack) : stack'[i] = stack[i]
      /\ stack'[Len(stack) + 1] = element
  <2>1. /\ Sequence(Append(stack, element)) /\ Len(Append(stack, element)) = Len(stack) + 1
        /\ \A i \in 1..Len(stack) : Append(stack, element)[i] = stack[i]
        /\ Append(stack, element)[Len(stack) + 1] = element
    BY <1>5, AppendIs
  <2>. QED  BY <1>2, <2>1
<1>7. scope \in Nat
  BY <1>5
<1>8. \A i \in 1..Len(stack) + 1 : i \in 1..Len(stack) \/ i = Len(stack) + 1
  BY <1>5
<1>9. \A i \in 1..Len(stack') : stack'[i].name \in DOMAIN PrefixOf /\ stack'[i].scope \in Nat
  BY <1>2, <1>3, <1>5, <1>6, <1>7, <1>8
<1>10. ScopesOwned
  BY DEF Elements
<1>11. \A i \in 1..Len(stack) : i \in 1..Len(stack) + 1 /\ i < Len(stack) + 1 /\ ~(Len(stack) + 1 < i)
       /\ Len(stack) + 1 \in 1..Len(stack) + 1 /\ Len(stack) + 1 \notin 1..Len(stack)
  BY <1>5
<1>12. CASE decls = << >>
  <2>1. scopes' = scopes /\ scope = 0
    BY <1>4, <1>12
  <2>2. Declaring' = Declaring
    BY <1>2, <1>6, <1>8, <1>11, <2>1 DEF Declaring
  <2>3. \A i \in Declaring : stack'[i].scope = stack[i].scope
    BY <1>6 DEF Declaring
  <2>4. /\ \A i, j \in Declaring' : i < j => stack'[i].scope < stack'[j].scope
        /\ {stack'[i].scope : i \in Declaring'} = 1..Len(scopes')
    BY <1>10, <2>1, <2>2, <2>3, ScopesOwnedIs
  <2>5. ScopesOwned'
    BY <2>4 DEF ScopesOwned, Declaring
  <2>. QED  BY <1>4, <1>5, <1>6, <1>9, <2>1, <2>5 DEF Elements
<1>13. CASE decls # << >>
  <2>1. scopes' = Append(scopes, Undo(decls)) /\ scope = Len(scopes) + 1
    BY <1>4, <1>13
  <2>2. /\ Sequence(scopes') /\ Len(scopes') = Len(scopes) + 1
        /\ \A s \in 1..Len(scopes) : scopes'[s] = scopes[s]
        /\ scopes'[Len(scopes) + 1] = Undo(decls)
    BY <1>5, <2>1, AppendIs
  <2>3. \A s \in 1..Len(scopes') : Block(scopes'[s])
    <3>1. \A s \in 1..Len(scopes) + 1 : s \in 1..Len(scopes) \/ s = Len(scopes) + 1
      BY <1>5
    <3>. QED  BY <1>3, <1>5, <2>2, <3>1
  <2>4. Declaring' = Declaring \cup {Len(stack) + 1}
    <3>1. \A i \in 1..Len(stack) + 1 : i \in Declaring' <=> stack'[i].scope # 0
      BY <1>6 DEF Declaring
    <3>2. scope # 0
      BY <1>5, <2>1
    <3>3. Declaring' \subseteq 1..Len(stack) + 1 /\ Declaring \subseteq 1..Len(stack)
      BY <1>6 DEF Declaring
    <3>4. \A i \in 1..Len(stack) : i \in Declaring <=> stack[i].scope # 0
      BY DEF Declaring
    <3>. HIDE DEF scope
    <3>5. \A i \in 1..Len(stack) : i \in Declaring' <=> i \in Declaring
      BY <1>6, <1>11, <3>1, <3>4
    <3>6. Len(stack) + 1 \in Declaring'
      <4>1. Len(stack) + 1 \in 1..Len(stack) + 1 /\ stack'[Len(stack) + 1].scope = scope
        BY <1>2, <1>5, <1>6
      <4>. QED  BY <3>1, <3>2, <4>1
    <3>. QED  BY <1>8, <3>3, <3>5, <3>6
  <2>5. /\ \A i \in Declaring : i \in 1..Len(stack) /\ stack'[i].scope = stack[i].scope
        /\ stack'[Len(stack) + 1].scope = Len(scopes) + 1
    BY <1>2, <1>6, <2>1 DEF Declaring
  <2>6. /\ \A i, j \in Declaring : i < j => stack[i].scope < stack[j].scope
        /\ {stack[i].scope : i \in Declaring} = 1..Len(scopes)
    BY <1>10, ScopesOwnedIs
  <2>7. \A i \in Declaring : stack[i].scope \in 1..Len(scopes) /\ stack[i].scope < Len(scopes) + 1
    <3>1. \A i \in Declaring : stack[i].scope \in 1..Len(scopes)
      BY <2>6
    <3>. QED  BY <1>5, <3>1
  <2>8. \A i, j \in Declaring' : i < j => stack'[i].scope < stack'[j].scope
    BY <1>11, <2>4, <2>5, <2>6, <2>7
  <2>9. {stack'[i].scope : i \in Declaring'} = 1..Len(scopes) + 1
    <3>1. {stack'[i].scope : i \in Declaring'} = {stack[i].scope : i \in Declaring} \cup {Len(scopes) + 1}
      BY <2>4, <2>5
    <3>2. 1..Len(scopes) + 1 = (1..Len(scopes)) \cup {Len(scopes) + 1}
      BY <1>5
    <3>. QED  BY <2>6, <3>1, <3>2
  <2>10. ScopesOwned'
    <3>1. {stack'[i].scope : i \in Declaring'} = 1..Len(scopes')
      BY <2>2, <2>9
    <3>. QED  BY <2>8, <3>1 DEF ScopesOwned, Declaring
  <2>. QED  BY <1>4, <1>6, <1>9, <2>2, <2>3, <2>10 DEF Elements
<1>. QED  BY <1>12, <1>13

\* The innermost undo block is the innermost element's, if it declared something.
LEMMA InnermostIs ==
  ASSUME Elements, stack # << >>
  PROVE  /\ Len(stack) \in Nat \ {0} /\ Len(stack) \in 1..Len(stack)
         /\ stack[Len(stack)].scope # 0 =>
              /\ Len(scopes) \in Nat \ {0} /\ stack[Len(stack)].scope = Len(scopes)
              /\ \A i \in Declaring : i # Len(stack) => stack[i].scope \in 1..Len(scopes) - 1
<1>. DEFINE N == Len(stack)
            L == Len(scopes)
<1>1. N \in Nat \ {0} /\ N \in 1..N /\ L \in Nat
  <2>1. N \in Nat /\ N # 0 /\ L \in Nat
    BY HeightIs, SequenceIs DEF Elements
  <2>. QED  BY <2>1
<1>2. /\ \A i, j \in Declaring : i < j => stack[i].scope < stack[j].scope
      /\ {stack[i].scope : i \in Declaring} = 1..L
  BY ScopesOwnedIs DEF Elements
<1>3. \A i \in Declaring : i \in 1..N
  BY DEF Declaring
<1>. HIDE DEF N, L
<1>4. ASSUME stack[N].scope # 0
      PROVE  /\ L \in Nat \ {0} /\ stack[N].scope = L
             /\ \A i \in Declaring : i # N => stack[i].scope \in 1..L - 1
  <2>1. N \in Declaring
    BY <1>1, <1>4 DEF Declaring, N
  <2>2. \A i \in Declaring : stack[i].scope \in 1..L
    BY <1>2
  <2>3. L \in Nat \ {0} /\ L \in 1..L
    BY <1>1, <2>1, <2>2
  <2>4. PICK k \in Declaring : stack[k].scope = L
    BY <1>2, <2>3
  <2>5. \A i \in Declaring : i # N => i < N
    BY <1>1, <1>3
  <2>6. \A i \in Declaring : i # N => stack[i].scope < stack[N].scope
    BY <1>2, <2>1, <2>5
  <2>7. k = N
    <3>1. ~(L < stack[N].scope)
      BY <1>1, <2>1, <2>2
    <3>. QED  BY <2>4, <2>6, <3>1
  <2>8. \A x \in 1..L : x < L => x \in 1..L - 1
    BY <1>1
  <2>. QED  BY <2>2, <2>3, <2>4, <2>6, <2>7, <2>8
<1>. QED  BY <1>1, <1>4 DEF N, L

LEMMA ElementsShuts ==
  ASSUME Elements, ShutsElement
  PROVE  Elements'
<1>. DEFINE N == Len(stack)
            L == Len(scopes)
            element == stack[N]
<1>1. /\ stack # << >> /\ stack' = Part(stack, N - 1) /\ DOMAIN bindings' = Prefixes
      /\ scopes' = IF element.scope = 0 THEN scopes ELSE Part(scopes, L - 1)
  BY BoundIs DEF ShutsElement, TakeScope, Part
<1>2. /\ Sequence(stack) /\ Sequence(scopes) /\ L \in Nat
      /\ \A i \in 1..N : stack[i].name \in DOMAIN PrefixOf /\ stack[i].scope \in Nat
      /\ \A s \in 1..L : Block(scopes[s])
  BY HeightIs DEF Elements
<1>3. /\ N \in Nat \ {0} /\ N \in 1..N
      /\ element.scope # 0 =>
           /\ L \in Nat \ {0} /\ element.scope = L
           /\ \A i \in Declaring : i # N => stack[i].scope \in 1..L - 1
  BY <1>1, InnermostIs
<1>4. N - 1 \in Nat /\ N - 1 <= N
  BY <1>3
<1>. HIDE DEF N, L, element
<1>5. /\ Sequence(stack') /\ Len(stack') = N - 1
      /\ \A i \in 1..N - 1 : i \in 1..N /\ stack'[i] = stack[i]
  BY <1>1, <1>2, <1>4, PartIs DEF N
<1>6. \A i \in 1..Len(stack') : stack'[i].name \in DOMAIN PrefixOf /\ stack'[i].scope \in Nat
  BY <1>2, <1>5
<1>7. \A i : i \in Declaring' <=> i \in Declaring /\ i # N
  <2>1. \A i : i \in 1..N - 1 <=> i \in 1..N /\ i # N
    BY <1>3
  <2>2. \A i : i \in Declaring' <=> i \in 1..N - 1 /\ stack'[i].scope # 0
    BY <1>5 DEF Declaring
  <2>3. \A i : i \in Declaring <=> i \in 1..N /\ stack[i].scope # 0
    BY DEF Declaring, N
  <2>. QED  BY <1>5, <2>1, <2>2, <2>3
<1>8. \A i \in Declaring' : stack'[i].scope = stack[i].scope
  BY <1>5 DEF Declaring
<1>9. /\ \A i, j \in Declaring : i < j => stack[i].scope < stack[j].scope
      /\ {stack[i].scope : i \in Declaring} = 1..L
  BY ScopesOwnedIs DEF Elements, L
<1>10. \A i, j \in Declaring' : i < j => stack'[i].scope < stack'[j].scope
  BY <1>7, <1>8, <1>9
<1>11. CASE element.scope = 0
  <2>1. scopes' = scopes
    BY <1>1, <1>11
  <2>2. N \notin Declaring
    BY <1>11 DEF Declaring, element
  <2>3. {stack'[i].scope : i \in Declaring'} = {stack[i].scope : i \in Declaring}
    <3>1. Declaring' = Declaring
      BY <1>7, <2>2
    <3>. QED  BY <1>8, <3>1
  <2>4. ScopesOwned'
    <3>1. {stack'[i].scope : i \in Declaring'} = 1..Len(scopes')
      BY <1>9, <2>1, <2>3 DEF L
    <3>. QED  BY <1>10, <3>1 DEF ScopesOwned, Declaring
  <2>. QED  BY <1>1, <1>2, <1>5, <1>6, <2>1, <2>4 DEF Elements, L
<1>12. CASE element.scope # 0
  <2>1. L - 1 \in Nat /\ L - 1 <= L /\ scopes' = Part(scopes, L - 1)
    BY <1>1, <1>3, <1>12
  <2>2. /\ Sequence(scopes') /\ Len(scopes') = L - 1
        /\ \A s \in 1..L - 1 : s \in 1..L /\ scopes'[s] = scopes[s]
    BY <1>2, <2>1, PartIs DEF L
  <2>3. \A s \in 1..Len(scopes') : Block(scopes'[s])
    BY <1>2, <2>2
  <2>4. {stack'[i].scope : i \in Declaring'} = 1..L - 1
    <3>1. \A i \in Declaring' : stack'[i].scope \in 1..L - 1
      BY <1>3, <1>7, <1>8, <1>12
    <3>2. ASSUME NEW x \in 1..L - 1 PROVE \E i \in Declaring' : stack'[i].scope = x
      <4>1. x \in 1..L /\ x # L
        BY <1>2, <3>2
      <4>2. PICK i \in Declaring : stack[i].scope = x
        BY <1>9, <4>1
      <4>3. i # N
        BY <1>3, <1>12, <4>1, <4>2 DEF element
      <4>. QED  BY <1>7, <1>8, <4>2, <4>3
    <3>. QED  BY <3>1, <3>2
  <2>5. ScopesOwned'
    <3>1. {stack'[i].scope : i \in Declaring'} = 1..Len(scopes')
      BY <2>2, <2>4
    <3>. QED  BY <1>10, <3>1 DEF ScopesOwned, Declaring
  <2>. QED  BY <1>1, <1>5, <1>6, <2>2, <2>3, <2>5 DEF Elements
<1>. QED  BY <1>11, <1>12

LEMMA ElementsStep ==
  ASSUME Typed, Nested, Elements, Step
  PROVE  Elements'
<1>1. CASE UNCHANGED <<stack, scopes, bindings>>
  BY <1>1, ElementsPlain DEF Elements
<1>2. CASE Application
  BY <1>1, <1>2, ApplicationStays
<1>3. CASE Answer
  BY <1>1, <1>3, AnswerStays
<1>4. CASE Scan
  <2>1. CASE Fails
    BY <1>1, <2>1 DEF Fails, Fail
  <2>2. CASE PopSource
    BY <1>1, <2>2 DEF PopSource
  <2>3. CASE Enters
    BY <1>1, <2>3 DEF Enters
  <2>4. CASE Plain
    BY <2>4, ElementsPlain DEF Plain
  <2>. QED  BY <1>4, <2>1, <2>2, <2>3, <2>4, ScanKinds, ElementsOpens, ElementsShuts
<1>. QED  BY <1>2, <1>3, <1>4 DEF Step

-----------------------------------------------------------------------------
(***************************************************************************)
(* What was told is what is open                                           *)
(***************************************************************************)

\* The undo records for a prefix, in one block and in some.
In(block, s, prefix) ==
  {<<s, i>> : i \in {k \in 1..Len(block) : block[k].prefix = prefix}}

RecordsOf(blocks, prefix) == UNION {In(blocks[s], s, prefix) : s \in 1..Len(blocks)}

ElementsOf(elements, name) == {i \in 1..Len(elements) : elements[i].name = name}

\* The events announce, and do not close, those blocks and elements.
Agree(events, blocks, elements) ==
  /\ \A p \in Prefixes :
       Count(events, "StartNamespace", p)
         = Count(events, "EndNamespace", p) + Cardinality(RecordsOf(blocks, p))
  /\ \A n \in DOMAIN PrefixOf :
       Count(events, "StartElement", n)
         = Count(events, "EndElement", n) + Cardinality(ElementsOf(elements, n))

LEMMA AnnouncedIs ==
  /\ \A events : Announced(events) <=> Agree(events, scopes, stack)
  /\ Announced(log \o pending)' <=> Agree(log' \o pending', scopes', stack')
BY DEF Announced, Agree, Records, RecordsOf, In, ElementsOf

LEMMA BlockRecords ==
  ASSUME NEW block, Sequence(block), NEW s, NEW prefix
  PROVE  /\ IsFiniteSet(In(block, s, prefix))
         /\ Cardinality(In(block, s, prefix))
              = Cardinality({i \in 1..Len(block) : block[i].prefix = prefix})
<1>. DEFINE A == {i \in 1..Len(block) : block[i].prefix = prefix}
            f == [i \in A |-> <<s, i>>]
<1>1. IsFiniteSet(A)
  <2>1. IsFiniteSet(1..Len(block))
    BY SequenceIs, FS_Interval
  <2>. QED  BY <2>1, FS_Subset
<1>2. In(block, s, prefix) = {<<s, i>> : i \in A}
  BY DEF In
<1>3. /\ f \in [A -> In(block, s, prefix)]
      /\ \A i, j \in A : f[i] = f[j] => i = j
      /\ \A z \in In(block, s, prefix) : \E i \in A : f[i] = z
  BY <1>2
<1>. HIDE DEF A, f
<1>. QED  BY <1>1, <1>3, SameSize DEF A

LEMMA RecordsFinite ==
  ASSUME NEW blocks, Sequence(blocks), \A s \in 1..Len(blocks) : Sequence(blocks[s]), NEW prefix
  PROVE  IsFiniteSet(RecordsOf(blocks, prefix))
<1>. DEFINE sets == {In(blocks[s], s, prefix) : s \in 1..Len(blocks)}
            f == [s \in 1..Len(blocks) |-> In(blocks[s], s, prefix)]
<1>1. IsFiniteSet(1..Len(blocks))
  BY SequenceIs, FS_Interval
<1>2. f \in Surjection(1..Len(blocks), sets)
  BY DEF Surjection
<1>3. \A T \in sets : IsFiniteSet(T)
  BY BlockRecords
<1>4. RecordsOf(blocks, prefix) = UNION sets
  BY DEF RecordsOf
<1>. HIDE DEF sets, f
<1>5. IsFiniteSet(sets)
  BY <1>1, <1>2, FS_Surjection
<1>. QED  BY <1>3, <1>4, <1>5, FS_UNION

\* One block more.
Grown(fewer, more, block) ==
  /\ Sequence(fewer) /\ Sequence(more) /\ Len(more) = Len(fewer) + 1
  /\ \A s \in 1..Len(fewer) : more[s] = fewer[s]
  /\ \A s \in 1..Len(more) : Sequence(more[s])
  /\ more[Len(more)] = block

LEMMA RecordsGrow ==
  ASSUME NEW fewer, NEW more, NEW block, NEW prefix, Grown(fewer, more, block)
  PROVE  /\ Cardinality(RecordsOf(fewer, prefix)) \in Nat
         /\ Cardinality({i \in 1..Len(block) : block[i].prefix = prefix}) \in Nat
         /\ Cardinality(RecordsOf(more, prefix))
              = Cardinality(RecordsOf(fewer, prefix))
                + Cardinality({i \in 1..Len(block) : block[i].prefix = prefix})
<1>. USE DEF Grown
<1>. DEFINE L == Len(fewer)
            last == In(block, L + 1, prefix)
<1>1. /\ L \in Nat /\ L + 1 \in 1..L + 1 /\ \A s \in 1..L : s \in 1..L + 1
      /\ \A s \in 1..L + 1 : s \in 1..L \/ s = L + 1
  BY SequenceIs
<1>2. Sequence(block) /\ \A s \in 1..L : Sequence(fewer[s])
  BY <1>1
<1>3. /\ IsFiniteSet(last)
      /\ Cardinality(last) = Cardinality({i \in 1..Len(block) : block[i].prefix = prefix})
  BY <1>2, BlockRecords
<1>4. IsFiniteSet(RecordsOf(fewer, prefix))
  BY <1>2, RecordsFinite
<1>5. RecordsOf(more, prefix) = RecordsOf(fewer, prefix) \cup last
  <2>1. \A x : x \in RecordsOf(more, prefix) <=> \E s \in 1..L + 1 : x \in In(more[s], s, prefix)
    BY DEF RecordsOf
  <2>2. \A x : x \in RecordsOf(fewer, prefix) <=> \E s \in 1..L : x \in In(fewer[s], s, prefix)
    BY DEF RecordsOf
  <2>3. \A s \in 1..L : In(more[s], s, prefix) = In(fewer[s], s, prefix)
    OBVIOUS
  <2>4. In(more[L + 1], L + 1, prefix) = last
    OBVIOUS
  <2>. HIDE DEF last, L
  <2>. QED  BY <1>1, <2>1, <2>2, <2>3, <2>4
<1>6. RecordsOf(fewer, prefix) \cap last = {}
  <2>1. \A x \in last : x[1] = L + 1
    BY DEF In
  <2>2. \A x \in RecordsOf(fewer, prefix) : x[1] \in 1..L
    BY DEF RecordsOf, In
  <2>3. L + 1 \notin 1..L
    BY <1>1
  <2>. HIDE DEF last, L
  <2>. QED  BY <2>1, <2>2, <2>3
<1>. HIDE DEF last
<1>7. Cardinality(RecordsOf(more, prefix)) = Cardinality(RecordsOf(fewer, prefix)) + Cardinality(last)
  BY <1>3, <1>4, <1>5, <1>6, TwoParts
<1>8. Cardinality(RecordsOf(fewer, prefix)) \in Nat /\ Cardinality(last) \in Nat
  BY <1>3, <1>4, FS_CardinalityType
<1>. QED  BY <1>3, <1>7, <1>8

\* One element more.
LEMMA ElementsGrow ==
  ASSUME NEW fewer, Sequence(fewer), NEW more, Len(more) = Len(fewer) + 1,
         \A i \in 1..Len(fewer) : more[i] = fewer[i], NEW name
  PROVE  /\ Cardinality(ElementsOf(fewer, name)) \in Nat
         /\ Cardinality(ElementsOf(more, name))
              = Cardinality(ElementsOf(fewer, name)) + IF more[Len(more)].name = name THEN 1 ELSE 0
<1>. DEFINE L == Len(fewer)
            A == ElementsOf(fewer, name)
<1>1. /\ L \in Nat /\ L + 1 \in 1..L + 1 /\ L + 1 \notin 1..L
      /\ \A i : i \in 1..L + 1 <=> i \in 1..L \/ i = L + 1
  BY SequenceIs
<1>2. A \subseteq 1..L /\ IsFiniteSet(A)
  <2>1. A \subseteq 1..L /\ IsFiniteSet(1..L)
    BY <1>1, FS_Interval DEF ElementsOf
  <2>. QED  BY <2>1, FS_Subset
<1>3. \A i : i \in ElementsOf(more, name) <=> i \in A \/ (i = L + 1 /\ more[L + 1].name = name)
  BY <1>1 DEF ElementsOf
<1>. HIDE DEF A
<1>4. Cardinality(A) \in Nat
  BY <1>2, FS_CardinalityType
<1>5. CASE more[L + 1].name = name
  <2>1. ElementsOf(more, name) = A \cup {L + 1}
    BY <1>3, <1>5
  <2>2. L + 1 \notin A
    BY <1>1, <1>2
  <2>3. Cardinality(A \cup {L + 1}) = Cardinality(A) + 1
    BY <1>2, <2>2, FS_AddElement
  <2>. QED  BY <1>4, <1>5, <2>1, <2>3 DEF A
<1>6. CASE more[L + 1].name # name
  <2>1. ElementsOf(more, name) = A
    BY <1>3, <1>6
  <2>. QED  BY <1>4, <1>6, <2>1 DEF A
<1>. QED  BY <1>5, <1>6

\* The numbers of records and of elements are numbers.
Sized(blocks, elements) ==
  /\ \A p : Cardinality(RecordsOf(blocks, p)) \in Nat
  /\ \A n : Cardinality(ElementsOf(elements, n)) \in Nat

LEMMA SizedIs ==
  ASSUME NEW blocks, Sequence(blocks), \A s \in 1..Len(blocks) : Sequence(blocks[s]),
         NEW elements, Sequence(elements)
  PROVE  Sized(blocks, elements)
<1>1. \A p : Cardinality(RecordsOf(blocks, p)) \in Nat
  BY RecordsFinite, FS_CardinalityType
<1>2. ASSUME NEW n PROVE Cardinality(ElementsOf(elements, n)) \in Nat
  <2>1. IsFiniteSet(1..Len(elements)) /\ ElementsOf(elements, n) \subseteq 1..Len(elements)
    BY SequenceIs, FS_Interval DEF ElementsOf
  <2>2. IsFiniteSet(ElementsOf(elements, n))
    BY <2>1, FS_Subset
  <2>. QED  BY <2>2, FS_CardinalityType
<1>. QED  BY <1>1, <1>2 DEF Sized

\* The events change the stacks by what they announce and close.
Accounts(x, blocks, elements, blocks2, elements2) ==
  /\ \A p \in Prefixes :
       Count(x, "StartNamespace", p) + Cardinality(RecordsOf(blocks, p))
         = Count(x, "EndNamespace", p) + Cardinality(RecordsOf(blocks2, p))
  /\ \A n \in DOMAIN PrefixOf :
       Count(x, "StartElement", n) + Cardinality(ElementsOf(elements, n))
         = Count(x, "EndElement", n) + Cardinality(ElementsOf(elements2, n))

LEMMA AgreeOn ==
  ASSUME NEW told, Sequence(told), NEW x, Sequence(x),
         NEW blocks, NEW elements, NEW blocks2, NEW elements2,
         Sized(blocks, elements), Sized(blocks2, elements2),
         Agree(told, blocks, elements), Accounts(x, blocks, elements, blocks2, elements2)
  PROVE  Agree(told \o x, blocks2, elements2)
<1>1. \A kind, p : Count(told \o x, kind, p) = Count(told, kind, p) + Count(x, kind, p)
  BY CountConcat
<1>2. \A kind, p : Count(told, kind, p) \in Nat /\ Count(x, kind, p) \in Nat
  BY CountIs
<1>3. \A a, b, c, d, r, s \in Nat : a = b + r /\ c + r = d + s => a + c = (b + d) + s
  OBVIOUS
<1>4. ASSUME NEW p \in Prefixes
      PROVE  Count(told \o x, "StartNamespace", p)
               = Count(told \o x, "EndNamespace", p) + Cardinality(RecordsOf(blocks2, p))
  <2>1. /\ Count(told, "StartNamespace", p)
             = Count(told, "EndNamespace", p) + Cardinality(RecordsOf(blocks, p))
        /\ Count(x, "StartNamespace", p) + Cardinality(RecordsOf(blocks, p))
             = Count(x, "EndNamespace", p) + Cardinality(RecordsOf(blocks2, p))
    BY DEF Agree, Accounts
  <2>2. Cardinality(RecordsOf(blocks, p)) \in Nat /\ Cardinality(RecordsOf(blocks2, p)) \in Nat
    BY DEF Sized
  <2>. QED  BY <1>1, <1>2, <1>3, <2>1, <2>2
<1>5. ASSUME NEW n \in DOMAIN PrefixOf
      PROVE  Count(told \o x, "StartElement", n)
               = Count(told \o x, "EndElement", n) + Cardinality(ElementsOf(elements2, n))
  <2>1. /\ Count(told, "StartElement", n)
             = Count(told, "EndElement", n) + Cardinality(ElementsOf(elements, n))
        /\ Count(x, "StartElement", n) + Cardinality(ElementsOf(elements, n))
             = Count(x, "EndElement", n) + Cardinality(ElementsOf(elements2, n))
    BY DEF Agree, Accounts
  <2>2. Cardinality(ElementsOf(elements, n)) \in Nat /\ Cardinality(ElementsOf(elements2, n)) \in Nat
    BY DEF Sized
  <2>. QED  BY <1>1, <1>2, <1>3, <2>1, <2>2
<1>. QED  BY <1>4, <1>5 DEF Agree

LEMMA NeutralAccounts ==
  ASSUME NEW x, Neutral(x), NEW blocks, NEW elements
  PROVE  Accounts(x, blocks, elements, blocks, elements)
BY DEF Neutral, Accounts

LEMMA StacksSized ==
  ASSUME Elements
  PROVE  Sized(scopes, stack)
<1>1. \A s \in 1..Len(scopes) : Sequence(scopes[s])
  BY DEF Elements, Block
<1>. QED  BY <1>1, SizedIs DEF Elements

\* The stacks after an open or a closed element, and what was told of it.
LEMMA OpensAccounts ==
  ASSUME Elements, OpensElement, Elements'
  PROVE  Events(pending') /\ Accounts(pending', scopes, stack, scopes', stack')
<1>1. PICK token :
        LET decls == token.decls
            uri == Bound(bindings, decls)[PrefixOf[token.name]]
        IN /\ SoundToken(token) /\ token.kind = "start"
           /\ pending' = StartTells(decls, token.name, uri)
           /\ scopes' = IF decls = << >> THEN scopes ELSE Append(scopes, Undo(decls))
           /\ stack' = Append(stack, [name |-> token.name, uri |-> uri,
                                      scope |-> IF decls = << >> THEN 0 ELSE Len(scopes) + 1])
  BY DEF OpensElement
<1>. DEFINE decls == token.decls
<1>2. PICK element : stack' = Append(stack, element) /\ element.name = token.name
  BY <1>1
<1>3. PICK uri : pending' = StartTells(decls, token.name, uri)
  BY <1>1
<1>4. Block(decls) /\ Sequence(decls)
  BY <1>1, DeclsAre DEF Block
<1>5. scopes' = IF decls = << >> THEN scopes ELSE Append(scopes, Undo(decls))
  BY <1>1
<1>. HIDE DEF decls
<1>6. Announcing(pending', decls, token.name)
  BY <1>3, <1>4, OpeningTells
<1>7. /\ Sequence(stack) /\ Sequence(scopes) /\ Sequence(stack') /\ Sequence(scopes')
      /\ Len(stack) \in Nat /\ Len(scopes) \in Nat
      /\ \A s \in 1..Len(scopes') : Sequence(scopes'[s])
  BY HeightIs DEF Elements, Block
<1>8. ASSUME NEW n
      PROVE  Count(pending', "StartElement", n) + Cardinality(ElementsOf(stack, n))
               = Count(pending', "EndElement", n) + Cardinality(ElementsOf(stack', n))
  <2>1. /\ Len(stack') = Len(stack) + 1 /\ \A i \in 1..Len(stack) : stack'[i] = stack[i]
        /\ stack'[Len(stack) + 1] = element
    <3>1. /\ Len(Append(stack, element)) = Len(stack) + 1
          /\ \A i \in 1..Len(stack) : Append(stack, element)[i] = stack[i]
          /\ Append(stack, element)[Len(stack) + 1] = element
      BY <1>7, AppendIs
    <3>. QED  BY <1>2, <3>1
  <2>2. /\ Cardinality(ElementsOf(stack, n)) \in Nat
        /\ Cardinality(ElementsOf(stack', n))
             = Cardinality(ElementsOf(stack, n)) + IF stack'[Len(stack')].name = n THEN 1 ELSE 0
    BY <1>7, <2>1, ElementsGrow
  <2>3. stack'[Len(stack')].name = token.name
    BY <1>2, <2>1
  <2>4. Count(pending', "StartElement", n) = (IF n = token.name THEN 1 ELSE 0)
        /\ Count(pending', "EndElement", n) = 0
    BY <1>6 DEF Announcing
  <2>. QED  BY <2>2, <2>3, <2>4
<1>9. ASSUME NEW p
      PROVE  Count(pending', "StartNamespace", p) + Cardinality(RecordsOf(scopes, p))
               = Count(pending', "EndNamespace", p) + Cardinality(RecordsOf(scopes', p))
  <2>1. /\ Count(pending', "StartNamespace", p) = Cardinality({i \in 1..Len(decls) : decls[i].prefix = p})
        /\ Count(pending', "EndNamespace", p) = 0
    BY <1>6 DEF Announcing
  <2>2. CASE decls = << >>
    <3>1. scopes' = scopes /\ Cardinality(RecordsOf(scopes, p)) \in Nat
      BY <1>5, <2>2, StacksSized DEF Sized
    <3>2. {i \in 1..Len(decls) : decls[i].prefix = p} = {}
      BY <2>2, EmptyIs
    <3>3. Cardinality({i \in 1..Len(decls) : decls[i].prefix = p}) = 0
      BY <3>2, FS_EmptySet
    <3>. QED  BY <2>1, <3>1, <3>3
  <2>3. CASE decls # << >>
    <3>. DEFINE block == Undo(decls)
    <3>1. /\ Len(block) = Len(decls) /\ \A i \in 1..Len(decls) : block[i].prefix = decls[i].prefix
      BY <1>4, UndoIs
    <3>2. scopes' = Append(scopes, block)
      BY <1>5, <2>3
    <3>. HIDE DEF block
    <3>3. /\ Len(scopes') = Len(scopes) + 1 /\ \A s \in 1..Len(scopes) : scopes'[s] = scopes[s]
          /\ scopes'[Len(scopes')] = block
      <4>1. /\ Len(Append(scopes, block)) = Len(scopes) + 1
            /\ \A s \in 1..Len(scopes) : Append(scopes, block)[s] = scopes[s]
            /\ Append(scopes, block)[Len(scopes) + 1] = block
        BY <1>7, AppendIs
      <4>. QED  BY <3>2, <4>1
    <3>4. /\ Cardinality(RecordsOf(scopes, p)) \in Nat
          /\ Cardinality({i \in 1..Len(block) : block[i].prefix = p}) \in Nat
          /\ Cardinality(RecordsOf(scopes', p))
               = Cardinality(RecordsOf(scopes, p)) + Cardinality({i \in 1..Len(block) : block[i].prefix = p})
      <4>1. Grown(scopes, scopes', block)
        BY <1>7, <3>3 DEF Grown
      <4>. QED  BY <4>1, RecordsGrow
    <3>5. {i \in 1..Len(block) : block[i].prefix = p} = {i \in 1..Len(decls) : decls[i].prefix = p}
      BY <3>1
    <3>6. Count(pending', "StartNamespace", p) = Cardinality({i \in 1..Len(block) : block[i].prefix = p})
      BY <2>1, <3>5
    <3>. QED  BY <2>1, <3>4, <3>6
  <2>. QED  BY <2>2, <2>3
<1>10. Events(pending')
  BY <1>6 DEF Announcing
<1>. QED  BY <1>8, <1>9, <1>10 DEF Accounts

LEMMA ShutsAccounts ==
  ASSUME Elements, ShutsElement, Elements'
  PROVE  Events(pending') /\ Accounts(pending', scopes, stack, scopes', stack')
<1>. DEFINE N == Len(stack)
            L == Len(scopes)
            element == stack[N]
            undo == IF element.scope = 0 THEN << >> ELSE scopes[L]
<1>1. /\ stack # << >> /\ stack' = Part(stack, N - 1)
      /\ pending' = EndTells(undo, element.name, element.uri)
      /\ scopes' = IF element.scope = 0 THEN scopes ELSE Part(scopes, L - 1)
  BY DEF ShutsElement, TakeScope, Part
<1>2. /\ Sequence(stack) /\ Sequence(scopes) /\ Sequence(stack') /\ Sequence(scopes')
      /\ \A s \in 1..L : Sequence(scopes[s])
  BY DEF Elements, Block
<1>3. /\ N \in Nat \ {0} /\ N \in 1..N /\ L \in Nat
      /\ element.scope # 0 => L \in Nat \ {0} /\ L \in 1..L
  <2>1. /\ N \in Nat \ {0} /\ N \in 1..N /\ L \in Nat /\ (element.scope # 0 => L \in Nat \ {0})
    BY <1>1, InnermostIs, HeightIs
  <2>. QED  BY <2>1
<1>4. Sequence(undo)
  BY <1>2, <1>3, EmptyIs
<1>. HIDE DEF undo
<1>5. Concluding(pending', undo, element.name)
  <2>1. Concluding(EndTells(undo, element.name, element.uri), undo, element.name)
    BY <1>4, ClosingTells
  <2>. QED  BY <1>1, <2>1
<1>6. N - 1 \in Nat /\ N - 1 <= N /\ N = (N - 1) + 1
  BY <1>3
<1>. HIDE DEF N, L, element
<1>7. Len(stack') = N - 1 /\ \A i \in 1..N - 1 : stack'[i] = stack[i]
  BY <1>1, <1>2, <1>6, PartIs DEF N
<1>8. ASSUME NEW n
      PROVE  Count(pending', "StartElement", n) + Cardinality(ElementsOf(stack, n))
               = Count(pending', "EndElement", n) + Cardinality(ElementsOf(stack', n))
  <2>1. Len(stack) = Len(stack') + 1 /\ \A i \in 1..Len(stack') : stack[i] = stack'[i]
    BY <1>6, <1>7 DEF N
  <2>2. /\ Cardinality(ElementsOf(stack', n)) \in Nat
        /\ Cardinality(ElementsOf(stack, n))
             = Cardinality(ElementsOf(stack', n)) + IF stack[Len(stack)].name = n THEN 1 ELSE 0
    BY <1>2, <2>1, ElementsGrow
  <2>3. stack[Len(stack)].name = element.name
    BY DEF element, N
  <2>4. Count(pending', "EndElement", n) = (IF n = element.name THEN 1 ELSE 0)
        /\ Count(pending', "StartElement", n) = 0
    BY <1>5 DEF Concluding
  <2>. QED  BY <2>2, <2>3, <2>4
<1>9. ASSUME NEW p
      PROVE  Count(pending', "StartNamespace", p) + Cardinality(RecordsOf(scopes, p))
               = Count(pending', "EndNamespace", p) + Cardinality(RecordsOf(scopes', p))
  <2>1. /\ Count(pending', "EndNamespace", p) = Cardinality({i \in 1..Len(undo) : undo[i].prefix = p})
        /\ Count(pending', "StartNamespace", p) = 0
    BY <1>5 DEF Concluding
  <2>2. CASE element.scope = 0
    <3>1. scopes' = scopes /\ Cardinality(RecordsOf(scopes, p)) \in Nat
      BY <1>1, <2>2, StacksSized DEF Sized
    <3>2. {i \in 1..Len(undo) : undo[i].prefix = p} = {}
      BY <2>2, EmptyIs DEF undo
    <3>3. Cardinality({i \in 1..Len(undo) : undo[i].prefix = p}) = 0
      BY <3>2, FS_EmptySet
    <3>. QED  BY <2>1, <3>1, <3>3
  <2>3. CASE element.scope # 0
    <3>1. undo = scopes[L] /\ scopes' = Part(scopes, L - 1)
      BY <1>1, <2>3 DEF undo
    <3>2. L - 1 \in Nat /\ L - 1 <= L /\ L = (L - 1) + 1
      BY <1>3, <2>3
    <3>3. Len(scopes') = L - 1 /\ \A s \in 1..L - 1 : scopes'[s] = scopes[s]
      BY <1>2, <3>1, <3>2, PartIs DEF L
    <3>4. Grown(scopes', scopes, undo)
      BY <1>2, <3>1, <3>2, <3>3 DEF Grown, L
    <3>5. /\ Cardinality(RecordsOf(scopes', p)) \in Nat
          /\ Cardinality({i \in 1..Len(undo) : undo[i].prefix = p}) \in Nat
          /\ Cardinality(RecordsOf(scopes, p))
               = Cardinality(RecordsOf(scopes', p)) + Cardinality({i \in 1..Len(undo) : undo[i].prefix = p})
      BY <3>4, RecordsGrow
    <3>. QED  BY <2>1, <3>5
  <2>. QED  BY <2>2, <2>3
<1>10. Events(pending')
  BY <1>5 DEF Concluding
<1>. QED  BY <1>8, <1>9, <1>10 DEF Accounts

-----------------------------------------------------------------------------
(***************************************************************************)
(* The invariant                                                           *)
(***************************************************************************)

\* What a step adds to the log and the queue.
Tells(x) ==
  /\ log' \o pending' = (log \o pending) \o x /\ Events(x)
  /\ Events(log') /\ Events(pending')
  /\ Accounts(x, scopes, stack, scopes', stack')

LEMMA EmptyEvents ==
  ASSUME Told, pending = << >>
  PROVE  log \o pending = log
BY ConcatIs, EmptyIs DEF Told, Events

\* An event is delivered: it was queued, and now it is in the log.
LEMMA Delivered ==
  ASSUME NEW queue, Events(queue), queue # << >>, Events(log),
         log' = Append(log, Head(queue)), pending' = Tail(queue)
  PROVE  Events(log') /\ Events(pending') /\ log' \o pending' = log \o queue
<1>1. Sequence(queue) /\ Sequence(log) /\ Len(queue) \in Nat /\ Len(log) \in Nat
  BY SequenceIs DEF Events
<1>2. /\ Head(queue) = queue[1] /\ 1 \in 1..Len(queue) /\ Sequence(Tail(queue))
      /\ Len(Tail(queue)) = Len(queue) - 1
      /\ \A i \in 1..Len(queue) - 1 : Tail(queue)[i] = queue[i + 1]
  BY <1>1, TailIs
<1>3. \A i \in 1..Len(queue) - 1 : i + 1 \in 1..Len(queue)
  BY <1>1
<1>4. Events(Tail(queue))
  BY <1>2, <1>3 DEF Events
<1>5. Events(<<Head(queue)>>)
  <2>1. Sequence(<<Head(queue)>>) /\ Len(<<Head(queue)>>) = 1 /\ <<Head(queue)>>[1] = Head(queue)
    BY OneIs
  <2>2. Head(queue).kind \in EventKinds
    BY <1>2 DEF Events
  <2>3. \A i \in 1..1 : i = 1
    OBVIOUS
  <2>. QED  BY <2>1, <2>2, <2>3 DEF Events
<1>6. Append(log, Head(queue)) = log \o <<Head(queue)>>
  BY <1>1, AppendIs
<1>7. Events(Append(log, Head(queue)))
  BY <1>5, <1>6, EventsConcat
<1>8. Append(log, Head(queue)) \o Tail(queue) = log \o queue
  BY <1>1, MoveHeadIs
<1>. QED  BY <1>4, <1>7, <1>8

LEMMA TellsNothing ==
  ASSUME Told, Events(log'), Events(pending'), log' \o pending' = log \o pending,
         UNCHANGED <<stack, scopes>>
  PROVE  Tells(<< >>)
<1>1. Sequence(log \o pending)
  BY ConcatIs DEF Told, Events
<1>2. log' \o pending' = (log \o pending) \o << >>
  BY <1>1, EmptyIs, ConcatIs
<1>3. Neutral(<< >>)
  BY NothingNeutral
<1>4. Accounts(<< >>, scopes, stack, scopes', stack')
  BY <1>3, NeutralAccounts
<1>. QED  BY <1>2, <1>3, <1>4 DEF Tells, Neutral

LEMMA FailTells ==
  ASSUME Told, pending = << >>, NEW kind, NEW queue, Queue(queue), NEW names,
         Raise(kind, queue, names), UNCHANGED <<stack, scopes>>
  PROVE  \E x : Tells(x)
<1>1. CASE kind = "NoMemory" \/ queue = << >>
  <2>1. log' = log /\ pending' = << >>
    BY <1>1 DEF Raise
  <2>2. Tells(<< >>)
    BY <2>1, TellsNothing DEF Told
  <2>. QED  BY <2>2
<1>2. CASE ~(kind = "NoMemory" \/ queue = << >>)
  <2>. DEFINE closed == CloseBindings(queue)
  <2>1. log' = Append(log, Head(closed)) /\ pending' = Tail(closed)
    BY <1>2 DEF Raise, Deliver
  <2>2. Neutral(closed) /\ closed # << >>
    BY <1>2, CloseBindingsNeutral
  <2>. HIDE DEF closed
  <2>3. Events(closed) /\ Events(log)
    BY <2>2 DEF Neutral, Told
  <2>4. Events(log') /\ Events(pending') /\ log' \o pending' = log \o closed
    BY <2>1, <2>2, <2>3, Delivered
  <2>5. log' \o pending' = (log \o pending) \o closed
    BY <2>4, EmptyEvents
  <2>6. Accounts(closed, scopes, stack, scopes', stack')
    BY <2>2, NeutralAccounts
  <2>7. Tells(closed)
    BY <2>3, <2>4, <2>5, <2>6 DEF Tells
  <2>. QED  BY <2>7
<1>. QED  BY <1>1, <1>2

\* A step that queues what it tells.
LEMMA ReadTells ==
  ASSUME Told, pending = << >>, log' = log, Events(pending'),
         Accounts(pending', scopes, stack, scopes', stack')
  PROVE  Tells(pending')
<1>1. log' \o pending' = (log \o pending) \o pending'
  BY EmptyEvents
<1>. QED  BY <1>1 DEF Tells, Told

LEMMA StepTells ==
  ASSUME Typed, Nested, Elements, Elements', Told, Step
  PROVE  \E x : Tells(x)
<1>1. CASE Application
  <2>1. UNCHANGED <<log, pending, stack, scopes>>
    BY <1>1, ApplicationStays
  <2>. QED  BY <2>1, TellsNothing DEF Told
<1>2. CASE Answer
  <2>1. UNCHANGED <<stack, scopes>>
    BY <1>2, AnswerStays
  <2>2. CASE UNCHANGED <<log, pending>>
    BY <2>1, <2>2, TellsNothing DEF Told
  <2>3. CASE pending # << >> /\ pending' = Tail(pending) /\ log' = Append(log, Head(pending))
    <3>1. Events(log') /\ Events(pending') /\ log' \o pending' = log \o pending
      BY <2>3, Delivered DEF Told
    <3>. QED  BY <2>1, <3>1, TellsNothing
  <2>. QED  BY <1>2, <2>2, <2>3 DEF Answer, Deliver
<1>3. CASE Scan
  <2>1. pending = << >>
    BY <1>3, ScanNeeds DEF Scanning
  <2>2. CASE Fails
    <3>1. PICK kind, queue : Queue(queue) /\ Raise(kind, queue, active) /\ UNCHANGED <<stack, scopes>>
      BY <2>2 DEF Fails, Fail
    <3>. QED  BY <2>1, <3>1, FailTells
  <2>3. CASE PopSource
    <3>1. UNCHANGED <<stack, scopes>>
      BY <2>3 DEF PopSource
    <3>2. CASE UNCHANGED <<log, pending>>
      BY <3>1, <3>2, TellsNothing DEF Told
    <3>3. CASE \E names : Raise("AsynchronousEntity", << >>, names)
      BY <2>1, <3>1, <3>3, FailTells, QueueIs
    <3>. QED  BY <2>3, <3>2, <3>3 DEF PopSource, historyVars
  <2>4. CASE Enters
    <3>1. UNCHANGED <<log, pending, stack, scopes>>
      BY <2>4 DEF Enters
    <3>. QED  BY <3>1, TellsNothing DEF Told
  <2>5. CASE Reads /\ (Plain \/ OpensElement \/ ShutsElement)
    <3>1. log' = log
      BY <2>5 DEF Reads
    <3>2. Events(pending') /\ Accounts(pending', scopes, stack, scopes', stack')
      <4>1. CASE Plain
        BY <4>1, NeutralAccounts DEF Plain, Neutral
      <4>. QED  BY <2>5, <4>1, OpensAccounts, ShutsAccounts
    <3>3. Tells(pending')
      BY <2>1, <3>1, <3>2, ReadTells
    <3>. QED  BY <3>3
  <2>. QED  BY <1>3, <2>2, <2>3, <2>4, <2>5, ScanKinds
<1>. QED  BY <1>1, <1>2, <1>3 DEF Step

\* A call that returns no event leaves none in the queue.
LEMMA SilentStep ==
  ASSUME Typed, Nested, Elements, Told, Step,
         ~calling', outcome' \in {"more", "error", "finished"}
  PROVE  pending' = << >>
<1>1. CASE Application
  <2>1. UNCHANGED <<pending, outcome>> /\ ~calling
    BY <1>1, ApplicationStays DEF Application
  <2>. QED  BY <2>1 DEF Told
<1>2. CASE Answer
  BY <1>2 DEF Answer, Deliver, Return
<1>3. CASE Scan
  <2>1. pending = << >> /\ calling
    BY <1>3, ScanNeeds DEF Scanning
  <2>2. ASSUME NEW kind, NEW queue, NEW names, Raise(kind, queue, names) PROVE pending' = << >>
    BY <2>2 DEF Raise, Deliver, Return
  <2>3. CASE Fails
    BY <2>2, <2>3 DEF Fails, Fail
  <2>4. CASE PopSource
    BY <2>1, <2>2, <2>4 DEF PopSource
  <2>5. CASE Enters
    BY <2>1, <2>5 DEF Enters
  <2>6. CASE Reads
    BY <2>6 DEF Reads
  <2>. QED  BY <1>3, <2>3, <2>4, <2>5, <2>6, ScanKinds
<1>. QED  BY <1>1, <1>2, <1>3 DEF Step

LEMMA ToldStep ==
  ASSUME Typed, Nested, Elements, Elements', Told, Step
  PROVE  Told'
<1>1. PICK x : Tells(x)
  BY StepTells
<1>2. Events(log') /\ Events(pending') /\ Sequence(x)
  BY <1>1 DEF Tells, Events
<1>3. Sequence(log \o pending) /\ Agree(log \o pending, scopes, stack)
  BY ConcatIs, AnnouncedIs DEF Told, Events
<1>4. Sized(scopes, stack) /\ Sized(scopes', stack')
  <2>1. \A s \in 1..Len(scopes') : Sequence(scopes'[s])
    BY DEF Elements, Block
  <2>. QED  BY <2>1, SizedIs, StacksSized DEF Elements
<1>5. Agree((log \o pending) \o x, scopes', stack')
  <2>1. Accounts(x, scopes, stack, scopes', stack')
    BY <1>1 DEF Tells
  <2>. QED  BY <1>2, <1>3, <1>4, <2>1, AgreeOn
<1>6. Announced(log \o pending)'
  <2>1. Agree(log' \o pending', scopes', stack')
    BY <1>1, <1>5 DEF Tells
  <2>. QED  BY <2>1, AnnouncedIs
<1>. QED  BY <1>2, <1>6, SilentStep DEF Told, Events

LEMMA InitInv == Init => IInv
<1>. SUFFICES ASSUME Init PROVE IInv
  OBVIOUS
<1>1. Sequence(<< >>) /\ Len(<< >>) = 0 /\ Sound(<< >>)
  BY EmptyIs, SoundIs
<1>2. Typed
  <2>1. Len(doc) \in Nat
    BY Tokens DEF doc, Init
  <2>2. {finalInput, converting, inCdata, seenRoot, closedRoot, finished, calling} \subseteq BOOLEAN
    BY DEF Init
  <2>3. input \in Inputs /\ received = 0 /\ decoded = 0 /\ part = "none" /\ outcome = "none"
    BY DEF Init
  <2>4. ~(decodingError # "none" \/ converting)
    BY DEF Init
  <2>. QED  BY <2>1, <2>2, <2>3, <2>4 DEF Typed
<1>3. Nested
  <2>1. Sequence(sources) /\ Len(sources) = 1 /\ sources[1] = Root /\ sources # << >>
    BY OneIs DEF Init
  <2>2. Source(Root, Len(stack))
    <3>1. Len(stack) = 0
      BY <1>1 DEF Init
    <3>2. Root = [name |-> Root.name, rest |-> Root.rest, depth |-> Root.depth]
      BY DEF Root
    <3>3. Root.rest = << >> /\ Root.depth = 0
      BY DEF Root
    <3>4. Sound(Root.rest)
      BY <1>1, <3>3
    <3>5. Root.depth \in Nat /\ Root.depth <= Len(stack)
      BY <3>1, <3>3
    <3>. QED  BY <3>2, <3>4, <3>5 DEF Source
  <2>3. \A i \in 1..1 : i = 1
    OBVIOUS
  <2>4. 2..1 = {} /\ ~(1 > 1)
    OBVIOUS
  <2>5. Root.name = "" /\ Root.depth = 0
    BY DEF Root
  <2>. QED  BY <2>1, <2>2, <2>3, <2>4, <2>5 DEF Nested
<1>4. Indexed
  <2>1. Len(sources) = 1 /\ 2..1 = {}
    BY OneIs DEF Init
  <2>. QED  BY <2>1 DEF Indexed, Init
<1>5. Elements
  <2>1. stack = << >> /\ scopes = << >> /\ 1..0 = {}
    BY DEF Init
  <2>2. DOMAIN bindings = Prefixes
    BY TokensAssumption DEF Init, InitialBindings
  <2>3. ScopesOwned
    BY <1>1, <2>1 DEF ScopesOwned
  <2>. QED  BY <1>1, <2>1, <2>2, <2>3 DEF Elements
<1>6. Told
  <2>1. log = << >> /\ pending = << >> /\ scopes = << >> /\ stack = << >>
    BY DEF Init
  <2>2. Events(<< >>) /\ Neutral(<< >>)
    BY NothingNeutral DEF Neutral
  <2>3. log \o pending = << >>
    BY <1>1, <2>1, ConcatIs
  <2>4. \A kind, name : Count(<< >>, kind, name) = 0
    BY EmptyIs, CountNone
  <2>5. \A p : Cardinality(RecordsOf(<< >>, p)) = 0
    <3>1. \A p : RecordsOf(<< >>, p) = {}
      BY EmptyIs DEF RecordsOf
    <3>. QED  BY <3>1, FS_EmptySet
  <2>6. \A n : Cardinality(ElementsOf(<< >>, n)) = 0
    <3>1. \A n : ElementsOf(<< >>, n) = {}
      BY EmptyIs DEF ElementsOf
    <3>. QED  BY <3>1, FS_EmptySet
  <2>7. Agree(<< >>, scopes, stack)
    BY <2>1, <2>4, <2>5, <2>6 DEF Agree
  <2>8. Announced(log \o pending)
    BY <2>3, <2>7, AnnouncedIs
  <2>. QED  BY <2>1, <2>2, <2>8 DEF Told
<1>. QED  BY <1>2, <1>3, <1>4, <1>5, <1>6 DEF IInv

LEMMA InvStep ==
  ASSUME IInv, [Step]_vars
  PROVE  IInv'
<1>1. CASE Step
  <2>1. Elements'
    BY <1>1, ElementsStep DEF IInv
  <2>. QED  BY <1>1, <2>1, TypedStep, SourcesStep, ToldStep DEF IInv
<1>2. CASE UNCHANGED vars
  <2>. USE <1>2 DEF vars, inputVars, decoderVars, nestVars, phaseVars, historyVars
  <2>1. Typed'
    BY DEF IInv, Typed, doc
  <2>2. Nested'
    BY DEF IInv, Nested, ExternalDepth
  <2>3. Indexed'
    BY DEF IInv, Indexed
  <2>4. Elements'
    BY DEF IInv, Elements, ScopesOwned
  <2>5. Told'
    BY DEF IInv, Told, Announced, Records
  <2>. QED  BY <2>1, <2>2, <2>3, <2>4, <2>5 DEF IInv
<1>. QED  BY <1>1, <1>2

\* What the sources have in common with the index, as NestingKept says it.
LEMMA NestedIs ==
  ASSUME Typed, Nested, Indexed
  PROVE  EntitiesNested
<1>1. Len(sources) \in Nat
  BY Sources
<1>2. error = "none" => \A n \in EntityNames :
        active[n] = Cardinality({i \in 2..Len(sources) : sources[i].name = n})
  <2>. SUFFICES ASSUME error = "none", NEW n \in EntityNames
                PROVE  active[n] = Cardinality({i \in 2..Len(sources) : sources[i].name = n})
    OBVIOUS
  <2>. DEFINE S == {i \in 2..Len(sources) : sources[i].name = n}
  <2>1. active[n] = IF \E i \in 2..Len(sources) : sources[i].name = n THEN 1 ELSE 0
    BY DEF Indexed
  <2>2. CASE S = {}
    BY <2>1, <2>2, FS_EmptySet
  <2>3. CASE S # {}
    <3>1. PICK k \in 2..Len(sources) : sources[k].name = n
      BY <2>3
    <3>2. ASSUME NEW i \in S PROVE i = k
      <4>1. i \in 2..Len(sources) /\ sources[i].name = sources[k].name
        BY <3>1, <3>2
      <4>2. ~(i < k) /\ ~(k < i)
        BY <3>1, <4>1 DEF Nested
      <4>. QED  BY <1>1, <4>1, <4>2
    <3>3. S = {k}
      BY <3>1, <3>2
    <3>4. Cardinality(S) = 1
      BY <3>3, FS_Singleton
    <3>. QED  BY <2>1, <3>1, <3>4
  <2>. QED  BY <2>2, <2>3
<1>3. \A i \in 1..Len(sources) : sources[i].depth <= Len(stack)
  BY DEF Nested, Source
<1>. QED  BY <1>2, <1>3 DEF EntitiesNested, Nested

LEMMA Kept == IInv => NestingKept
<1>. SUFFICES ASSUME IInv PROVE NestingKept
  OBVIOUS
<1>1. TypeOK
  <2>1. Len(sources) \in Nat /\ \A i \in 1..Len(sources) :
          sources[i].depth \in Nat /\ sources[i].name \in EntityNames \cup {""}
    <3>1. Len(sources) \in Nat
      BY Sources DEF IInv
    <3>2. \A i \in 1..Len(sources) : i = 1 \/ i \in 2..Len(sources)
      BY <3>1
    <3>. QED  BY <3>1, <3>2 DEF IInv, Nested, Source
  <2>2. \A i \in 1..Len(pending) : pending[i].kind \in EventKinds
    BY DEF IInv, Told, Events
  <2>3. \A i \in 1..Len(log) : log[i].kind \in EventKinds
    BY DEF IInv, Told, Events
  <2>4. /\ \A i \in 1..Len(stack) : stack[i].name \in DOMAIN PrefixOf /\ stack[i].scope \in Nat
        /\ DOMAIN bindings = Prefixes /\ active \in [EntityNames -> Nat]
    BY DEF IInv, Elements, Indexed
  <2>. QED  BY <2>1, <2>2, <2>3, <2>4 DEF IInv, Typed, TypeOK
<1>2. EntitiesNested
  BY NestedIs DEF IInv
<1>3. ScopesOwned
  BY DEF IInv, Elements
<1>4. AnnouncedClosed
  <2>. SUFFICES ASSUME outcome \in {"more", "error", "finished"}, ~calling
                PROVE  Announced(log)
    BY DEF AnnouncedClosed
  <2>1. log \o pending = log /\ Announced(log \o pending)
    BY EmptyEvents DEF IInv, Told
  <2>. QED  BY <2>1
<1>. QED  BY <1>1, <1>2, <1>3, <1>4 DEF NestingKept

\* The parser's stacks agree with each other and with what the application was
\* told, whatever the documents, entities and limits: the entities being
\* expanded are different, are the names in active_entities, and nest in the
\* open elements; the undo blocks of namespace_scopes belong to the elements
\* that declared something; and between calls of next_event the namespaces and
\* elements announced and not closed are those on the stacks, although start
\* tags fail and errors, in finish_event_error, discard what is queued.
THEOREM NestingCorrect == Spec => []NestingKept
<1>1. IInv /\ [Step]_vars => IInv'
  BY InvStep
<1>. QED  BY <1>1, InitInv, Kept, PTL DEF Spec

=============================================================================
