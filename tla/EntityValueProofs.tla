-------------------------- MODULE EntityValueProofs --------------------------
(***************************************************************************)
(* Proofs about EntityValue, for any literals, entities, documents and     *)
(* limits, and any number of parsers.                                      *)
(*                                                                         *)
(* A parser that asks for a document stands still until it is answered, so *)
(* that what its child was told stays true for as long as the child is     *)
(* waited for; and a child's output is that of the declaration it was made *)
(* under, which no later declaration has.                                  *)
(***************************************************************************)
EXTENDS EntityValue, SequenceLemmas

-----------------------------------------------------------------------------
(***************************************************************************)
(* The invariant                                                           *)
(***************************************************************************)

D == Children \cup {Root}

\* What a parser has opened itself, and how deep that makes it.
Names(v) == FrameNames(v.frames) \cup Range(v.parameters) \cup ({v.declaring} \ {NONE})
NamedIn(frames) == Cardinality({k \in DOMAIN frames : frames[k].name # NONE})
Size(v) == NamedIn(v.frames) + v.depth + Len(v.parameters)

Framed(frames) ==
  /\ Sequence(frames)
  /\ \A k \in DOMAIN frames : DOMAIN frames[k] = {"items", "name", "normalize"} /\ Sequence(frames[k].items)
Written(o) == DOMAIN o = {"text", "standalone", "skipped"} /\ Sequence(o.text)
Shaped(v) ==
  /\ DOMAIN v = DOMAIN NewParser /\ DOMAIN v.request = {"name", "delivered", "answer"}
  /\ DOMAIN v.ready = {"text", "skipped"} /\ Sequence(v.ready.text)
  /\ Framed(v.frames) /\ Sequence(v.parameters)
  /\ v.depth \in Nat /\ v.fed \in Nat /\ v.content \in Nat

\* A name is opened once by a parser, and not when it was open before.
Once(v) ==
  /\ \A i, j \in DOMAIN v.frames : v.frames[i].name = v.frames[j].name => i = j \/ v.frames[i].name = NONE
  /\ \A i, j \in DOMAIN v.parameters : v.parameters[i] = v.parameters[j] => i = j
  /\ FrameNames(v.frames) \cap (Range(v.parameters) \cup ({v.declaring} \ {NONE}) \cup v.chain) = {}
  /\ Range(v.parameters) \cap (({v.declaring} \ {NONE}) \cup v.chain) = {}
  /\ v.declaring = NONE \/ v.declaring \notin v.chain

\* A parser that asks stands still, and what it asks for may be opened.
Asks(v, s) ==
  /\ v.stage = "value" /\ ~v.working
  /\ v.request.name \notin Names(v) \cup v.chain
  /\ Size(v) <= s.maxDepth
  /\ Sequence(s.documents[v.request.name])

\* The parser p, when n requests have been delivered.
Sound(p, v, s, n) ==
  /\ Shaped(v) /\ Once(v)
  /\ IF p = Root THEN v.chain = {} /\ v.parent = NONE /\ v.depth = s.depth /\ v.stage # "none"
     ELSE v.stage \notin {"idle", "expanding"}
  /\ IF v.stage = "none" THEN v = NewParser
     ELSE s.depth <= v.depth /\ Size(v) <= s.maxDepth + 1
  /\ v.stage = "scanning" => Sequence(s.documents[v.document])
  /\ v.working => v.stage \in {"expanding", "value"}
  /\ v.request.name # NONE => Asks(v, s)
  /\ v.request.delivered => v.request.name # NONE
  /\ v.request.answer \in 0..n /\ (v.request.answer # 0 <=> v.request.delivered)
  /\ v.parent # NONE => v.parent \in D \ {p} /\ v.answer \in 1..n

Tables ==
  /\ scenario \in Scenarios
  /\ Sequence(answers) /\ Sequence(values) /\ Sequence(outputs)
  /\ \A n \in DOMAIN outputs : Written(outputs[n])
  /\ DOMAIN scenario.entities \subseteq DOMAIN entities
  /\ \A n \in DOMAIN entities :
       /\ entities[n].kind = "internal" => Sequence(entities[n].value)
       /\ entities[n].kind = "external" => Sequence(scenario.documents[n])

AllSound ==
  /\ DOMAIN parsers = D
  /\ \A p \in D : Sound(p, parsers[p], scenario, Len(answers))

\* A child that is waited for knows what its parent has opened.
Follows(c, q) ==
  /\ c.document = q.request.name
  /\ q.chain \cup Names(q) \cup {c.document} \subseteq c.chain
  /\ c.depth = Size(q) + 1
Related == \A c \in D : Waiting(c) => Follows(parsers[c], parsers[parsers[c].parent])

\* The writers of a text, and the outputs they were made with.
WritersOf(text) == {text[k].by : k \in DOMAIN text}
MadeFor(c, n) == parsers[c].stage # "none" /\ parsers[c].output = n

Waits == parsers[Root].stage = "value" => parsers[Root].output \in 1..Len(outputs)

Apart ==
  /\ \A c \in Children : parsers[c].stage # "none" => parsers[c].output \in 1..Len(outputs)
  /\ WritersOf(parsers[Root].ready.text) \subseteq {Root}
  /\ \A n \in DOMAIN outputs : \A c \in WritersOf(outputs[n].text) \ {Root} :
       c \in Children /\ MadeFor(c, n)
  /\ \A k \in DOMAIN values : \A c \in WritersOf(values[k].text) \ {Root} :
       c \in Children /\ parsers[c].stage # "none"
  /\ parsers[Root].stage = "value" =>
       \A k \in DOMAIN values : \A c \in WritersOf(values[k].text) \ {Root} :
          parsers[c].output # parsers[Root].output
  /\ \A j, k \in DOMAIN values : \A c \in WritersOf(values[j].text) \ {Root} :
       \A d \in WritersOf(values[k].text) \ {Root} :
          parsers[c].output = parsers[d].output => j = k

IInv == Tables /\ AllSound /\ Related /\ Waits /\ (~scenario.orderly => Apart)

-----------------------------------------------------------------------------
(***************************************************************************)
(* Frames and names                                                        *)
(***************************************************************************)

LEMMA IsSequenceIs == ASSUME NEW s, IsSequence(s) PROVE Sequence(s)
BY DEF IsSequence, Sequence

LEMMA NewParserIs ==
  /\ Shaped(NewParser) /\ Once(NewParser) /\ NewParser.stage = "none" /\ ~NewParser.working
  /\ NewParser.request = NoRequest /\ NewParser.parent = NONE /\ NewParser.chain = {}
  /\ NewParser.frames = << >> /\ NewParser.parameters = << >> /\ NewParser.depth = 0
  /\ NewParser.ready.text = << >> /\ NewParser.declaring = NONE
<1>1. Sequence(<< >>) /\ DOMAIN << >> = {}
  BY EmptyIs, SequenceIs
<1>2. /\ NewParser.stage = "none" /\ ~NewParser.working
      /\ NewParser.request = NoRequest /\ NewParser.parent = NONE /\ NewParser.chain = {}
      /\ NewParser.frames = << >> /\ NewParser.parameters = << >> /\ NewParser.depth = 0
      /\ NewParser.ready.text = << >> /\ NewParser.declaring = NONE
      /\ NewParser.fed = 0 /\ NewParser.content = 0
      /\ DOMAIN NewParser.ready = {"text", "skipped"}
  BY DEF NewParser
<1>3. DOMAIN NoRequest = {"name", "delivered", "answer"}
  BY DEF NoRequest
<1>4. Framed(<< >>)
  BY <1>1 DEF Framed
<1>5. FrameNames(<< >>) = {} /\ Range(<< >>) = {}
  BY <1>1 DEF FrameNames, Range
<1>6. Shaped(NewParser)
  BY <1>1, <1>2, <1>3, <1>4 DEF Shaped
<1>7. Once(NewParser)
  BY <1>1, <1>2, <1>5 DEF Once
<1>. QED  BY <1>2, <1>6, <1>7

LEMMA NamedInIs ==
  ASSUME NEW frames, Framed(frames)
  PROVE  /\ NamedIn(frames) \in Nat
         /\ IsFiniteSet({k \in DOMAIN frames : frames[k].name # NONE})
<1>1. IsFiniteSet(DOMAIN frames)
  BY SequenceIs, FS_Interval DEF Framed
<1>2. IsFiniteSet({k \in DOMAIN frames : frames[k].name # NONE})
  BY <1>1, FS_Subset
<1>. QED  BY <1>2, FS_CardinalityType DEF NamedIn

\* No more is open than before.
Thinner(g, f) == DOMAIN g \subseteq DOMAIN f /\ \A k \in DOMAIN g : g[k].name = f[k].name

LEMMA ThinnerIs ==
  ASSUME NEW f, Framed(f), NEW g, Framed(g), Thinner(g, f)
  PROVE  NamedIn(g) <= NamedIn(f) /\ FrameNames(g) \subseteq FrameNames(f)
<1>. DEFINE A == {k \in DOMAIN f : f[k].name # NONE}
            B == {k \in DOMAIN g : g[k].name # NONE}
<1>1. B \subseteq A
  BY DEF Thinner
<1>2. IsFiniteSet(A)
  BY NamedInIs
<1>3. Cardinality(B) <= Cardinality(A)
  <2>. HIDE DEF A, B
  <2>. QED  BY <1>1, <1>2, FS_Subset
<1>4. NamedIn(g) <= NamedIn(f)
  BY <1>3 DEF NamedIn
<1>5. FrameNames(g) \subseteq FrameNames(f)
  BY DEF Thinner, FrameNames
<1>. QED  BY <1>4, <1>5

\* As much is open as before.
LEMMA AsThickIs ==
  ASSUME NEW f, Framed(f), NEW g, Framed(g), Thinner(g, f), DOMAIN g = DOMAIN f
  PROVE  NamedIn(g) = NamedIn(f) /\ FrameNames(g) = FrameNames(f)
<1>1. Thinner(f, g)
  BY DEF Thinner
<1>2. /\ NamedIn(g) <= NamedIn(f) /\ FrameNames(g) \subseteq FrameNames(f)
      /\ NamedIn(f) <= NamedIn(g) /\ FrameNames(f) \subseteq FrameNames(g)
  BY <1>1, ThinnerIs
<1>3. NamedIn(f) \in Nat /\ NamedIn(g) \in Nat
  BY NamedInIs
<1>. QED  BY <1>2, <1>3

LEMMA FrameOfIs ==
  ASSUME NEW items, Sequence(items), NEW name, NEW normalize
  PROVE  LET f == FrameOf(items, name, normalize)
         IN DOMAIN f = {"items", "name", "normalize"} /\ f.items = items /\ f.name = name
BY DEF FrameOf

\* What is left of a text.
LEMMA DropIs ==
  ASSUME NEW s, Sequence(s), NEW n \in Nat
  PROVE  Sequence(Drop(s, n))
<1>1. Len(s) \in Nat
  BY SequenceIs
<1>2. n + 1 \in Nat \ {0} /\ Len(s) <= Len(s)
  BY <1>1
<1>. QED  BY <1>1, <1>2, SubSeqIs DEF Drop

LEMMA AdvancedIs ==
  ASSUME NEW f, Framed(f), f # << >>, NEW n \in Nat
  PROVE  LET g == Advanced(f, n)
         IN Framed(g) /\ g # << >> /\ DOMAIN g = DOMAIN f /\ Thinner(g, f)
<1>. DEFINE last == [f[Len(f)] EXCEPT !.items = Drop(f[Len(f)].items, n)]
            g == Updated(f, Len(f), last)
<1>1. /\ Sequence(f) /\ Len(f) \in Nat \ {0} /\ DOMAIN f = 1..Len(f)
      /\ \A k \in 1..Len(f) : DOMAIN f[k] = {"items", "name", "normalize"} /\ Sequence(f[k].items)
  BY SequenceIs DEF Framed
<1>2. Len(f) \in 1..Len(f)
  BY <1>1
<1>3. DOMAIN f[Len(f)] = {"items", "name", "normalize"} /\ Sequence(f[Len(f)].items)
  BY <1>1, <1>2
<1>4. DOMAIN last = {"items", "name", "normalize"} /\ last.items = Drop(f[Len(f)].items, n)
      /\ last.name = f[Len(f)].name
  BY <1>3
<1>5. Sequence(last.items)
  BY <1>3, <1>4, DropIs
<1>6. Advanced(f, n) = g
  BY DEF Advanced, Updated
<1>. HIDE DEF last
<1>7. Sequence(g) /\ Len(g) = Len(f) /\ \A i \in 1..Len(f) : g[i] = IF i = Len(f) THEN last ELSE f[i]
  <2>. HIDE DEF g
  <2>. QED  BY <1>1, <1>2, UpdateIs DEF g
<1>. HIDE DEF g
<1>8. DOMAIN g = 1..Len(f) /\ g # << >>
  BY <1>1, <1>7, SequenceIs
<1>9. \A k \in DOMAIN g : DOMAIN g[k] = {"items", "name", "normalize"} /\ Sequence(g[k].items)
                          /\ g[k].name = f[k].name
  BY <1>1, <1>4, <1>5, <1>7, <1>8
<1>10. Framed(g)
  BY <1>7, <1>9 DEF Framed
<1>11. Thinner(g, f)
  BY <1>1, <1>8, <1>9 DEF Thinner
<1>. QED  BY <1>1, <1>6, <1>8, <1>10, <1>11

LEMMA FrontIs ==
  ASSUME NEW f, Framed(f), f # << >>
  PROVE  Framed(Front(f)) /\ Thinner(Front(f), f)
<1>1. Sequence(f) /\ Len(f) \in Nat \ {0} /\ DOMAIN f = 1..Len(f)
  BY SequenceIs DEF Framed
<1>2. Len(f) - 1 \in Nat /\ Len(f) - 1 <= Len(f) /\ Front(f) = Part(f, Len(f) - 1)
  BY <1>1 DEF Front, Part
<1>3. /\ Sequence(Front(f)) /\ Len(Front(f)) = Len(f) - 1
      /\ \A i \in 1..Len(f) - 1 : i \in 1..Len(f) /\ Front(f)[i] = f[i]
  <2>. DEFINE m == Len(f) - 1
  <2>1. m \in Nat /\ m <= Len(f) /\ Front(f) = Part(f, m)
    BY <1>2
  <2>. HIDE DEF m
  <2>2. /\ Sequence(Part(f, m)) /\ Len(Part(f, m)) = m
        /\ \A i \in 1..m : i \in 1..Len(f) /\ Part(f, m)[i] = f[i]
    BY <1>1, <2>1, PartIs
  <2>. QED  BY <2>1, <2>2 DEF m
<1>4. DOMAIN Front(f) = 1..Len(f) - 1
  BY <1>3, SequenceIs
<1>. QED  BY <1>1, <1>3, <1>4 DEF Framed, Thinner

LEMMA NoFrames == Framed(<< >>) /\ FrameNames(<< >>) = {} /\ NamedIn(<< >>) = 0
                  /\ \A f : Thinner(<< >>, f)
<1>1. Sequence(<< >>) /\ DOMAIN << >> = {}
  BY EmptyIs, SequenceIs
<1>2. {k \in DOMAIN << >> : << >>[k].name # NONE} = {}
  BY <1>1
<1>3. NamedIn(<< >>) = 0
  BY <1>2, FS_EmptySet DEF NamedIn
<1>4. Framed(<< >>) /\ FrameNames(<< >>) = {}
  BY <1>1 DEF Framed, FrameNames
<1>. QED  BY <1>1, <1>3, <1>4 DEF Thinner

\* The literal, or what a child was given: a frame without a name.
LEMMA OneFrame ==
  ASSUME NEW items, Sequence(items), NEW normalize
  PROVE  LET f == <<FrameOf(items, NONE, normalize)>>
         IN Framed(f) /\ FrameNames(f) = {} /\ NamedIn(f) = 0 /\ \A i, j \in DOMAIN f : i = j
<1>. DEFINE e == FrameOf(items, NONE, normalize)
            f == <<e>>
<1>1. DOMAIN e = {"items", "name", "normalize"} /\ e.items = items /\ e.name = NONE
  BY FrameOfIs
<1>. HIDE DEF e
<1>2. Sequence(f) /\ DOMAIN f = {1} /\ f[1] = e
  BY OneIs, SequenceIs
<1>. HIDE DEF f
<1>3. {k \in DOMAIN f : f[k].name # NONE} = {}
  BY <1>1, <1>2
<1>4. NamedIn(f) = 0
  BY <1>3, FS_EmptySet DEF NamedIn
<1>5. FrameNames(f) = {}
  BY <1>1, <1>2 DEF FrameNames
<1>6. Framed(f)
  BY <1>1, <1>2 DEF Framed
<1>7. \A i, j \in DOMAIN f : i = j
  BY <1>2
<1>. QED  BY <1>4, <1>5, <1>6, <1>7 DEF f, e

\* One more entity is opened.
LEMMA OneMoreFrame ==
  ASSUME NEW f, Framed(f), NEW items, Sequence(items), NEW name, NEW normalize
  PROVE  LET e == FrameOf(items, name, normalize)
             g == Append(f, e)
         IN /\ Framed(g) /\ NamedIn(g) \in Nat /\ NamedIn(g) <= NamedIn(f) + 1
            /\ FrameNames(g) \subseteq FrameNames(f) \cup {name}
            /\ DOMAIN f = 1..Len(f) /\ Len(f) \in Nat /\ DOMAIN g = 1..Len(f) + 1
            /\ g[Len(f) + 1].name = name
            /\ \A i \in 1..Len(f) : g[i] = f[i]
<1>. DEFINE e == FrameOf(items, name, normalize)
            g == Append(f, e)
            A == {k \in DOMAIN f : f[k].name # NONE}
            B == {k \in DOMAIN g : g[k].name # NONE}
<1>1. DOMAIN e = {"items", "name", "normalize"} /\ e.items = items /\ e.name = name
  BY FrameOfIs
<1>. HIDE DEF e
<1>2. Sequence(f) /\ Len(f) \in Nat /\ DOMAIN f = 1..Len(f)
  BY SequenceIs DEF Framed
<1>3. /\ Sequence(g) /\ Len(g) = Len(f) + 1 /\ g[Len(f) + 1] = e
      /\ \A i \in 1..Len(f) : g[i] = f[i]
  <2>1. Sequence(f)
    BY <1>2
  <2>2. Sequence(Append(f, e)) /\ Len(Append(f, e)) = Len(f) + 1
    BY ONLY <2>1, AppendIs
  <2>3. Append(f, e)[Len(f) + 1] = e
    BY ONLY <2>1, AppendIs
  <2>4. \A i \in 1..Len(f) : Append(f, e)[i] = f[i]
    BY ONLY <2>1, AppendIs
  <2>. QED  BY ONLY <2>2, <2>3, <2>4
<1>. HIDE DEF g
<1>4. DOMAIN g = 1..Len(f) + 1
  BY <1>3, SequenceIs
<1>5. \A i \in 1..Len(f) + 1 : i \in 1..Len(f) \/ i = Len(f) + 1
  BY <1>2
<1>6. \A k \in DOMAIN f : DOMAIN f[k] = {"items", "name", "normalize"} /\ Sequence(f[k].items)
  BY DEF Framed
<1>7. Framed(g)
  <2>1. \A k \in DOMAIN g : DOMAIN g[k] = {"items", "name", "normalize"} /\ Sequence(g[k].items)
    BY <1>1, <1>2, <1>3, <1>4, <1>5, <1>6
  <2>. QED  BY <1>3, <2>1 DEF Framed
<1>8. NamedIn(g) <= NamedIn(f) + 1
  <2>1. B \subseteq A \cup {Len(f) + 1}
    BY <1>2, <1>3, <1>4, <1>5
  <2>2. IsFiniteSet(A)
    BY NamedInIs
  <2>. HIDE DEF A, B
  <2>3. IsFiniteSet(A \cup {Len(f) + 1}) /\ Cardinality(A \cup {Len(f) + 1}) <= Cardinality(A) + 1
    <3>. DEFINE x == Len(f) + 1
    <3>. HIDE DEF x
    <3>1. IsFiniteSet(A \cup {x}) /\ (x \notin A => Cardinality(A \cup {x}) = Cardinality(A) + 1)
      BY <2>2, FS_AddElement
    <3>2. x \in A => A \cup {x} = A
      OBVIOUS
    <3>3. Cardinality(A) \in Nat
      BY <2>2, FS_CardinalityType
    <3>4. CASE x \in A
      <4>1. Cardinality(A \cup {x}) = Cardinality(A)
        BY <3>2, <3>4
      <4>. QED  BY <3>1, <3>3, <4>1 DEF x
    <3>5. CASE x \notin A
      <4>1. Cardinality(A \cup {x}) = Cardinality(A) + 1
        BY <3>1, <3>5
      <4>. QED  BY <3>1, <3>3, <4>1 DEF x
    <3>. QED  BY <3>4, <3>5
  <2>4. Cardinality(B) <= Cardinality(A \cup {Len(f) + 1}) /\ IsFiniteSet(B)
    BY <2>1, <2>3, FS_Subset
  <2>5. Cardinality(A) \in Nat /\ Cardinality(B) \in Nat /\ Cardinality(A \cup {Len(f) + 1}) \in Nat
    BY <2>2, <2>3, <2>4, FS_CardinalityType
  <2>6. Cardinality(B) <= Cardinality(A) + 1
    BY <2>3, <2>4, <2>5
  <2>. QED  BY <2>6 DEF NamedIn, A, B
<1>9. FrameNames(g) \subseteq FrameNames(f) \cup {name}
  BY <1>1, <1>2, <1>3, <1>4, <1>5 DEF FrameNames
<1>10. NamedIn(g) \in Nat
  BY <1>7, NamedInIs
<1>. QED  BY <1>1, <1>2, <1>3, <1>4, <1>7, <1>8, <1>9, <1>10 DEF g, e

-----------------------------------------------------------------------------
(***************************************************************************)
(* A step of one parser                                                    *)
(***************************************************************************)

\* What it inherited stays what it is.
SameOrigin(v, w) ==
  /\ w.chain = v.chain /\ w.depth = v.depth /\ w.parent = v.parent
  /\ w.answer = v.answer /\ w.document = v.document

\* What its child was told stays true.
SameShown(v, w) ==
  /\ w.stage = v.stage /\ w.request = v.request /\ Names(w) = Names(v) /\ Size(w) = Size(v)

\* No child there is waits for it.
Unanswering(w, n) == w.stage # "value" \/ w.request.answer \notin 1..n

LEMMA SizeIs ==
  ASSUME NEW v, Shaped(v)
  PROVE  Size(v) \in Nat /\ NamedIn(v.frames) \in Nat /\ v.depth \in Nat /\ Len(v.parameters) \in Nat
<1>1. NamedIn(v.frames) \in Nat /\ v.depth \in Nat /\ Len(v.parameters) \in Nat
  BY NamedInIs, SequenceIs DEF Shaped
<1>. QED  BY <1>1 DEF Size

LEMMA ThinnerOnce ==
  ASSUME NEW v, Shaped(v), Once(v), NEW w, Shaped(w), Thinner(w.frames, v.frames),
         w.parameters = v.parameters, w.declaring = v.declaring, w.depth = v.depth, w.chain = v.chain
  PROVE  Once(w) /\ Size(w) <= Size(v) /\ Names(w) \subseteq Names(v)
<1>1. NamedIn(w.frames) <= NamedIn(v.frames) /\ FrameNames(w.frames) \subseteq FrameNames(v.frames)
  BY ThinnerIs DEF Shaped
<1>2. NamedIn(w.frames) \in Nat /\ NamedIn(v.frames) \in Nat /\ v.depth \in Nat /\ Len(v.parameters) \in Nat
  BY SizeIs
<1>3. Size(w) <= Size(v)
  BY <1>1, <1>2 DEF Size
<1>4. \A i, j \in DOMAIN w.frames : w.frames[i].name = w.frames[j].name => i = j \/ w.frames[i].name = NONE
  BY DEF Thinner, Once
<1>5. Once(w)
  BY <1>1, <1>4 DEF Once
<1>. QED  BY <1>1, <1>3, <1>5 DEF Names

\* Requests delivered later change nothing.
LEMMA SoundLater ==
  ASSUME NEW p, NEW v, NEW s, NEW n \in Nat, NEW m \in Nat, n <= m, Sound(p, v, s, n)
  PROVE  Sound(p, v, s, m)
<1>1. \A k : (k \in 0..n => k \in 0..m) /\ (k \in 1..n => k \in 1..m)
  OBVIOUS
<1>2. v.request.answer \in 0..m /\ (v.parent # NONE => v.parent \in D \ {p} /\ v.answer \in 1..m)
  BY <1>1 DEF Sound
<1>. QED  BY <1>2 DEF Sound

LEMMA SoundStep ==
  ASSUME NEW p, NEW v, NEW s, NEW n \in Nat, NEW m \in Nat, n <= m, Sound(p, v, s, n),
         NEW w, SameOrigin(v, w), Shaped(w), Once(w), Size(w) <= s.maxDepth + 1,
         v.stage # "none", w.stage # "none",
         p # Root => w.stage \notin {"idle", "expanding"},
         w.stage = "scanning" => v.stage = "scanning",
         w.working => w.stage \in {"expanding", "value"},
         w.request.name # NONE => Asks(w, s),
         w.request.delivered => w.request.name # NONE,
         w.request.answer \in 0..m, w.request.answer # 0 <=> w.request.delivered
  PROVE  Sound(p, w, s, m)
<1>1. w.chain = v.chain /\ w.depth = v.depth /\ w.parent = v.parent
      /\ w.answer = v.answer /\ w.document = v.document
  BY DEF SameOrigin
<1>2. IF p = Root THEN w.chain = {} /\ w.parent = NONE /\ w.depth = s.depth /\ w.stage # "none"
      ELSE w.stage \notin {"idle", "expanding"}
  BY <1>1 DEF Sound
<1>3. s.depth <= w.depth
  BY <1>1 DEF Sound
<1>4. w.stage = "scanning" => Sequence(s.documents[w.document])
  BY <1>1 DEF Sound
<1>5. \A k : k \in 1..n => k \in 1..m
  OBVIOUS
<1>6. w.parent # NONE => w.parent \in D \ {p} /\ w.answer \in 1..m
  BY <1>1, <1>5 DEF Sound
<1>. QED  BY <1>2, <1>3, <1>4, <1>6 DEF Sound

\* All parsers but one stand still.
Alone(p) ==
  /\ p \in D /\ scenario' = scenario /\ Sequence(answers') /\ Len(answers) <= Len(answers')
  /\ DOMAIN parsers' = D /\ \A q \in D \ {p} : parsers'[q] = parsers[q]

LEMMA AloneSound ==
  ASSUME Tables, AllSound, NEW p, Alone(p), Sound(p, parsers'[p], scenario, Len(answers'))
  PROVE  AllSound'
<1>1. Len(answers) \in Nat /\ Len(answers') \in Nat /\ Len(answers) <= Len(answers')
  BY SequenceIs DEF Tables, Alone
<1>2. ASSUME NEW q \in D \ {p} PROVE Sound(q, parsers'[q], scenario, Len(answers'))
  <2>1. Sound(q, parsers[q], scenario, Len(answers)) /\ parsers'[q] = parsers[q]
    BY DEF AllSound, Alone
  <2>. QED  BY <1>1, <2>1, SoundLater
<1>3. \A q \in D : Sound(q, parsers'[q], scenario', Len(answers'))
  BY <1>2 DEF Alone
<1>. QED  BY <1>3 DEF AllSound, Alone

LEMMA AloneRelated ==
  ASSUME AllSound, Related, NEW p, Alone(p), SameOrigin(parsers[p], parsers'[p]),
         Unanswering(parsers'[p], Len(answers)) \/ SameShown(parsers[p], parsers'[p])
  PROVE  Related'
<1>. SUFFICES ASSUME NEW c \in D, Waiting(c)'
              PROVE  Follows(parsers'[c], parsers'[parsers'[c].parent])
  BY DEF Related
<1>1. SameOrigin(parsers[c], parsers'[c])
  BY DEF Alone, SameOrigin
<1>2. parsers'[c].parent = parsers[c].parent /\ parsers'[c].answer = parsers[c].answer
      /\ parsers'[c].chain = parsers[c].chain /\ parsers'[c].depth = parsers[c].depth
      /\ parsers'[c].document = parsers[c].document
  BY <1>1 DEF SameOrigin
<1>. DEFINE q == parsers[c].parent
<1>3. parsers'[q].stage = "value" /\ parsers'[q].request.answer = parsers[c].answer /\ q # NONE
  BY <1>2 DEF Waiting
<1>4. q \in D \ {c} /\ parsers[c].answer \in 1..Len(answers)
  BY <1>3 DEF AllSound, Sound
<1>5. \/ parsers'[q] = parsers[q]
      \/ SameShown(parsers[q], parsers'[q]) /\ parsers'[q].chain = parsers[q].chain
  <2>1. CASE q = p
    BY <1>3, <1>4, <2>1 DEF Unanswering, SameOrigin
  <2>2. CASE q # p
    BY <1>4, <2>2 DEF Alone
  <2>. QED  BY <2>1, <2>2
<1>6. /\ parsers'[q].stage = parsers[q].stage /\ parsers'[q].request = parsers[q].request
      /\ Names(parsers'[q]) = Names(parsers[q]) /\ Size(parsers'[q]) = Size(parsers[q])
      /\ parsers'[q].chain = parsers[q].chain
  BY <1>5 DEF SameShown
<1>7. Waiting(c)
  BY <1>3, <1>6 DEF Waiting
<1>8. Follows(parsers[c], parsers[q])
  BY <1>7 DEF Related
<1>. QED  BY <1>2, <1>6, <1>8 DEF Follows

-----------------------------------------------------------------------------
(***************************************************************************)
(* Steps that write                                                        *)
(***************************************************************************)

\* Children keep what they write to.
KeepOutputs ==
  \A c \in Children :
     /\ parsers'[c].stage # "none" => parsers'[c].output \in 1..Len(outputs')
     /\ parsers[c].stage # "none" =>
          parsers'[c].stage # "none" /\ parsers'[c].output = parsers[c].output

\* What is written is by parsers made for that output.
GoodWriters ==
  \A n \in DOMAIN outputs' : \A c \in WritersOf(outputs'[n].text) \ {Root} :
     \/ n \in DOMAIN outputs /\ c \in WritersOf(outputs[n].text)
     \/ c \in Children /\ MadeFor(c, n)

\* A declaration that waits has an output that no other had.
OwnOutput ==
  parsers'[Root].stage = "value" =>
    \/ parsers[Root].stage = "value" /\ parsers'[Root].output = parsers[Root].output
    \/ parsers'[Root].output \notin 1..Len(outputs)

LEMMA WritersKept ==
  ASSUME Apart, KeepOutputs, GoodWriters
  PROVE  /\ \A n \in DOMAIN outputs' : \A c \in WritersOf(outputs'[n].text) \ {Root} :
              c \in Children /\ MadeFor(c, n)'
         /\ \A k \in DOMAIN values : \A c \in WritersOf(values[k].text) \ {Root} :
              /\ c \in Children /\ parsers'[c].stage # "none"
              /\ parsers'[c].output = parsers[c].output /\ parsers[c].output \in 1..Len(outputs)
<1>1. ASSUME NEW c \in Children, NEW n, MadeFor(c, n)
      PROVE  MadeFor(c, n)' /\ parsers'[c].output = n /\ parsers[c].output = n
  BY <1>1 DEF KeepOutputs, MadeFor
<1>2. ASSUME NEW n \in DOMAIN outputs', NEW c \in WritersOf(outputs'[n].text) \ {Root}
      PROVE  c \in Children /\ MadeFor(c, n)'
  <2>1. c \in Children /\ MadeFor(c, n)
    BY <1>2 DEF GoodWriters, Apart
  <2>. QED  BY <1>1, <2>1
<1>3. ASSUME NEW k \in DOMAIN values, NEW c \in WritersOf(values[k].text) \ {Root}
      PROVE  /\ c \in Children /\ parsers'[c].stage # "none"
             /\ parsers'[c].output = parsers[c].output /\ parsers[c].output \in 1..Len(outputs)
  <2>1. c \in Children /\ parsers[c].stage # "none"
    BY <1>3 DEF Apart
  <2>2. parsers[c].output \in 1..Len(outputs)
    BY <2>1 DEF Apart, MadeFor
  <2>3. parsers'[c].stage # "none" /\ parsers'[c].output = parsers[c].output
    BY <2>1 DEF KeepOutputs, MadeFor
  <2>. QED  BY <2>1, <2>2, <2>3 DEF MadeFor
<1>. QED  BY <1>2, <1>3

LEMMA ApartWrite ==
  ASSUME Apart, KeepOutputs, GoodWriters, OwnOutput, values' = values,
         WritersOf(parsers'[Root].ready.text) \subseteq {Root}
  PROVE  Apart'
<1>1. \A n \in DOMAIN outputs' : \A c \in WritersOf(outputs'[n].text) \ {Root} :
         c \in Children /\ MadeFor(c, n)'
  BY WritersKept
<1>2. \A k \in DOMAIN values : \A c \in WritersOf(values[k].text) \ {Root} :
         /\ c \in Children /\ parsers'[c].stage # "none"
         /\ parsers'[c].output = parsers[c].output /\ parsers[c].output \in 1..Len(outputs)
  BY WritersKept
<1>3. parsers'[Root].stage = "value" =>
        \A k \in DOMAIN values : \A c \in WritersOf(values[k].text) \ {Root} :
           parsers'[c].output # parsers'[Root].output
  BY <1>2 DEF OwnOutput, Apart
<1>4. \A j, k \in DOMAIN values : \A c \in WritersOf(values[j].text) \ {Root} :
        \A d \in WritersOf(values[k].text) \ {Root} :
           parsers'[c].output = parsers'[d].output => j = k
  BY <1>2 DEF Apart
<1>5. \A c \in Children : parsers'[c].stage # "none" => parsers'[c].output \in 1..Len(outputs')
  BY DEF KeepOutputs
<1>. QED  BY <1>1, <1>2, <1>3, <1>4, <1>5 DEF Apart

\* A value of what the declaration's own output has.
LEMMA ApartValue ==
  ASSUME Apart, KeepOutputs, GoodWriters, parsers'[Root].stage # "value",
         WritersOf(parsers'[Root].ready.text) \subseteq {Root},
         Sequence(values), NEW v, values' = Append(values, v),
         \A c \in WritersOf(v.text) \ {Root} :
            /\ parsers[Root].stage = "value"
            /\ c \in Children /\ MadeFor(c, parsers[Root].output)
  PROVE  Apart'
<1>1. \A n \in DOMAIN outputs' : \A c \in WritersOf(outputs'[n].text) \ {Root} :
         c \in Children /\ MadeFor(c, n)'
  BY WritersKept
<1>2. \A k \in DOMAIN values : \A c \in WritersOf(values[k].text) \ {Root} :
         /\ c \in Children /\ parsers'[c].stage # "none"
         /\ parsers'[c].output = parsers[c].output /\ parsers[c].output \in 1..Len(outputs)
  BY WritersKept
<1>3. \A c \in WritersOf(v.text) \ {Root} :
         /\ parsers[Root].stage = "value" /\ c \in Children
         /\ parsers'[c].stage # "none" /\ parsers'[c].output = parsers[Root].output
  BY DEF KeepOutputs, MadeFor
<1>. DEFINE last == Len(values) + 1
<1>4. DOMAIN values' = 1..Len(values) + 1 /\ DOMAIN values = 1..Len(values) /\ Len(values) \in Nat
  <2>1. Len(values') = Len(values) + 1 /\ Sequence(values')
    BY AppendIs
  <2>. QED  BY <2>1, SequenceIs
<1>5. \A k \in DOMAIN values : values'[k] = values[k]
  BY <1>4, AppendIs
<1>6. values'[last] = v
  BY AppendIs
<1>7. \A k \in DOMAIN values' : k \in DOMAIN values \/ k = last
  BY <1>4
<1>. HIDE DEF last
<1>8. \A k \in DOMAIN values' : \A c \in WritersOf(values'[k].text) \ {Root} :
         c \in Children /\ parsers'[c].stage # "none"
  BY <1>2, <1>3, <1>5, <1>6, <1>7
<1>9. ASSUME NEW j \in DOMAIN values', NEW k \in DOMAIN values',
             NEW c \in WritersOf(values'[j].text) \ {Root},
             NEW d \in WritersOf(values'[k].text) \ {Root},
             parsers'[c].output = parsers'[d].output
      PROVE  j = k
  <2>1. CASE j \in DOMAIN values /\ k \in DOMAIN values
    BY <1>2, <1>5, <1>9, <2>1 DEF Apart
  <2>2. CASE j \in DOMAIN values /\ k = last
    BY <1>2, <1>3, <1>5, <1>6, <1>9, <2>2 DEF Apart
  <2>3. CASE j = last /\ k \in DOMAIN values
    BY <1>2, <1>3, <1>5, <1>6, <1>9, <2>3 DEF Apart
  <2>. QED  BY <1>7, <2>1, <2>2, <2>3
<1>10. \A c \in Children : parsers'[c].stage # "none" => parsers'[c].output \in 1..Len(outputs')
  BY DEF KeepOutputs
<1>. QED  BY <1>1, <1>8, <1>9, <1>10 DEF Apart

LEMMA AloneKeeps ==
  ASSUME Apart, NEW p, Alone(p), p # Root => parsers'[p].output = parsers[p].output,
         p # Root => parsers[p].stage # "none" /\ parsers'[p].stage # "none",
         \A n \in 1..Len(outputs) : n \in 1..Len(outputs')
  PROVE  KeepOutputs
<1>. SUFFICES ASSUME NEW c \in Children
              PROVE  /\ parsers'[c].stage # "none" => parsers'[c].output \in 1..Len(outputs')
                     /\ parsers[c].stage # "none" =>
                          parsers'[c].stage # "none" /\ parsers'[c].output = parsers[c].output
  BY DEF KeepOutputs
<1>1. parsers[c].stage # "none" => parsers[c].output \in 1..Len(outputs)
  BY DEF Apart
<1>2. c \in D /\ c # Root
  BY SlotsAssumption DEF D
<1>3. CASE c = p
  BY <1>1, <1>2, <1>3
<1>4. CASE c # p
  BY <1>1, <1>2, <1>4 DEF Alone
<1>. QED  BY <1>3, <1>4

LEMMA WaitsKept ==
  ASSUME Waits, NEW p, Alone(p),
         p = Root /\ parsers'[p].stage = "value" =>
           parsers[p].stage = "value" /\ parsers'[p].output = parsers[p].output,
         Len(outputs') = Len(outputs)
  PROVE  Waits'
<1>1. p # Root => parsers'[Root] = parsers[Root]
  BY DEF Alone, D
<1>. QED  BY <1>1 DEF Waits

\* A step that writes nothing.
LEMMA ApartQuiet ==
  ASSUME Apart, NEW p, Alone(p), outputs' = outputs, values' = values,
         parsers'[p].output = parsers[p].output,
         p # Root => parsers[p].stage # "none" /\ parsers'[p].stage # "none",
         p = Root /\ parsers'[p].stage = "value" => parsers[p].stage = "value",
         p = Root => WritersOf(parsers'[p].ready.text) \subseteq {Root}
  PROVE  Apart'
<1>1. KeepOutputs
  BY AloneKeeps
<1>2. GoodWriters
  BY DEF GoodWriters
<1>3. p # Root => parsers'[Root] = parsers[Root]
  BY DEF Alone, D
<1>4. OwnOutput
  BY <1>3 DEF OwnOutput, Apart
<1>5. WritersOf(parsers'[Root].ready.text) \subseteq {Root}
  BY <1>3 DEF Apart
<1>. QED  BY <1>1, <1>2, <1>4, <1>5, ApartWrite

-----------------------------------------------------------------------------
(***************************************************************************)
(* The fields a step changes                                               *)
(***************************************************************************)

LEMMA FieldsAre ==
  DOMAIN NewParser =
    {"stage", "working", "frames", "chain", "declaring", "parameters", "depth", "output",
     "standalone", "prefixed", "request", "ready", "parent", "answer", "document", "fed",
     "final", "content", "declared", "initialized", "encoded"}
BY DEF NewParser

\* The fields of F may differ.
Besides(v, w, F) == DOMAIN w = DOMAIN v /\ \A f \in DOMAIN v \ F : w[f] = v[f]

LEMMA BesidesIs ==
  ASSUME NEW v, Shaped(v), NEW w, NEW F, Besides(v, w, F)
  PROVE  /\ DOMAIN w = DOMAIN NewParser
         /\ "stage" \notin F => w.stage = v.stage
         /\ "working" \notin F => w.working = v.working
         /\ "frames" \notin F => w.frames = v.frames
         /\ "chain" \notin F => w.chain = v.chain
         /\ "declaring" \notin F => w.declaring = v.declaring
         /\ "parameters" \notin F => w.parameters = v.parameters
         /\ "depth" \notin F => w.depth = v.depth
         /\ "output" \notin F => w.output = v.output
         /\ "request" \notin F => w.request = v.request
         /\ "ready" \notin F => w.ready = v.ready
         /\ "parent" \notin F => w.parent = v.parent
         /\ "answer" \notin F => w.answer = v.answer
         /\ "document" \notin F => w.document = v.document
         /\ "fed" \notin F => w.fed = v.fed
         /\ "content" \notin F => w.content = v.content
BY FieldsAre DEF Besides, Shaped

LEMMA FramesOnlyIs ==
  ASSUME NEW v, Shaped(v), NEW g
  PROVE  LET w == [v EXCEPT !.frames = g]
         IN Besides(v, w, {"frames"}) /\ w.frames = g
BY FieldsAre DEF Besides, Shaped

LEMMA FailedIs ==
  ASSUME NEW v, Shaped(v)
  PROVE  LET w == [v EXCEPT !.stage = "failed", !.working = FALSE, !.frames = << >>,
                            !.request = NoRequest]
         IN /\ Besides(v, w, {"stage", "working", "frames", "request"})
            /\ w.stage = "failed" /\ ~w.working /\ w.frames = << >> /\ w.request = NoRequest
BY FieldsAre DEF Besides, Shaped

LEMMA UpdateAny ==
  ASSUME NEW s, Sequence(s), NEW k, NEW e
  PROVE  /\ Sequence([s EXCEPT ![k] = e]) /\ Len([s EXCEPT ![k] = e]) = Len(s)
         /\ \A i \in DOMAIN s : [s EXCEPT ![k] = e][i] = IF i = k THEN e ELSE s[i]
         /\ DOMAIN [s EXCEPT ![k] = e] = DOMAIN s
<1>. DEFINE t == [s EXCEPT ![k] = e]
<1>1. DOMAIN s = 1..Len(s) /\ Len(s) \in Nat
  BY SequenceIs
<1>2. t = [i \in 1..Len(s) |-> t[i]] /\ \A i \in 1..Len(s) : t[i] = IF i = k THEN e ELSE s[i]
  BY <1>1
<1>. HIDE DEF t
<1>3. Sequence(t) /\ Len(t) = Len(s)
  BY <1>1, <1>2, FunctionIs
<1>4. DOMAIN t = DOMAIN s
  BY <1>1, <1>2
<1>. QED  BY <1>1, <1>2, <1>3, <1>4 DEF t

-----------------------------------------------------------------------------
(***************************************************************************)
(* Working: expanding frames                                               *)
(***************************************************************************)

LEMMA SoundOf ==
  ASSUME AllSound, NEW p \in D
  PROVE  /\ Sound(p, parsers[p], scenario, Len(answers))
         /\ Shaped(parsers[p]) /\ Once(parsers[p]) /\ DOMAIN parsers = D
BY DEF AllSound, Sound

LEMMA WorkingIs ==
  ASSUME AllSound, NEW p \in D, parsers[p].working
  PROVE  /\ parsers[p].stage \in {"expanding", "value"} /\ parsers[p].stage # "none"
         /\ Size(parsers[p]) <= scenario.maxDepth + 1
         /\ parsers[p].request.name = NONE /\ parsers[p].request.answer = 0
         /\ ~parsers[p].request.delivered
         /\ parsers[p].stage = "expanding" => p = Root
<1>1. Sound(p, parsers[p], scenario, Len(answers))
  BY SoundOf
<1>2. parsers[p].stage \in {"expanding", "value"} /\ parsers[p].request.name = NONE
  BY <1>1 DEF Sound, Asks
<1>. QED  BY <1>1, <1>2 DEF Sound

\* A step of a parser that is not waited for.
LEMMA OneStep ==
  ASSUME Tables, AllSound, Related, NEW p, Alone(p), NEW w, w = parsers'[p],
         SameOrigin(parsers[p], w), Shaped(w), Once(w),
         Size(w) <= scenario.maxDepth + 1,
         parsers[p].stage # "none", w.stage # "none",
         p # Root => w.stage \notin {"idle", "expanding"},
         w.stage = "scanning" => parsers[p].stage = "scanning",
         w.working => w.stage \in {"expanding", "value"},
         w.request.name # NONE => Asks(w, scenario),
         ~w.request.delivered, w.request.answer = 0
  PROVE  AllSound' /\ Related'
<1>1. p \in D /\ Len(answers) \in Nat /\ Len(answers') \in Nat /\ Len(answers) <= Len(answers')
  BY SequenceIs DEF Tables, Alone
<1>2. Sound(p, parsers[p], scenario, Len(answers))
  BY <1>1, SoundOf
<1>3. w.request.answer \in 0..Len(answers')
  BY <1>1
<1>4. Sound(p, w, scenario, Len(answers'))
  BY <1>1, <1>2, <1>3, SoundStep
<1>5. AllSound'
  BY <1>4, AloneSound
<1>6. Unanswering(parsers'[p], Len(answers))
  <2>1. 0 \notin 1..Len(answers)
    BY <1>1
  <2>. QED  BY <2>1 DEF Unanswering
<1>7. Related'
  BY <1>6, AloneRelated
<1>. QED  BY <1>5, <1>7

LEMMA NoRequestIs ==
  /\ NoRequest.name = NONE /\ ~NoRequest.delivered /\ NoRequest.answer = 0
  /\ DOMAIN NoRequest = {"name", "delivered", "answer"}
BY DEF NoRequest

LEMMA AnswerIs ==
  ASSUME Tables, NEW p, NEW a
  PROVE  Sequence(Answer(p, a)) /\ Len(Answer(p, a)) = Len(answers)
BY UpdateAny, Zenon DEF Answer, Tables

LEMMA FailKeeps ==
  ASSUME IInv, NEW p \in D, parsers[p].stage # "none", NEW kind, Fail(p, kind)
  PROVE  IInv'
<1>. DEFINE v == parsers[p]
            w == [v EXCEPT !.stage = "failed", !.working = FALSE, !.frames = << >>,
                           !.request = NoRequest]
<1>1. Sound(p, v, scenario, Len(answers)) /\ Shaped(v) /\ Once(v) /\ DOMAIN parsers = D
  BY SoundOf DEF IInv
<1>2. parsers' = [parsers EXCEPT ![p] = w]
  BY DEF Fail
<1>3. parsers'[p] = w /\ DOMAIN parsers' = D /\ \A q \in D \ {p} : parsers'[q] = parsers[q]
  BY <1>1, <1>2
<1>4. /\ Besides(v, w, {"stage", "working", "frames", "request"})
      /\ w.stage = "failed" /\ ~w.working /\ w.frames = << >> /\ w.request = NoRequest
  BY <1>1, FailedIs
<1>. HIDE DEF w
<1>5. /\ DOMAIN w = DOMAIN NewParser /\ w.chain = v.chain /\ w.declaring = v.declaring
      /\ w.parameters = v.parameters /\ w.depth = v.depth /\ w.output = v.output
      /\ w.ready = v.ready /\ w.parent = v.parent /\ w.answer = v.answer
      /\ w.document = v.document /\ w.fed = v.fed /\ w.content = v.content
  BY <1>1, <1>4, BesidesIs
<1>6. Shaped(w)
  BY <1>1, <1>4, <1>5, NoFrames, NoRequestIs DEF Shaped
<1>7. Once(w) /\ Size(w) <= Size(v)
  BY <1>1, <1>4, <1>5, <1>6, NoFrames, ThinnerOnce
<1>8. Sequence(answers') /\ Len(answers') = Len(answers)
  <2>1. answers' = answers \/ answers' = Answer(p, "expanded")
    BY DEF Fail
  <2>. QED  BY <2>1, AnswerIs DEF IInv, Tables
<1>9. /\ scenario' = scenario /\ outputs' = outputs /\ entities' = entities /\ values' = values
  BY DEF Fail
<1>10. Alone(p)
  <2>1. Len(answers) <= Len(answers')
    BY <1>8, SequenceIs DEF IInv, Tables
  <2>. QED  BY <1>3, <1>8, <1>9, <2>1 DEF Alone
<1>11. Size(w) <= scenario.maxDepth + 1
  <2>1. Size(v) <= scenario.maxDepth + 1
    BY <1>1 DEF Sound
  <2>2. Size(w) \in Nat /\ Size(v) \in Nat /\ scenario.maxDepth \in Nat
    BY <1>1, <1>6, SizeIs, ScenariosAssumption DEF IInv, Tables
  <2>. QED  BY <1>7, <2>1, <2>2
<1>12. AllSound' /\ Related'
  BY <1>3, <1>4, <1>5, <1>6, <1>7, <1>10, <1>11, NoRequestIs, OneStep
     DEF IInv, SameOrigin
<1>13. Tables'
  BY <1>8, <1>9 DEF IInv, Tables
<1>14. ~scenario.orderly => Apart'
  <2>. SUFFICES ASSUME Apart PROVE Apart'
    BY DEF IInv
  <2>1. p = Root => WritersOf(w.ready.text) \subseteq {Root}
    BY <1>5 DEF Apart
  <2>2. w.output = v.output /\ w.stage = "failed"
    BY <1>4, <1>5
  <2>. HIDE DEF v
  <2>. QED  BY <1>3, <1>9, <1>10, <2>1, <2>2, ApartQuiet DEF v
<1>15. Waits'
  <2>. HIDE DEF v
  <2>. QED  BY <1>3, <1>4, <1>9, <1>10, WaitsKept DEF IInv
<1>. QED  BY <1>9, <1>12, <1>13, <1>14, <1>15 DEF IInv

\* A step that leaves the requests, the entities and the values alone.
LEMMA WorkKeeps ==
  ASSUME IInv, NEW p \in D, parsers[p].working, NEW w, parsers' = [parsers EXCEPT ![p] = w],
         Besides(parsers[p], w, {"frames", "ready"}), Shaped(w), Once(w),
         Size(w) <= scenario.maxDepth + 1,
         scenario' = scenario, answers' = answers, entities' = entities, values' = values,
         Sequence(outputs'), Len(outputs') = Len(outputs), \A n \in DOMAIN outputs' : Written(outputs'[n]),
         Apart => GoodWriters,
         p = Root /\ Apart => WritersOf(w.ready.text) \subseteq {Root}
  PROVE  IInv'
<1>. DEFINE v == parsers[p]
<1>1. Sound(p, v, scenario, Len(answers)) /\ Shaped(v) /\ Once(v) /\ DOMAIN parsers = D
  BY SoundOf DEF IInv
<1>2. parsers'[p] = w /\ DOMAIN parsers' = D /\ \A q \in D \ {p} : parsers'[q] = parsers[q]
  BY <1>1
<1>3. /\ w.stage = v.stage /\ w.working = v.working /\ w.request = v.request
      /\ w.chain = v.chain /\ w.depth = v.depth /\ w.output = v.output /\ w.parent = v.parent
      /\ w.answer = v.answer /\ w.document = v.document
  <2>1. Shaped(v) /\ Besides(v, w, {"frames", "ready"})
    BY <1>1
  <2>. HIDE DEF v
  <2>. QED  BY <2>1, BesidesIs
<1>4. /\ v.stage \in {"expanding", "value"} /\ v.stage # "none" /\ v.request.name = NONE
      /\ v.request.answer = 0 /\ ~v.request.delivered /\ (v.stage = "expanding" => p = Root)
  BY WorkingIs DEF IInv
<1>5. Alone(p)
  <2>1. Len(answers) <= Len(answers')
    BY SequenceIs DEF IInv, Tables
  <2>. QED  BY <1>2, <2>1 DEF Alone, IInv, Tables
<1>6. AllSound' /\ Related'
  BY <1>2, <1>3, <1>4, <1>5, OneStep DEF IInv, SameOrigin
<1>7. Tables'
  BY DEF IInv, Tables
<1>8. ~scenario.orderly => Apart'
  <2>. SUFFICES ASSUME Apart PROVE Apart'
    BY DEF IInv
  <2>. HIDE DEF v
  <2>1. KeepOutputs
    BY <1>2, <1>3, <1>4, <1>5, AloneKeeps DEF v
  <2>2. GoodWriters
    OBVIOUS
  <2>3. Root \in D
    BY DEF D
  <2>4. CASE p = Root
    <3>1. OwnOutput
      BY <1>2, <1>3, <2>4 DEF OwnOutput, Apart, v
    <3>. QED  BY <1>2, <2>1, <2>2, <2>4, <3>1, ApartWrite
  <2>5. CASE p # Root
    <3>1. parsers'[Root] = parsers[Root]
      BY <1>2, <2>3, <2>5
    <3>2. OwnOutput
      BY <3>1 DEF OwnOutput, Apart
    <3>3. WritersOf(parsers'[Root].ready.text) \subseteq {Root}
      BY <3>1 DEF Apart
    <3>. QED  BY <2>1, <2>2, <3>2, <3>3, ApartWrite
  <2>. QED  BY <2>4, <2>5
<1>9. Waits'
  BY <1>2, <1>3, <1>5, WaitsKept DEF IInv
<1>. QED  BY <1>6, <1>7, <1>8, <1>9 DEF IInv

LEMMA SizeBound ==
  ASSUME IInv, NEW p \in D, parsers[p].stage # "none", NEW w, Shaped(w), Size(w) <= Size(parsers[p])
  PROVE  Size(w) <= scenario.maxDepth + 1
<1>1. Sound(p, parsers[p], scenario, Len(answers)) /\ Shaped(parsers[p])
  BY SoundOf DEF IInv
<1>2. Size(parsers[p]) <= scenario.maxDepth + 1
  BY <1>1 DEF Sound
<1>3. Size(w) \in Nat /\ Size(parsers[p]) \in Nat /\ scenario.maxDepth \in Nat
  BY <1>1, SizeIs, ScenariosAssumption DEF IInv, Tables
<1>. QED  BY <1>2, <1>3

\* A step that only leaves less to expand.
LEMMA ThinnerKeeps ==
  ASSUME IInv, NEW p \in D, parsers[p].working, NEW g, Framed(g), Thinner(g, parsers[p].frames),
         parsers' = [parsers EXCEPT ![p].frames = g],
         scenario' = scenario, answers' = answers, entities' = entities, values' = values,
         Sequence(outputs'), Len(outputs') = Len(outputs), \A n \in DOMAIN outputs' : Written(outputs'[n]),
         Apart => GoodWriters
  PROVE  IInv'
<1>. DEFINE v == parsers[p]
            w == [v EXCEPT !.frames = g]
<1>1. Shaped(v) /\ Once(v)
  BY SoundOf DEF IInv
<1>2. Besides(v, w, {"frames"}) /\ w.frames = g
  BY <1>1, FramesOnlyIs
<1>3. parsers' = [parsers EXCEPT ![p] = w]
  OBVIOUS
<1>. HIDE DEF w
<1>4. /\ DOMAIN w = DOMAIN NewParser /\ w.chain = v.chain /\ w.declaring = v.declaring
      /\ w.parameters = v.parameters /\ w.depth = v.depth /\ w.request = v.request
      /\ w.ready = v.ready /\ w.fed = v.fed /\ w.content = v.content
  BY <1>1, <1>2, BesidesIs
<1>5. Shaped(w)
  BY <1>1, <1>2, <1>4 DEF Shaped
<1>6. Once(w) /\ Size(w) <= Size(v)
  BY <1>1, <1>2, <1>4, <1>5, ThinnerOnce
<1>7. Size(w) <= scenario.maxDepth + 1
  BY <1>5, <1>6, WorkingIs, SizeBound DEF IInv
<1>8. Besides(v, w, {"frames", "ready"})
  BY <1>2 DEF Besides
<1>9. p = Root /\ Apart => WritersOf(w.ready.text) \subseteq {Root}
  BY <1>4 DEF Apart
<1>. HIDE DEF v
<1>. QED  BY <1>3, <1>5, <1>6, <1>7, <1>8, <1>9, WorkKeeps DEF v

LEMMA WrittenIs ==
  ASSUME Tables
  PROVE  /\ Sequence(outputs) /\ Len(outputs) \in Nat /\ DOMAIN outputs = 1..Len(outputs)
         /\ \A n \in DOMAIN outputs : Written(outputs[n])
BY SequenceIs DEF Tables

LEMMA PopFrameKeeps ==
  ASSUME IInv, NEW p \in D, parsers[p].working, parsers[p].frames # << >>, PopFrame(p)
  PROVE  IInv'
<1>. DEFINE g == Front(parsers[p].frames)
<1>1. Framed(parsers[p].frames)
  BY SoundOf DEF IInv, Shaped
<1>2. Framed(g) /\ Thinner(g, parsers[p].frames)
  BY <1>1, FrontIs
<1>3. parsers' = [parsers EXCEPT ![p].frames = g]
  BY DEF PopFrame
<1>. HIDE DEF g
<1>4. scenario' = scenario /\ answers' = answers /\ entities' = entities /\ values' = values
      /\ outputs' = outputs
  BY DEF PopFrame, tables
<1>5. Apart => GoodWriters
  BY <1>4 DEF GoodWriters
<1>. QED  BY <1>2, <1>3, <1>4, <1>5, WrittenIs, ThinnerKeeps DEF IInv

\* What a child drops, and what the declaring parser keeps.
LEMMA OnwardIs ==
  ASSUME IInv, NEW p \in D, parsers[p].frames # << >>
  PROVE  Framed(Onward(p)) /\ Thinner(Onward(p), parsers[p].frames)
<1>1. Framed(parsers[p].frames)
  BY SoundOf DEF IInv, Shaped
<1>2. CASE IsChild(p)
  BY <1>2, NoFrames DEF Onward
<1>3. CASE ~IsChild(p)
  <2>1. 1 \in Nat
    OBVIOUS
  <2>2. Framed(Advanced(parsers[p].frames, 1)) /\ Thinner(Advanced(parsers[p].frames, 1), parsers[p].frames)
    BY <1>1, <2>1, AdvancedIs
  <2>. QED  BY <1>3, <2>2 DEF Onward
<1>. QED  BY <1>2, <1>3

LEMMA SkippedIs ==
  ASSUME Tables, NEW p
  PROVE  /\ Sequence(Skipped(p)) /\ Len(Skipped(p)) = Len(outputs) /\ DOMAIN Skipped(p) = DOMAIN outputs
         /\ \A n \in DOMAIN outputs : Written(Skipped(p)[n]) /\ Skipped(p)[n].text = outputs[n].text
<1>. DEFINE m == parsers[p].output
            o == [outputs[m] EXCEPT !.skipped = ~outputs[m].standalone]
            s == [outputs EXCEPT ![m] = o]
<1>1. Sequence(outputs) /\ DOMAIN outputs = 1..Len(outputs) /\ \A n \in DOMAIN outputs : Written(outputs[n])
  BY WrittenIs
<1>2. Skipped(p) = s
  BY DEF Skipped
<1>3. m \in DOMAIN outputs => Written(o) /\ o.text = outputs[m].text
  BY <1>1 DEF Written
<1>. HIDE DEF o, m
<1>4. Sequence(s) /\ Len(s) = Len(outputs) /\ DOMAIN s = DOMAIN outputs
      /\ \A n \in DOMAIN outputs : s[n] = IF n = m THEN o ELSE outputs[n]
  BY <1>1, UpdateAny
<1>5. \A n \in DOMAIN outputs : Written(s[n]) /\ s[n].text = outputs[n].text
  BY <1>1, <1>3, <1>4
<1>. QED  BY <1>2, <1>4, <1>5

\* Outputs with the texts they had.
LEMMA SameTexts ==
  ASSUME DOMAIN outputs' = DOMAIN outputs, \A n \in DOMAIN outputs : outputs'[n].text = outputs[n].text
  PROVE  GoodWriters
BY DEF GoodWriters

LEMMA ReservedKeeps ==
  ASSUME IInv, NEW p \in D, parsers[p].working, parsers[p].frames # << >>, ReservedParameter(p)
  PROVE  IInv'
<1>1. parsers' = [parsers EXCEPT ![p].frames = Onward(p)]
  BY DEF ReservedParameter
<1>2. scenario' = scenario /\ answers' = answers /\ entities' = entities /\ values' = values
      /\ outputs' = outputs
  BY DEF ReservedParameter, tables
<1>3. Apart => GoodWriters
  BY <1>2 DEF GoodWriters
<1>. QED  BY <1>1, <1>2, <1>3, OnwardIs, WrittenIs, ThinnerKeeps DEF IInv

LEMMA UnknownKeeps ==
  ASSUME IInv, NEW p \in D, parsers[p].working, parsers[p].frames # << >>, UnknownParameter(p)
  PROVE  IInv'
<1>. DEFINE v == parsers[p]
            g == Onward(p)
<1>1. scenario' = scenario /\ answers' = answers /\ entities' = entities /\ values' = values
  BY DEF UnknownParameter, tables
<1>2. Framed(g) /\ Thinner(g, v.frames)
  BY OnwardIs
<1>3. CASE Expanding(p)
  <2>. DEFINE r == [v.ready EXCEPT !.skipped = TRUE]
              w == [v EXCEPT !.ready = r, !.frames = g]
  <2>1. Shaped(v) /\ Once(v)
    BY SoundOf DEF IInv
  <2>2. outputs' = outputs /\ parsers' = [parsers EXCEPT ![p] = w]
    BY <1>3 DEF UnknownParameter
  <2>. HIDE DEF g
  <2>3. DOMAIN r = {"text", "skipped"} /\ r.text = v.ready.text /\ Sequence(v.ready.text)
    BY <2>1 DEF Shaped
  <2>. HIDE DEF r
  <2>4. Besides(v, w, {"frames", "ready"}) /\ w.frames = g /\ w.ready = r
    BY <2>1, FieldsAre DEF Besides, Shaped
  <2>. HIDE DEF w
  <2>5. /\ DOMAIN w = DOMAIN NewParser /\ w.chain = v.chain /\ w.declaring = v.declaring
        /\ w.parameters = v.parameters /\ w.depth = v.depth /\ w.request = v.request
        /\ w.fed = v.fed /\ w.content = v.content
    BY <2>1, <2>4, BesidesIs
  <2>6. Shaped(w)
    BY <1>2, <2>1, <2>3, <2>4, <2>5 DEF Shaped
  <2>7. Once(w) /\ Size(w) <= Size(v)
    BY <1>2, <2>1, <2>4, <2>5, <2>6, ThinnerOnce
  <2>8. Size(w) <= scenario.maxDepth + 1
    BY <2>6, <2>7, WorkingIs, SizeBound DEF IInv
  <2>9. p = Root /\ Apart => WritersOf(w.ready.text) \subseteq {Root}
    BY <2>3, <2>4 DEF Apart
  <2>10. Apart => GoodWriters
    BY <2>2 DEF GoodWriters
  <2>. HIDE DEF v
  <2>. QED  BY <1>1, <2>2, <2>4, <2>6, <2>7, <2>8, <2>9, <2>10, WrittenIs, WorkKeeps DEF IInv, v
<1>4. CASE ~Expanding(p)
  <2>1. outputs' = Skipped(p) /\ parsers' = [parsers EXCEPT ![p].frames = g]
    BY <1>4 DEF UnknownParameter
  <2>2. /\ Sequence(outputs') /\ Len(outputs') = Len(outputs) /\ DOMAIN outputs' = DOMAIN outputs
        /\ \A n \in DOMAIN outputs : Written(outputs'[n]) /\ outputs'[n].text = outputs[n].text
    BY <2>1, SkippedIs DEF IInv
  <2>3. GoodWriters
    BY <2>2, SameTexts
  <2>. HIDE DEF g
  <2>. QED  BY <1>1, <1>2, <2>1, <2>2, <2>3, ThinnerKeeps
<1>. QED  BY <1>3, <1>4

-----------------------------------------------------------------------------
(***************************************************************************)
(* Writing                                                                 *)
(***************************************************************************)

Pieces(p, items) == [k \in DOMAIN items |-> [item |-> items[k], by |-> p]]

LEMMA PiecesIs ==
  ASSUME NEW text, Sequence(text), NEW p, NEW items, Sequence(items)
  PROVE  /\ Sequence(text \o Pieces(p, items))
         /\ WritersOf(text \o Pieces(p, items)) \subseteq WritersOf(text) \cup {p}
<1>. DEFINE t == Pieces(p, items)
<1>1. Len(items) \in Nat /\ DOMAIN items = 1..Len(items)
  BY SequenceIs
<1>2. t = [k \in 1..Len(items) |-> t[k]] /\ \A k \in 1..Len(items) : t[k].by = p
  BY <1>1 DEF Pieces
<1>. HIDE DEF t
<1>3. Sequence(t) /\ Len(t) = Len(items)
  BY <1>1, <1>2, FunctionIs
<1>4. /\ Sequence(text \o t) /\ Len(text \o t) = Len(text) + Len(t)
      /\ \A i \in 1..Len(text) : (text \o t)[i] = text[i]
      /\ \A i \in 1..Len(t) : (text \o t)[Len(text) + i] = t[i]
  <2>1. Sequence(text) /\ Sequence(t)
    BY <1>3
  <2>. QED  BY ONLY <2>1, ConcatIs
<1>5. Len(text) \in Nat /\ DOMAIN text = 1..Len(text) /\ DOMAIN (text \o t) = 1..Len(text) + Len(t)
  BY <1>4, SequenceIs
<1>6. ASSUME NEW i \in DOMAIN (text \o t)
      PROVE  (text \o t)[i].by \in WritersOf(text) \cup {p}
  <2>1. CASE i \in 1..Len(text)
    BY <1>4, <1>5, <2>1 DEF WritersOf
  <2>2. CASE i \notin 1..Len(text)
    <3>1. PICK k \in 1..Len(t) : i = Len(text) + k
      <4>1. i - Len(text) \in 1..Len(t) /\ i = Len(text) + (i - Len(text))
        BY <1>1, <1>3, <1>5, <2>2
      <4>. QED  BY <4>1
    <3>. QED  BY <1>2, <1>3, <1>4, <3>1
  <2>. QED  BY <2>1, <2>2
<1>. QED  BY <1>4, <1>6 DEF t, WritersOf

\* The output that p writes to, with more text.
LEMMA LongerIs ==
  ASSUME Tables, NEW p, NEW items, Sequence(items)
  PROVE  LET m == parsers[p].output
             s == [outputs EXCEPT ![m].text = @ \o Pieces(p, items)]
         IN /\ Sequence(s) /\ Len(s) = Len(outputs) /\ DOMAIN s = DOMAIN outputs
            /\ \A n \in DOMAIN outputs :
                 /\ Written(s[n])
                 /\ n # m => s[n] = outputs[n]
                 /\ WritersOf(s[n].text) \subseteq WritersOf(outputs[n].text) \cup {p}
<1>. DEFINE m == parsers[p].output
            more == outputs[m].text \o Pieces(p, items)
            o == [outputs[m] EXCEPT !.text = more]
            s == [outputs EXCEPT ![m] = o]
<1>1. Sequence(outputs) /\ DOMAIN outputs = 1..Len(outputs) /\ \A n \in DOMAIN outputs : Written(outputs[n])
  BY WrittenIs
<1>2. s = [outputs EXCEPT ![m].text = @ \o Pieces(p, items)]
  OBVIOUS
<1>3. m \in DOMAIN outputs =>
        Sequence(more) /\ WritersOf(more) \subseteq WritersOf(outputs[m].text) \cup {p}
  BY <1>1, PiecesIs DEF Written
<1>. HIDE DEF more
<1>4. m \in DOMAIN outputs => DOMAIN o = {"text", "standalone", "skipped"} /\ o.text = more
  BY <1>1 DEF Written
<1>. HIDE DEF o, m
<1>5. Sequence(s) /\ Len(s) = Len(outputs) /\ DOMAIN s = DOMAIN outputs
      /\ \A n \in DOMAIN outputs : s[n] = IF n = m THEN o ELSE outputs[n]
  BY <1>1, UpdateAny
<1>. HIDE DEF s
<1>6. ASSUME NEW n \in DOMAIN outputs
      PROVE  /\ Written(s[n]) /\ (n # m => s[n] = outputs[n])
             /\ WritersOf(s[n].text) \subseteq WritersOf(outputs[n].text) \cup {p}
  <2>1. CASE n = m
    BY <1>3, <1>4, <1>5, <2>1 DEF Written
  <2>2. CASE n # m
    BY <1>1, <1>5, <2>2
  <2>. QED  BY <2>1, <2>2
<1>. QED  BY <1>2, <1>5, <1>6 DEF m

LEMMA WriteKeeps ==
  ASSUME IInv, NEW p \in D, parsers[p].working, parsers[p].frames # << >>,
         NEW items, Sequence(items), NEW n \in Nat, Write(p, items, n)
  PROVE  IInv'
<1>. DEFINE v == parsers[p]
            g == Advanced(v.frames, n)
<1>1. Shaped(v) /\ Once(v) /\ v.stage \in {"expanding", "value"} /\ v.stage # "none"
      /\ (v.stage = "expanding" => p = Root)
  BY SoundOf, WorkingIs DEF IInv
<1>2. Framed(g) /\ Thinner(g, v.frames)
  BY <1>1, AdvancedIs DEF Shaped
<1>. HIDE DEF g
<1>3. CASE Fail(p, "LimitExceeded")
  BY <1>1, <1>3, FailKeeps
<1>4. CASE ~Fail(p, "LimitExceeded")
  <2>1. scenario' = scenario /\ answers' = answers /\ entities' = entities /\ values' = values
    BY <1>4 DEF Write, tables
  <2>2. CASE Expanding(p)
    <3>. DEFINE r == [v.ready EXCEPT !.text = v.ready.text \o Pieces(p, items)]
                w == [v EXCEPT !.ready = r, !.frames = g]
    <3>1. outputs' = outputs /\ parsers' = [parsers EXCEPT ![p] = w]
      BY <1>4, <2>2 DEF Write, Pieces, g
    <3>2. Sequence(v.ready.text) /\ DOMAIN v.ready = {"text", "skipped"}
      BY <1>1 DEF Shaped
    <3>3. Sequence(v.ready.text \o Pieces(p, items))
          /\ WritersOf(v.ready.text \o Pieces(p, items)) \subseteq WritersOf(v.ready.text) \cup {p}
      BY <3>2, PiecesIs
    <3>4. DOMAIN r = {"text", "skipped"} /\ Sequence(r.text)
          /\ WritersOf(r.text) \subseteq WritersOf(v.ready.text) \cup {p}
      BY <3>2, <3>3
    <3>. HIDE DEF r
    <3>5. Besides(v, w, {"frames", "ready"}) /\ w.frames = g /\ w.ready = r
      BY <1>1, FieldsAre DEF Besides, Shaped
    <3>. HIDE DEF w
    <3>6. /\ DOMAIN w = DOMAIN NewParser /\ w.chain = v.chain /\ w.declaring = v.declaring
          /\ w.parameters = v.parameters /\ w.depth = v.depth /\ w.request = v.request
          /\ w.fed = v.fed /\ w.content = v.content
      BY <1>1, <3>5, BesidesIs
    <3>7. Shaped(w)
      BY <1>1, <1>2, <3>4, <3>5, <3>6 DEF Shaped
    <3>8. Once(w) /\ Size(w) <= Size(v)
      BY <1>1, <1>2, <3>5, <3>6, <3>7, ThinnerOnce
    <3>9. Size(w) <= scenario.maxDepth + 1
      BY <1>1, <3>7, <3>8, SizeBound
    <3>10. p = Root /\ Apart => WritersOf(w.ready.text) \subseteq {Root}
      BY <3>4, <3>5 DEF Apart
    <3>11. Apart => GoodWriters
      BY <3>1 DEF GoodWriters
    <3>. HIDE DEF v
    <3>. QED  BY <2>1, <3>1, <3>5, <3>7, <3>8, <3>9, <3>10, <3>11, WrittenIs, WorkKeeps DEF IInv, v
  <2>3. CASE ~Expanding(p)
    <3>1. /\ outputs' = [outputs EXCEPT ![v.output].text = @ \o Pieces(p, items)]
          /\ parsers' = [parsers EXCEPT ![p].frames = g]
      BY <1>4, <2>3 DEF Write, Pieces, g
    <3>2. /\ Sequence(outputs') /\ Len(outputs') = Len(outputs) /\ DOMAIN outputs' = DOMAIN outputs
          /\ \A m \in DOMAIN outputs :
               /\ Written(outputs'[m]) /\ (m # v.output => outputs'[m] = outputs[m])
               /\ WritersOf(outputs'[m].text) \subseteq WritersOf(outputs[m].text) \cup {p}
      BY <3>1, LongerIs DEF IInv
    <3>3. GoodWriters
      <4>. SUFFICES ASSUME NEW m \in DOMAIN outputs', NEW c \in WritersOf(outputs'[m].text) \ {Root}
                    PROVE  \/ m \in DOMAIN outputs /\ c \in WritersOf(outputs[m].text)
                           \/ c \in Children /\ MadeFor(c, m)
        BY DEF GoodWriters
      <4>1. CASE m # v.output
        BY <3>2, <4>1
      <4>2. CASE m = v.output
        BY <1>1, <3>2, <4>2 DEF MadeFor, D
      <4>. QED  BY <4>1, <4>2
    <3>. QED  BY <1>2, <2>1, <3>1, <3>2, <3>3, ThinnerKeeps
  <2>. QED  BY <2>2, <2>3
<1>. QED  BY <1>3, <1>4

LEMMA LeadIs ==
  ASSUME NEW items, Sequence(items)
  PROVE  Lead(items) \in Nat /\ Lead(items) <= Len(items)
<1>1. Len(items) \in Nat /\ DOMAIN items = 1..Len(items)
  BY SequenceIs
<1>2. CASE ~\E k \in DOMAIN items : IsReference(items[k])
  BY <1>1, <1>2 DEF Lead
<1>3. CASE \E k \in DOMAIN items : IsReference(items[k])
  <2>. DEFINE I == {i \in 1..Len(items) : IsReference(items[i])}
  <2>1. I \in SUBSET Nat /\ I # {}
    BY <1>1, <1>3
  <2>2. SelectInSeq(items, IsReference) = Min(I)
    BY <2>1 DEF SelectInSeq
  <2>. HIDE DEF I
  <2>3. \E x \in I : \A y \in I : x <= y
    BY <2>1, Least
  <2>4. Min(I) \in I
    BY <2>3 DEF Min
  <2>5. Min(I) \in 1..Len(items)
    BY <2>4 DEF I
  <2>6. Lead(items) = Min(I) - 1
    BY <1>3, <2>2 DEF Lead
  <2>. QED  BY <1>1, <2>5, <2>6
<1>. QED  BY <1>2, <1>3

LEMMA NormalizedIs ==
  ASSUME NEW items, Sequence(items), NEW normalize
  PROVE  Sequence(Normalized(items, normalize))
<1>. DEFINE t == [k \in DOMAIN items |-> LineEnd(items[k])]
<1>1. Len(items) \in Nat /\ DOMAIN items = 1..Len(items)
  BY SequenceIs
<1>2. t = [k \in 1..Len(items) |-> t[k]]
  BY <1>1
<1>3. Sequence(t)
  <2>. HIDE DEF t
  <2>. QED  BY <1>1, <1>2, FunctionIs
<1>. QED  BY <1>3 DEF Normalized

LEMMA TopIs ==
  ASSUME IInv, NEW p \in D, parsers[p].frames # << >>
  PROVE  Sequence(Top(p).items)
<1>1. Framed(parsers[p].frames)
  BY SoundOf DEF IInv, Shaped
<1>2. Len(parsers[p].frames) \in DOMAIN parsers[p].frames
  BY <1>1, SequenceIs DEF Framed
<1>. QED  BY <1>1, <1>2 DEF Framed, Top, Last

LEMMA TextsKeep ==
  ASSUME IInv, NEW p \in D, parsers[p].working, parsers[p].frames # << >>,
         TakeText(p) \/ TakeCharacter(p) \/ TakeGeneral(p)
  PROVE  IInv'
<1>1. CASE TakeText(p)
  <2>. DEFINE f == Top(p)
              n == Lead(f.items)
              items == Normalized(SubSeq(f.items, 1, n), f.normalize)
  <2>1. Sequence(f.items)
    BY TopIs
  <2>2. n \in Nat /\ n <= Len(f.items)
    BY <2>1, LeadIs
  <2>3. Write(p, items, n)
    BY <1>1 DEF TakeText
  <2>. HIDE DEF f, n
  <2>4. Sequence(SubSeq(f.items, 1, n))
    BY <2>1, <2>2, PartIs DEF Part
  <2>5. Sequence(items)
    BY <2>4, NormalizedIs
  <2>. HIDE DEF items
  <2>. QED  BY <2>2, <2>3, <2>5, WriteKeeps
<1>2. CASE TakeCharacter(p)
  <2>1. Write(p, <<Next1(p)[2]>>, 1) /\ Sequence(<<Next1(p)[2]>>) /\ 1 \in Nat
    BY <1>2, OneIs DEF TakeCharacter
  <2>. QED  BY <2>1, WriteKeeps
<1>3. CASE TakeGeneral(p)
  <2>1. Write(p, <<Next1(p)>>, 1) /\ Sequence(<<Next1(p)>>) /\ 1 \in Nat
    BY <1>3, OneIs DEF TakeGeneral
  <2>. QED  BY <2>1, WriteKeeps
<1>. QED  BY <1>1, <1>2, <1>3

LEMMA ErrorsKeep ==
  ASSUME IInv, NEW p \in D, parsers[p].working,
         BadReference(p) \/ Recursion(p) \/ Deeper(p) \/ Contended(p)
  PROVE  IInv'
<1>1. parsers[p].stage # "none"
  BY WorkingIs DEF IInv
<1>2. \E kind : Fail(p, kind)
  BY DEF BadReference, Recursion, Deeper, Contended
<1>. QED  BY <1>1, <1>2, FailKeeps

\* A name that may be opened, and room for it.
LEMMA FreeIs ==
  ASSUME IInv, NEW p \in D, parsers[p].working, NEW kinds, AtEntity(p, kinds)
  PROVE  LET name == Next1(p)[2]
             v == parsers[p]
         IN /\ name \in DOMAIN entities /\ entities[name].kind \in kinds
            /\ name \notin Names(v) \cup v.chain
            /\ name # v.declaring /\ name \notin Range(v.parameters)
            /\ \A k \in DOMAIN v.frames : v.frames[k].name # name
            /\ Size(v) <= scenario.maxDepth
<1>. DEFINE name == Next1(p)[2]
            v == parsers[p]
<1>1. /\ name \in DOMAIN entities /\ entities[name].kind \in kinds
      /\ ~Busy(p, name) /\ ~TooDeep(p)
  BY DEF AtEntity
<1>2. /\ name # v.declaring /\ name \notin Range(v.parameters) \cup v.chain
      /\ \A k \in DOMAIN v.frames : v.frames[k].name # name
  BY <1>1 DEF Busy
<1>3. name \notin Names(v)
  BY <1>2 DEF Names, FrameNames
<1>4. Shaped(v)
  BY SoundOf DEF IInv
<1>5. Named(p) = NamedIn(v.frames)
  BY DEF Named, NamedIn
<1>6. Size(v) \in Nat /\ scenario.maxDepth \in Nat
  BY <1>4, SizeIs, ScenariosAssumption DEF IInv, Tables
<1>7. ~(Size(v) > scenario.maxDepth)
  BY <1>1, <1>5 DEF TooDeep, Size
<1>8. Size(v) <= scenario.maxDepth
  BY <1>6, <1>7
<1>. QED  BY <1>1, <1>2, <1>3, <1>8

\* An entity that was not open is opened.
LEMMA OpenedOnce ==
  ASSUME NEW v, Shaped(v), Once(v), NEW w, Shaped(w),
         w.parameters = v.parameters, w.declaring = v.declaring, w.depth = v.depth, w.chain = v.chain,
         NEW f, Framed(f), DOMAIN f = DOMAIN v.frames, Thinner(f, v.frames),
         NEW items, Sequence(items), NEW name, NEW normalize,
         w.frames = Append(f, FrameOf(items, name, normalize)),
         name # v.declaring, name \notin Range(v.parameters), name \notin v.chain,
         \A k \in DOMAIN v.frames : v.frames[k].name # name
  PROVE  Once(w) /\ Size(w) <= Size(v) + 1
<1>. DEFINE g == w.frames
<1>1. NamedIn(f) = NamedIn(v.frames) /\ FrameNames(f) = FrameNames(v.frames)
  BY AsThickIs DEF Shaped
<1>2. /\ NamedIn(g) \in Nat /\ NamedIn(g) <= NamedIn(f) + 1
      /\ FrameNames(g) \subseteq FrameNames(f) \cup {name}
      /\ DOMAIN f = 1..Len(f) /\ Len(f) \in Nat /\ DOMAIN g = 1..Len(f) + 1
      /\ g[Len(f) + 1].name = name
      /\ \A i \in 1..Len(f) : g[i] = f[i]
  BY OneMoreFrame
<1>3. NamedIn(v.frames) \in Nat /\ v.depth \in Nat /\ Len(v.parameters) \in Nat
  BY SizeIs
<1>4. Size(w) <= Size(v) + 1
  BY <1>1, <1>2, <1>3 DEF Size
<1>5. \A i \in DOMAIN f : f[i].name = v.frames[i].name /\ f[i].name # name
  BY DEF Thinner
<1>6. \A i \in DOMAIN g : i \in DOMAIN f \/ i = Len(f) + 1
  BY <1>2
<1>7. \A i, j \in DOMAIN f : f[i].name = f[j].name => i = j \/ f[i].name = NONE
  BY <1>5 DEF Once
<1>8. \A i, j \in DOMAIN g : g[i].name = g[j].name => i = j \/ g[i].name = NONE
  BY <1>2, <1>5, <1>6, <1>7
<1>9. Once(w)
  BY <1>1, <1>2, <1>8 DEF Once
<1>. QED  BY <1>4, <1>9

LEMMA InternalKeeps ==
  ASSUME IInv, NEW p \in D, parsers[p].working, parsers[p].frames # << >>, InternalParameter(p)
  PROVE  IInv'
<1>. DEFINE v == parsers[p]
            name == Next1(p)[2]
            f == Advanced(v.frames, 1)
            g == Append(f, FrameOf(entities[name].value, name, FALSE))
<1>1. AtEntity(p, {"internal"})
  BY DEF InternalParameter
<1>2. /\ name \in DOMAIN entities /\ entities[name].kind = "internal"
      /\ name # v.declaring /\ name \notin Range(v.parameters) /\ name \notin Names(v) \cup v.chain
      /\ \A k \in DOMAIN v.frames : v.frames[k].name # name
      /\ Size(v) <= scenario.maxDepth
  BY <1>1, FreeIs
<1>3. /\ scenario' = scenario /\ answers' = answers /\ entities' = entities /\ values' = values
      /\ outputs' = outputs
      /\ \/ parsers' = [parsers EXCEPT ![p].frames = << >>]
         \/ parsers' = [parsers EXCEPT ![p].frames = g]
  BY DEF InternalParameter
<1>4. Shaped(v) /\ Once(v)
  BY SoundOf DEF IInv
<1>5. Apart => GoodWriters
  BY <1>3 DEF GoodWriters
<1>6. CASE parsers' = [parsers EXCEPT ![p].frames = << >>]
  BY <1>3, <1>5, <1>6, NoFrames, WrittenIs, ThinnerKeeps DEF IInv
<1>7. CASE parsers' = [parsers EXCEPT ![p].frames = g]
  <2>. DEFINE w == [v EXCEPT !.frames = g]
  <2>1. Framed(f) /\ DOMAIN f = DOMAIN v.frames /\ Thinner(f, v.frames)
    <3>1. 1 \in Nat
      OBVIOUS
    <3>. QED  BY <1>4, <3>1, AdvancedIs DEF Shaped
  <2>2. Sequence(entities[name].value)
    BY <1>2 DEF IInv, Tables
  <2>. HIDE DEF f, name
  <2>3. Framed(g)
    BY <2>1, <2>2, OneMoreFrame
  <2>4. parsers' = [parsers EXCEPT ![p] = w]
    BY <1>7
  <2>5. Besides(v, w, {"frames"}) /\ w.frames = g
    BY <1>4, FramesOnlyIs
  <2>. HIDE DEF w
  <2>6. /\ DOMAIN w = DOMAIN NewParser /\ w.chain = v.chain /\ w.declaring = v.declaring
        /\ w.parameters = v.parameters /\ w.depth = v.depth /\ w.request = v.request
        /\ w.ready = v.ready /\ w.fed = v.fed /\ w.content = v.content
    BY <1>4, <2>5, BesidesIs
  <2>7. Shaped(w)
    BY <1>4, <2>3, <2>5, <2>6 DEF Shaped
  <2>8. name \notin v.chain
    BY <1>2
  <2>. HIDE DEF v
  <2>9. Once(w) /\ Size(w) <= Size(v) + 1
    BY <1>2, <1>4, <2>1, <2>2, <2>5, <2>6, <2>7, <2>8, OpenedOnce
  <2>10. Size(w) <= scenario.maxDepth + 1
    <3>1. Size(w) \in Nat /\ Size(v) \in Nat /\ scenario.maxDepth \in Nat
      BY <1>4, <2>7, SizeIs, ScenariosAssumption DEF IInv, Tables
    <3>. QED  BY <1>2, <2>9, <3>1
  <2>11. Besides(v, w, {"frames", "ready"})
    BY <2>5 DEF Besides
  <2>12. p = Root /\ Apart => WritersOf(w.ready.text) \subseteq {Root}
    BY <2>6 DEF Apart, v
  <2>. QED  BY <1>3, <1>5, <2>4, <2>7, <2>9, <2>10, <2>11, <2>12, WrittenIs, WorkKeeps DEF IInv, v
<1>. QED  BY <1>3, <1>6, <1>7

LEMMA AskingIs ==
  ASSUME NEW name
  PROVE  /\ Asking(name).name = name /\ ~Asking(name).delivered /\ Asking(name).answer = 0
         /\ DOMAIN Asking(name) = {"name", "delivered", "answer"}
BY DEF Asking, NoRequest

\* What an external reference leaves: a parser that asks.
LEMMA AskingSound ==
  ASSUME IInv, NEW p \in D, parsers[p].working, parsers[p].frames # << >>, AtEntity(p, {"external"}),
         NEW w, Besides(parsers[p], w, {"stage", "working", "output", "prefixed", "ready", "request", "frames"}),
         w.frames = Advanced(parsers[p].frames, 1), w.stage = "value", ~w.working,
         w.request = Asking(Next1(p)[2]),
         DOMAIN w.ready = {"text", "skipped"}, Sequence(w.ready.text),
         Alone(p), w = parsers'[p]
  PROVE  AllSound' /\ Related'
<1>. DEFINE v == parsers[p]
            name == Next1(p)[2]
<1>1. /\ name \in DOMAIN entities /\ entities[name].kind = "external"
      /\ name \notin Names(v) \cup v.chain /\ Size(v) <= scenario.maxDepth
  BY FreeIs
<1>2. Shaped(v) /\ Once(v) /\ v.stage # "none"
  BY SoundOf, WorkingIs DEF IInv
<1>3. Framed(w.frames) /\ DOMAIN w.frames = DOMAIN v.frames /\ Thinner(w.frames, v.frames)
  <2>. DEFINE f == Advanced(v.frames, 1)
  <2>1. 1 \in Nat /\ Framed(v.frames)
    BY <1>2 DEF Shaped
  <2>2. Framed(f) /\ DOMAIN f = DOMAIN v.frames /\ Thinner(f, v.frames)
    BY <2>1, AdvancedIs
  <2>3. w.frames = f
    OBVIOUS
  <2>. HIDE DEF f
  <2>. QED  BY <2>2, <2>3
<1>4. /\ DOMAIN w = DOMAIN NewParser /\ w.chain = v.chain /\ w.declaring = v.declaring
      /\ w.parameters = v.parameters /\ w.depth = v.depth /\ w.parent = v.parent
      /\ w.answer = v.answer /\ w.document = v.document /\ w.fed = v.fed /\ w.content = v.content
  BY <1>2, BesidesIs
<1>. HIDE DEF name
<1>5. /\ w.request.name = name /\ ~w.request.delivered /\ w.request.answer = 0
      /\ DOMAIN w.request = {"name", "delivered", "answer"}
  BY AskingIs DEF name
<1>6. Shaped(w)
  BY <1>2, <1>3, <1>4, <1>5 DEF Shaped
<1>7. Once(w) /\ Size(w) <= Size(v) /\ Names(w) \subseteq Names(v)
  BY <1>2, <1>3, <1>4, <1>6, ThinnerOnce
<1>8. Size(w) \in Nat /\ Size(v) \in Nat /\ scenario.maxDepth \in Nat
  BY <1>2, <1>6, SizeIs, ScenariosAssumption DEF IInv, Tables
<1>9. Size(w) <= scenario.maxDepth /\ Size(w) <= scenario.maxDepth + 1
  BY <1>1, <1>7, <1>8
<1>10. Sequence(scenario.documents[name])
  BY <1>1 DEF IInv, Tables
<1>11. Asks(w, scenario)
  BY <1>1, <1>4, <1>5, <1>7, <1>9, <1>10 DEF Asks
<1>12. SameOrigin(v, w)
  BY <1>4 DEF SameOrigin
<1>. HIDE DEF v
<1>. QED  BY <1>2, <1>5, <1>6, <1>7, <1>9, <1>11, <1>12, OneStep DEF IInv, v

LEMMA ExternalKeeps ==
  ASSUME IInv, NEW p \in D, parsers[p].working, parsers[p].frames # << >>, ExternalParameter(p)
  PROVE  IInv'
<1>. DEFINE v == parsers[p]
            q == Asking(Next1(p)[2])
            f == Advanced(v.frames, 1)
            w == [v EXCEPT !.request = q, !.frames = f, !.working = FALSE]
<1>1. Shaped(v) /\ DOMAIN parsers = D /\ v.stage = "value"
  BY SoundOf, WorkingIs DEF IInv, ExternalParameter, Expanding
<1>2. parsers' = [parsers EXCEPT ![p] = w] /\ AtEntity(p, {"external"})
  BY DEF ExternalParameter
<1>3. /\ scenario' = scenario /\ answers' = answers /\ entities' = entities /\ values' = values
      /\ outputs' = outputs
  BY DEF ExternalParameter, tables
<1>. HIDE DEF q, f
<1>4. /\ Besides(v, w, {"request", "frames", "working"})
      /\ w.request = q /\ w.frames = f /\ ~w.working
  BY <1>1, FieldsAre DEF Besides, Shaped
<1>5. parsers'[p] = w /\ DOMAIN parsers' = D /\ \A r \in D \ {p} : parsers'[r] = parsers[r]
  BY <1>1, <1>2
<1>. HIDE DEF w
<1>6. w.stage = v.stage /\ w.output = v.output /\ w.ready = v.ready
  BY <1>1, <1>4, BesidesIs
<1>7. Alone(p)
  <2>1. Len(answers) <= Len(answers')
    BY <1>3, SequenceIs DEF IInv, Tables
  <2>. QED  BY <1>3, <1>5, <2>1 DEF Alone, IInv, Tables
<1>8. Besides(v, w, {"stage", "working", "output", "prefixed", "ready", "request", "frames"})
  BY <1>4 DEF Besides
<1>9. DOMAIN w.ready = {"text", "skipped"} /\ Sequence(w.ready.text)
  BY <1>1, <1>6 DEF Shaped
<1>10. AllSound' /\ Related'
  BY <1>1, <1>2, <1>4, <1>5, <1>6, <1>7, <1>8, <1>9, AskingSound DEF q, f
<1>11. Tables'
  BY <1>3 DEF IInv, Tables
<1>12. ~scenario.orderly => Apart'
  <2>. SUFFICES ASSUME Apart PROVE Apart'
    BY DEF IInv
  <2>1. p = Root => WritersOf(w.ready.text) \subseteq {Root}
    BY <1>6 DEF Apart
  <2>2. v.stage # "none" /\ w.stage # "none"
    BY <1>1, <1>6
  <2>. HIDE DEF v
  <2>. QED  BY <1>1, <1>3, <1>5, <1>6, <1>7, <2>1, <2>2, ApartQuiet DEF v
<1>13. Waits'
  BY <1>1, <1>3, <1>5, <1>6, <1>7, WaitsKept DEF IInv
<1>. QED  BY <1>3, <1>10, <1>11, <1>12, <1>13 DEF IInv

LEMMA FirstOutputIs ==
  ASSUME NEW v, Shaped(v)
  PROVE  Written(FirstOutput(v)) /\ FirstOutput(v).text = v.ready.text
BY DEF FirstOutput, Written, Shaped

LEMMA BeginKeeps ==
  ASSUME IInv, NEW p \in D, parsers[p].working, parsers[p].frames # << >>, BeginExternal(p)
  PROVE  IInv'
<1>. DEFINE v == parsers[p]
            q == Asking(Next1(p)[2])
            f == Advanced(v.frames, 1)
            o == FirstOutput(v)
            n == Len(outputs')
            first == ~scenario.defaults
            r == NewParser.ready
            w == [v EXCEPT !.stage = "value", !.working = FALSE, !.output = n, !.prefixed = first,
                           !.ready = r, !.request = q, !.frames = f]
<1>1. Shaped(v) /\ DOMAIN parsers = D /\ v.stage = "expanding" /\ p = Root
  BY SoundOf, WorkingIs DEF IInv, BeginExternal, Expanding
<1>2. parsers' = [parsers EXCEPT ![p] = w] /\ AtEntity(p, {"external"})
  BY DEF BeginExternal
<1>3. /\ scenario' = scenario /\ answers' = answers /\ entities' = entities /\ values' = values
      /\ outputs' = Append(outputs, o)
  BY DEF BeginExternal, tables, WithOutput
<1>4. Written(o) /\ o.text = v.ready.text
  BY <1>1, FirstOutputIs
<1>5. DOMAIN r = {"text", "skipped"} /\ r.text = << >> /\ Sequence(r.text)
  BY NewParserIs DEF Shaped
<1>. HIDE DEF q, f, o, n, first, r
<1>6. /\ Besides(v, w, {"stage", "working", "output", "prefixed", "ready", "request", "frames"})
      /\ w.stage = "value" /\ ~w.working /\ w.output = n /\ w.ready = r /\ w.request = q /\ w.frames = f
  BY <1>1, FieldsAre DEF Besides, Shaped
<1>7. parsers'[p] = w /\ DOMAIN parsers' = D /\ \A c \in D \ {p} : parsers'[c] = parsers[c]
  BY <1>1, <1>2
<1>. HIDE DEF w
<1>8. Alone(p)
  <2>1. Len(answers) <= Len(answers')
    BY <1>3, SequenceIs DEF IInv, Tables
  <2>. QED  BY <1>3, <1>7, <2>1 DEF Alone, IInv, Tables
<1>9. AllSound' /\ Related'
  BY <1>2, <1>5, <1>6, <1>7, <1>8, AskingSound DEF q, f
<1>10. /\ Sequence(outputs') /\ n = Len(outputs) + 1 /\ outputs'[n] = o
       /\ DOMAIN outputs = 1..Len(outputs) /\ Len(outputs) \in Nat
       /\ \A k \in 1..Len(outputs) : outputs'[k] = outputs[k]
  <2>1. Sequence(outputs) /\ DOMAIN outputs = 1..Len(outputs) /\ Len(outputs) \in Nat
    BY WrittenIs DEF IInv
  <2>2. /\ Sequence(Append(outputs, o)) /\ Len(Append(outputs, o)) = Len(outputs) + 1
        /\ Append(outputs, o)[Len(outputs) + 1] = o
        /\ \A k \in 1..Len(outputs) : Append(outputs, o)[k] = outputs[k]
    <3>1. Sequence(outputs)
      BY <2>1
    <3>2. Sequence(Append(outputs, o)) /\ Len(Append(outputs, o)) = Len(outputs) + 1
      BY ONLY <3>1, AppendIs
    <3>3. Append(outputs, o)[Len(outputs) + 1] = o
      BY ONLY <3>1, AppendIs
    <3>4. \A k \in 1..Len(outputs) : Append(outputs, o)[k] = outputs[k]
      BY ONLY <3>1, AppendIs
    <3>. QED  BY ONLY <3>2, <3>3, <3>4
  <2>3. n = Len(outputs) + 1
    BY <1>3, <2>2 DEF n
  <2>. QED  BY <1>3, <2>1, <2>2, <2>3
<1>11. DOMAIN outputs' = 1..n /\ \A k \in 1..n : k \in 1..Len(outputs) \/ k = n
  BY <1>10, SequenceIs DEF n
<1>12. \A k \in DOMAIN outputs' : Written(outputs'[k])
  BY <1>4, <1>10, <1>11 DEF IInv, Tables
<1>13. Tables'
  BY <1>3, <1>10, <1>12 DEF IInv, Tables
<1>14. ~scenario.orderly => Apart'
  <2>. SUFFICES ASSUME Apart PROVE Apart'
    BY DEF IInv
  <2>1. \A k \in 1..Len(outputs) : k \in 1..Len(outputs')
    BY <1>10, <1>11 DEF n
  <2>2. KeepOutputs
    BY <1>1, <1>8, <2>1, AloneKeeps
  <2>3. WritersOf(o.text) \subseteq {Root}
    BY <1>1, <1>4 DEF Apart
  <2>4. GoodWriters
    BY <1>10, <1>11, <2>3 DEF GoodWriters
  <2>5. n \in 1..Len(outputs') /\ n \notin 1..Len(outputs)
    BY <1>10 DEF n
  <2>6. OwnOutput
    BY <1>1, <1>6, <1>7, <2>5 DEF OwnOutput
  <2>7. WritersOf(w.ready.text) \subseteq {Root}
    BY <1>5, <1>6, SequenceIs, EmptyIs DEF WritersOf
  <2>. QED  BY <1>1, <1>3, <1>7, <2>2, <2>4, <2>6, <2>7, ApartWrite
<1>15. Waits'
  <2>1. n \in 1..Len(outputs')
    BY <1>10 DEF n
  <2>. QED  BY <1>1, <1>6, <1>7, <2>1 DEF Waits
<1>. QED  BY <1>3, <1>9, <1>13, <1>14, <1>15 DEF IInv

LEMMA FinishChildKeeps ==
  ASSUME IInv, NEW p \in D, parsers[p].working, FinishChild(p)
  PROVE  IInv'
<1>. DEFINE v == parsers[p]
            w == [v EXCEPT !.stage = "finished", !.working = FALSE]
<1>1. Sound(p, v, scenario, Len(answers)) /\ Shaped(v) /\ Once(v) /\ DOMAIN parsers = D
  BY SoundOf DEF IInv
<1>2. parsers' = [parsers EXCEPT ![p] = w]
  BY DEF FinishChild
<1>3. parsers'[p] = w /\ DOMAIN parsers' = D /\ \A q \in D \ {p} : parsers'[q] = parsers[q]
  BY <1>1, <1>2
<1>4. Besides(v, w, {"stage", "working"}) /\ w.stage = "finished" /\ ~w.working
  BY <1>1, FieldsAre DEF Besides, Shaped
<1>. HIDE DEF w
<1>5. /\ DOMAIN w = DOMAIN NewParser /\ w.chain = v.chain /\ w.declaring = v.declaring
      /\ w.parameters = v.parameters /\ w.depth = v.depth /\ w.output = v.output
      /\ w.frames = v.frames /\ w.request = v.request
      /\ w.ready = v.ready /\ w.parent = v.parent /\ w.answer = v.answer
      /\ w.document = v.document /\ w.fed = v.fed /\ w.content = v.content
  BY <1>1, <1>4, BesidesIs
<1>6. Shaped(w) /\ Once(w) /\ Size(w) = Size(v)
  BY <1>1, <1>5 DEF Shaped, Once, Size
<1>7. Sequence(answers') /\ Len(answers') = Len(answers)
  BY AnswerIs DEF FinishChild, IInv, Tables
<1>8. /\ scenario' = scenario /\ outputs' = outputs /\ entities' = entities /\ values' = values
  BY DEF FinishChild, tables
<1>9. Alone(p)
  <2>1. Len(answers) <= Len(answers')
    BY <1>7, SequenceIs DEF IInv, Tables
  <2>. QED  BY <1>3, <1>7, <1>8, <2>1 DEF Alone
<1>10. v.stage # "none" /\ v.request.name = NONE /\ v.request.answer = 0 /\ ~v.request.delivered
       /\ Size(w) <= scenario.maxDepth + 1
  BY <1>6, WorkingIs DEF IInv
<1>11. AllSound' /\ Related'
  BY <1>3, <1>4, <1>5, <1>6, <1>9, <1>10, OneStep DEF IInv, SameOrigin
<1>12. Tables'
  BY <1>7, <1>8 DEF IInv, Tables
<1>13. ~scenario.orderly => Apart'
  <2>. SUFFICES ASSUME Apart PROVE Apart'
    BY DEF IInv
  <2>1. p = Root => WritersOf(w.ready.text) \subseteq {Root}
    BY <1>5 DEF Apart
  <2>. HIDE DEF v
  <2>. QED  BY <1>3, <1>4, <1>5, <1>8, <1>9, <1>10, <2>1, ApartQuiet DEF v
<1>14. Waits'
  BY <1>3, <1>4, <1>8, <1>9, WaitsKept DEF IInv
<1>. QED  BY <1>8, <1>11, <1>12, <1>13, <1>14 DEF IInv

LEMMA WorkKept ==
  ASSUME IInv, NEW p \in D, Work(p)
  PROVE  IInv'
<1>1. parsers[p].working
  BY DEF Work
<1>2. CASE parsers[p].frames # << >> /\ PopFrame(p)
  BY <1>1, <1>2, PopFrameKeeps
<1>3. CASE parsers[p].frames # << >> /\ (TakeText(p) \/ TakeCharacter(p) \/ TakeGeneral(p))
  BY <1>1, <1>3, TextsKeep
<1>4. CASE BadReference(p) \/ Recursion(p) \/ Deeper(p) \/ Contended(p)
  BY <1>1, <1>4, ErrorsKeep
<1>5. CASE parsers[p].frames # << >> /\ UnknownParameter(p)
  BY <1>1, <1>5, UnknownKeeps
<1>6. CASE parsers[p].frames # << >> /\ InternalParameter(p)
  BY <1>1, <1>6, InternalKeeps
<1>7. CASE parsers[p].frames # << >> /\ ReservedParameter(p)
  BY <1>1, <1>7, ReservedKeeps
<1>8. CASE parsers[p].frames # << >> /\ ExternalParameter(p)
  BY <1>1, <1>8, ExternalKeeps
<1>9. CASE parsers[p].frames # << >> /\ BeginExternal(p)
  BY <1>1, <1>9, BeginKeeps
<1>10. CASE FinishChild(p)
  BY <1>1, <1>10, FinishChildKeeps
<1>. QED  BY <1>2, <1>3, <1>4, <1>5, <1>6, <1>7, <1>8, <1>9, <1>10 DEF Work

-----------------------------------------------------------------------------
(***************************************************************************)
(* Declarations                                                            *)
(***************************************************************************)

LEMMA StoreIs ==
  ASSUME Tables, NEW text, Sequence(text), Store(text)
  PROVE  /\ \E x : values' = Append(values, x) /\ x.text = text
         /\ DOMAIN entities \subseteq DOMAIN entities'
         /\ \A n \in DOMAIN entities' :
              /\ entities'[n].kind = "internal" => Sequence(entities'[n].value)
              /\ entities'[n].kind = "external" => Sequence(scenario.documents[n])
<1>. DEFINE d == Current
            items == [k \in DOMAIN text |-> text[k].item]
            e == [kind |-> "internal", value |-> items]
            more == [n \in DOMAIN entities \cup {d.name} |-> IF n # d.name THEN entities[n] ELSE e]
<1>1. /\ \/ values' = Append(values, [declared |-> FALSE, text |-> text])
         \/ values' = Append(values, [declared |-> TRUE, text |-> text])
      /\ entities' = entities \/ entities' = more
  BY DEF Store
<1>2. \A b : [declared |-> b, text |-> text].text = text
  OBVIOUS
<1>3. Sequence(items)
  <2>1. Len(text) \in Nat /\ DOMAIN text = 1..Len(text)
    BY SequenceIs
  <2>2. items = [k \in 1..Len(text) |-> items[k]]
    BY <2>1
  <2>. HIDE DEF items
  <2>. QED  BY <2>1, <2>2, FunctionIs
<1>. HIDE DEF items
<1>4. e.kind = "internal" /\ e.value = items
  OBVIOUS
<1>. HIDE DEF e, d
<1>5. \A n \in DOMAIN entities :
        /\ entities[n].kind = "internal" => Sequence(entities[n].value)
        /\ entities[n].kind = "external" => Sequence(scenario.documents[n])
  BY DEF Tables
<1>6. CASE entities' = entities
  BY <1>1, <1>2, <1>5, <1>6
<1>7. CASE entities' = more
  <2>1. DOMAIN entities' = DOMAIN entities \cup {d.name}
        /\ \A n \in DOMAIN entities' : entities'[n] = IF n # d.name THEN entities[n] ELSE e
    BY <1>7
  <2>. HIDE DEF more
  <2>2. \A n \in DOMAIN entities' :
          /\ entities'[n].kind = "internal" => Sequence(entities'[n].value)
          /\ entities'[n].kind = "external" => Sequence(scenario.documents[n])
    BY <1>3, <1>4, <1>5, <2>1
  <2>. QED  BY <1>1, <1>2, <2>1, <2>2
<1>. QED  BY <1>1, <1>6, <1>7

LEMMA RootIs ==
  ASSUME IInv
  PROVE  /\ Root \in D /\ Sound(Root, parsers[Root], scenario, Len(answers)) /\ Shaped(parsers[Root])
         /\ Once(parsers[Root]) /\ DOMAIN parsers = D
         /\ parsers[Root].stage # "none" /\ parsers[Root].chain = {} /\ parsers[Root].depth = scenario.depth
         /\ scenario.depth \in Nat /\ scenario.maxDepth \in Nat /\ scenario.depth <= scenario.maxDepth + 1
<1>1. Root \in D
  BY DEF D
<1>2. Sound(Root, parsers[Root], scenario, Len(answers)) /\ Shaped(parsers[Root])
      /\ Once(parsers[Root]) /\ DOMAIN parsers = D
  BY <1>1, SoundOf DEF IInv
<1>. QED  BY <1>1, <1>2, ScenariosAssumption DEF Sound, IInv, Tables

\* The declaring parser goes on to its next declaration.
LEMMA ClosedSound ==
  ASSUME IInv, Alone(Root), NEW w, w = parsers'[Root],
         Besides(parsers[Root], w, {"stage", "working", "ready", "declaring", "parameters", "output",
                                    "prefixed", "standalone"}),
         parsers[Root].frames = << >>, parsers[Root].request.name = NONE,
         w.stage \in {"idle", "failed"}, ~w.working, w.ready = NewParser.ready,
         w.declaring = NONE, w.parameters = << >>
  PROVE  AllSound' /\ Related'
<1>. DEFINE v == parsers[Root]
<1>1. /\ Sound(Root, v, scenario, Len(answers)) /\ Shaped(v) /\ v.stage # "none" /\ v.chain = {}
      /\ v.depth = scenario.depth /\ scenario.depth \in Nat /\ scenario.maxDepth \in Nat
      /\ scenario.depth <= scenario.maxDepth + 1
  BY RootIs
<1>2. /\ DOMAIN w = DOMAIN NewParser /\ w.frames = v.frames /\ w.chain = v.chain /\ w.depth = v.depth
      /\ w.request = v.request /\ w.parent = v.parent /\ w.answer = v.answer
      /\ w.document = v.document /\ w.fed = v.fed /\ w.content = v.content
  BY <1>1, BesidesIs
<1>3. Sequence(<< >>) /\ DOMAIN << >> = {} /\ Len(<< >>) = 0 /\ Range(<< >>) = {}
  BY EmptyIs, SequenceIs DEF Range
<1>4. Shaped(w)
  BY <1>1, <1>2, <1>3, NewParserIs DEF Shaped
<1>5. Once(w)
  BY <1>2, <1>3, NoFrames DEF Once
<1>6. Size(w) <= scenario.maxDepth + 1
  BY <1>1, <1>2, <1>3, NoFrames DEF Size
<1>7. ~w.request.delivered /\ w.request.answer = 0 /\ w.request.name = NONE
  BY <1>1, <1>2 DEF Sound
<1>8. SameOrigin(v, w)
  BY <1>2 DEF SameOrigin
<1>. HIDE DEF v
<1>9. w.stage # "none" /\ w.stage # "scanning" /\ v.stage # "none"
  BY <1>1
<1>. QED  BY <1>4, <1>5, <1>6, <1>7, <1>8, <1>9, OneStep DEF IInv, v

IdleWith(v, b, s) == [Idle(v) EXCEPT !.standalone = b, !.stage = s]

LEMMA IdleIs ==
  ASSUME NEW v, Shaped(v), NEW b, NEW s, s \in {"idle", "failed"}
  PROVE  LET w == IdleWith(v, b, s)
         IN /\ Besides(v, w, {"stage", "working", "ready", "declaring", "parameters", "output",
                              "prefixed", "standalone"})
            /\ w.stage = s /\ ~w.working /\ w.ready = NewParser.ready
            /\ w.declaring = NONE /\ w.parameters = << >>
<1>. DEFINE r == NewParser.ready
<1>. HIDE DEF r
<1>1. Idle(v) = [v EXCEPT !.stage = "idle", !.working = FALSE, !.ready = r,
                          !.declaring = NONE, !.parameters = << >>, !.output = 0, !.prefixed = TRUE]
  BY DEF Idle, r
<1>. QED  BY <1>1, FieldsAre DEF Besides, Shaped, r, IdleWith

LEMMA IdleAgain ==
  ASSUME NEW v, Shaped(v)
  PROVE  LET w == Idle(v)
         IN /\ Besides(v, w, {"stage", "working", "ready", "declaring", "parameters", "output",
                              "prefixed", "standalone"})
            /\ w.stage = "idle" /\ ~w.working /\ w.ready = NewParser.ready
            /\ w.declaring = NONE /\ w.parameters = << >>
<1>. DEFINE r == NewParser.ready
<1>. HIDE DEF r
<1>1. Idle(v) = [v EXCEPT !.stage = "idle", !.working = FALSE, !.ready = r,
                          !.declaring = NONE, !.parameters = << >>, !.output = 0, !.prefixed = TRUE]
  BY DEF Idle, r
<1>. QED  BY <1>1, FieldsAre DEF Besides, Shaped, r

LEMMA StoredTables ==
  ASSUME Tables, NEW text, Sequence(text), Store(text), scenario' = scenario, answers' = answers,
         Sequence(outputs'), \A n \in DOMAIN outputs' : Written(outputs'[n])
  PROVE  Tables'
<1>1. /\ \E x : values' = Append(values, x)
      /\ DOMAIN entities \subseteq DOMAIN entities'
      /\ \A n \in DOMAIN entities' :
           /\ entities'[n].kind = "internal" => Sequence(entities'[n].value)
           /\ entities'[n].kind = "external" => Sequence(scenario.documents[n])
  BY StoreIs
<1>2. Sequence(values')
  BY <1>1, AppendIs DEF Tables
<1>. QED  BY <1>1, <1>2 DEF Tables

LEMMA AtOnceKeeps == ASSUME IInv, DeclareAtOnce PROVE IInv'
<1>. DEFINE v == parsers[Root]
            w == Idle(v)
            text == v.ready.text
<1>1. /\ Root \in D /\ Sound(Root, v, scenario, Len(answers)) /\ Shaped(v)
      /\ v.stage # "none" /\ DOMAIN parsers = D
  BY RootIs
<1>2. v.stage = "expanding" /\ v.frames = << >>
  BY DEF DeclareAtOnce, Expanding
<1>3. CASE Full
  BY <1>1, <1>3, FailKeeps DEF DeclareAtOnce
<1>4. CASE ~Full
  <2>1. /\ Store(text) /\ parsers' = [parsers EXCEPT ![Root] = w]
        /\ scenario' = scenario /\ outputs' = outputs /\ answers' = answers
    BY <1>4 DEF DeclareAtOnce
  <2>2. /\ Besides(v, w, {"stage", "working", "ready", "declaring", "parameters", "output",
                          "prefixed", "standalone"})
        /\ w.stage = "idle" /\ ~w.working /\ w.ready = NewParser.ready
        /\ w.declaring = NONE /\ w.parameters = << >>
    BY <1>1, IdleAgain
  <2>. HIDE DEF w
  <2>3. parsers'[Root] = w /\ DOMAIN parsers' = D /\ \A q \in D \ {Root} : parsers'[q] = parsers[q]
    BY <1>1, <2>1
  <2>4. Alone(Root)
    <3>1. Len(answers) <= Len(answers')
      BY <2>1, SequenceIs DEF IInv, Tables
    <3>. QED  BY <1>1, <2>1, <2>3, <3>1 DEF Alone, IInv, Tables
  <2>5. v.request.name = NONE
    BY <1>1, <1>2 DEF Sound, Asks
  <2>6. AllSound' /\ Related'
    BY <1>2, <2>2, <2>3, <2>4, <2>5, ClosedSound
  <2>7. Sequence(text)
    BY <1>1 DEF Shaped
  <2>8. PICK x : values' = Append(values, x) /\ x.text = text
    BY <2>1, <2>7, StoreIs DEF IInv
  <2>9. Tables'
    BY <2>1, <2>7, WrittenIs, StoredTables DEF IInv
  <2>10. ~scenario.orderly => Apart'
    <3>. SUFFICES ASSUME Apart PROVE Apart'
      BY DEF IInv
    <3>1. KeepOutputs
      BY <2>1, <2>4, AloneKeeps
    <3>2. GoodWriters
      BY <2>1 DEF GoodWriters
    <3>3. w.ready.text = << >> /\ WritersOf(<< >>) = {}
      BY <2>2, NewParserIs, SequenceIs, EmptyIs DEF WritersOf
    <3>4. \A c \in WritersOf(x.text) \ {Root} :
            parsers[Root].stage = "value" /\ c \in Children /\ MadeFor(c, parsers[Root].output)
      BY <2>8 DEF Apart
    <3>5. Sequence(values)
      BY DEF IInv, Tables
    <3>. QED  BY <2>2, <2>3, <2>8, <3>1, <3>2, <3>3, <3>4, <3>5, ApartValue
  <2>11. Waits'
    BY <2>2, <2>3 DEF Waits
  <2>. QED  BY <2>1, <2>6, <2>9, <2>10, <2>11 DEF IInv
<1>. QED  BY <1>3, <1>4

LEMMA FinishKeeps == ASSUME IInv, FinishDeclaration PROVE IInv'
<1>. DEFINE v == parsers[Root]
            m == v.output
            text == outputs[m].text
            b == outputs[m].standalone
            s == IF Current.suffix THEN "failed" ELSE "idle"
            w == IdleWith(v, b, s)
            o == [outputs[m] EXCEPT !.text = << >>]
<1>1. /\ Root \in D /\ Sound(Root, v, scenario, Len(answers)) /\ Shaped(v)
      /\ v.stage # "none" /\ DOMAIN parsers = D
  BY RootIs
<1>2. v.stage = "value" /\ v.working /\ v.frames = << >>
  BY DEF FinishDeclaration
<1>3. CASE Full
  BY <1>1, <1>3, FailKeeps DEF FinishDeclaration
<1>4. CASE ~Full
  <2>1. /\ Store(text) /\ parsers' = [parsers EXCEPT ![Root] = w]
        /\ scenario' = scenario /\ outputs' = [outputs EXCEPT ![m] = o] /\ answers' = answers
    BY <1>4 DEF FinishDeclaration, IdleWith
  <2>. HIDE DEF b
  <2>2. s \in {"idle", "failed"}
    OBVIOUS
  <2>. HIDE DEF s
  <2>3. /\ Besides(v, w, {"stage", "working", "ready", "declaring", "parameters", "output",
                          "prefixed", "standalone"})
        /\ w.stage = s /\ ~w.working /\ w.ready = NewParser.ready
        /\ w.declaring = NONE /\ w.parameters = << >>
    <3>1. Shaped(v)
      BY <1>1
    <3>. HIDE DEF v
    <3>. QED  BY ONLY <2>2, <3>1, IdleIs DEF w
  <2>. HIDE DEF w
  <2>4. parsers'[Root] = w /\ DOMAIN parsers' = D /\ \A q \in D \ {Root} : parsers'[q] = parsers[q]
    BY <1>1, <2>1
  <2>5. Alone(Root)
    <3>1. Len(answers) <= Len(answers')
      BY <2>1, SequenceIs DEF IInv, Tables
    <3>. QED  BY <1>1, <2>1, <2>4, <3>1 DEF Alone, IInv, Tables
  <2>6. v.request.name = NONE
    BY <1>1, <1>2 DEF Sound, Asks
  <2>7. AllSound' /\ Related'
    BY <1>2, <2>2, <2>3, <2>4, <2>5, <2>6, ClosedSound
  <2>8. /\ Sequence(outputs) /\ Len(outputs) \in Nat /\ DOMAIN outputs = 1..Len(outputs)
        /\ \A n \in DOMAIN outputs : Written(outputs[n])
    BY WrittenIs DEF IInv
  <2>9. m \in DOMAIN outputs
    BY <1>2, <2>8 DEF IInv, Waits
  <2>10. Sequence(text) /\ Written(outputs[m])
    BY <2>8, <2>9 DEF Written
  <2>11. Written(o) /\ o.text = << >>
    BY <2>10, EmptyIs DEF Written
  <2>. HIDE DEF o
  <2>12. /\ Sequence(outputs') /\ Len(outputs') = Len(outputs) /\ DOMAIN outputs' = DOMAIN outputs
         /\ \A n \in DOMAIN outputs : outputs'[n] = IF n = m THEN o ELSE outputs[n]
    <3>1. Sequence(outputs) /\ outputs' = [outputs EXCEPT ![m] = o]
      BY <2>1, <2>8
    <3>. HIDE DEF m
    <3>. QED  BY ONLY <3>1, UpdateAny
  <2>13. \A n \in DOMAIN outputs' : Written(outputs'[n])
    BY <2>8, <2>11, <2>12
  <2>14. PICK x : values' = Append(values, x) /\ x.text = text
    BY <2>1, <2>10, StoreIs DEF IInv
  <2>15. Tables'
    BY <2>1, <2>10, <2>12, <2>13, StoredTables DEF IInv
  <2>16. ~scenario.orderly => Apart'
    <3>. SUFFICES ASSUME Apart PROVE Apart'
      BY DEF IInv
    <3>1. KeepOutputs
      BY <2>5, <2>12, AloneKeeps
    <3>2. WritersOf(<< >>) = {}
      BY SequenceIs, EmptyIs DEF WritersOf
    <3>3. GoodWriters
      BY <2>11, <2>12, <3>2 DEF GoodWriters
    <3>4. w.ready.text = << >>
      BY <2>3, NewParserIs
    <3>5. \A c \in WritersOf(x.text) \ {Root} :
            parsers[Root].stage = "value" /\ c \in Children /\ MadeFor(c, parsers[Root].output)
      BY <1>2, <2>9, <2>14 DEF Apart
    <3>6. Sequence(values)
      BY DEF IInv, Tables
    <3>7. parsers'[Root].stage # "value" /\ WritersOf(parsers'[Root].ready.text) \subseteq {Root}
      BY <2>2, <2>3, <2>4, <3>2, <3>4
    <3>. QED  BY <2>14, <3>1, <3>3, <3>5, <3>6, <3>7, ApartValue
  <2>17. Waits'
    BY <2>2, <2>3, <2>4 DEF Waits
  <2>. QED  BY <2>1, <2>7, <2>15, <2>16, <2>17 DEF IInv
<1>. QED  BY <1>3, <1>4

LEMMA DeclareKeeps == ASSUME IInv, Declare PROVE IInv'
<1>. DEFINE v == parsers[Root]
            d == Current
            f == <<FrameOf(d.items, NONE, d.normalize)>>
            own == IF d.parameter /\ ~IsKnown(d) THEN d.name ELSE NONE
            ps == d.parameters
            w == [v EXCEPT !.stage = "expanding", !.working = TRUE, !.frames = f,
                           !.parameters = ps, !.declaring = own]
<1>1. /\ Root \in D /\ Sound(Root, v, scenario, Len(answers)) /\ Shaped(v)
      /\ v.stage # "none" /\ DOMAIN parsers = D /\ v.chain = {} /\ v.depth = scenario.depth
      /\ scenario.depth \in Nat /\ scenario.maxDepth \in Nat
  BY RootIs
<1>2. /\ v.stage = "idle" /\ Len(values) < Len(scenario.literals)
      /\ scenario' = scenario /\ outputs' = outputs /\ entities' = entities /\ answers' = answers
  BY DEF Declare
<1>3. Sequence(values) /\ Len(values) \in Nat /\ Sequence(answers) /\ Len(answers) \in Nat
  BY SequenceIs DEF IInv, Tables
<1>4. CASE skipping
  <2>. DEFINE x == [declared |-> FALSE, text |-> << >>]
  <2>1. parsers' = parsers /\ values' = Append(values, x)
    BY <1>4 DEF Declare
  <2>2. x.text = << >>
    OBVIOUS
  <2>. HIDE DEF x
  <2>3. Tables' /\ AllSound' /\ Related' /\ Waits'
    BY <1>2, <1>3, <2>1, AppendIs DEF IInv, Tables, AllSound, Related, Waiting, Waits
  <2>4. ~scenario.orderly => Apart'
    <3>. SUFFICES ASSUME Apart PROVE Apart'
      BY DEF IInv
    <3>1. WritersOf(x.text) = {}
      BY <2>2, SequenceIs, EmptyIs DEF WritersOf
    <3>2. KeepOutputs /\ GoodWriters
      BY <1>2, <2>1 DEF KeepOutputs, GoodWriters, Apart
    <3>3. WritersOf(parsers'[Root].ready.text) \subseteq {Root} /\ parsers'[Root].stage # "value"
      BY <1>2, <2>1 DEF Apart
    <3>. QED  BY <1>3, <2>1, <3>1, <3>2, <3>3, ApartValue
  <2>. QED  BY <1>2, <2>3, <2>4 DEF IInv
<1>5. CASE ~skipping
  <2>1. parsers' = [parsers EXCEPT ![Root] = w] /\ values' = values
    BY <1>5 DEF Declare
  <2>2. /\ Sequence(d.items) /\ Sequence(ps) /\ Range(ps) \subseteq DOMAIN scenario.entities
        /\ scenario.depth + Len(ps) <= scenario.maxDepth + 1
        /\ \A i, j \in DOMAIN ps : ps[i] = ps[j] => i = j
    <3>1. scenario \in Scenarios
      BY DEF IInv, Tables
    <3>2. Len(scenario.literals) \in Nat
      BY <3>1, ScenariosAssumption, IsSequenceIs, SequenceIs
    <3>3. Len(values) + 1 \in 1..Len(scenario.literals)
      BY <1>2, <1>3, <3>2
    <3>4. /\ IsSequence(d.items) /\ ps \in Seq(DOMAIN scenario.entities)
          /\ scenario.depth + Len(ps) <= scenario.maxDepth + 1
          /\ \A i, j \in 1..Len(ps) : ps[i] = ps[j] => i = j
      BY <3>1, <3>3, ScenariosAssumption DEF Current
    <3>. HIDE DEF ps
    <3>5. DOMAIN ps = 1..Len(ps) /\ Range(ps) \subseteq DOMAIN scenario.entities /\ Sequence(ps)
      <4>1. Sequence(ps)
        BY <3>4 DEF Sequence
      <4>2. DOMAIN ps = 1..Len(ps)
        BY <4>1, SequenceIs
      <4>3. \A i \in 1..Len(ps) : ps[i] \in DOMAIN scenario.entities
        BY <3>4, ElementOfSeq
      <4>. QED  BY <4>1, <4>2, <4>3 DEF Range
    <3>. QED  BY <3>4, <3>5, IsSequenceIs
  <2>3. own = NONE \/ own \notin DOMAIN entities
    BY DEF IsKnown
  <2>. HIDE DEF ps, own
  <2>4. Framed(f) /\ FrameNames(f) = {} /\ NamedIn(f) = 0 /\ \A i, j \in DOMAIN f : i = j
    BY <2>2, OneFrame
  <2>. HIDE DEF f, d
  <2>5. /\ Besides(v, w, {"stage", "working", "frames", "parameters", "declaring"})
        /\ w.stage = "expanding" /\ w.working /\ w.frames = f /\ w.parameters = ps /\ w.declaring = own
    BY <1>1, FieldsAre DEF Besides, Shaped
  <2>. HIDE DEF w
  <2>6. parsers'[Root] = w /\ DOMAIN parsers' = D /\ \A q \in D \ {Root} : parsers'[q] = parsers[q]
    BY <1>1, <2>1
  <2>7. /\ DOMAIN w = DOMAIN NewParser /\ w.chain = v.chain /\ w.depth = v.depth /\ w.output = v.output
        /\ w.request = v.request /\ w.ready = v.ready /\ w.parent = v.parent /\ w.answer = v.answer
        /\ w.document = v.document /\ w.fed = v.fed /\ w.content = v.content
    BY <1>1, <2>5, BesidesIs
  <2>8. Shaped(w)
    BY <1>1, <2>2, <2>4, <2>5, <2>7 DEF Shaped
  <2>9. Once(w)
    <3>1. w.declaring = NONE \/ w.declaring \notin Range(ps)
      BY <2>2, <2>3, <2>5 DEF IInv, Tables
    <3>. QED  BY <1>1, <2>2, <2>4, <2>5, <2>7, <3>1 DEF Once
  <2>10. Size(w) <= scenario.maxDepth + 1
    <3>1. Len(ps) \in Nat
      BY <2>2, SequenceIs
    <3>. QED  BY <1>1, <2>2, <2>4, <2>5, <2>7, <3>1 DEF Size
  <2>11. Alone(Root)
    <3>1. Len(answers) <= Len(answers')
      BY <1>2, <1>3
    <3>. QED  BY <1>1, <1>2, <1>3, <2>6, <3>1 DEF Alone
  <2>12. w.request.name = NONE /\ ~w.request.delivered /\ w.request.answer = 0
    BY <1>1, <1>2, <2>7 DEF Sound, Asks
  <2>13. SameOrigin(v, w)
    BY <2>7 DEF SameOrigin
  <2>14. AllSound' /\ Related'
    <3>. HIDE DEF v
    <3>. QED  BY <1>1, <2>5, <2>6, <2>8, <2>9, <2>10, <2>11, <2>12, <2>13, OneStep DEF IInv, v
  <2>15. Tables'
    BY <1>2, <2>1 DEF IInv, Tables
  <2>16. ~scenario.orderly => Apart'
    <3>. SUFFICES ASSUME Apart PROVE Apart'
      BY DEF IInv
    <3>1. WritersOf(w.ready.text) \subseteq {Root}
      BY <2>7 DEF Apart
    <3>. HIDE DEF v
    <3>. QED  BY <1>2, <2>1, <2>5, <2>6, <2>7, <2>11, <3>1, ApartQuiet DEF v
  <2>17. Waits'
    BY <2>5, <2>6 DEF Waits
  <2>. QED  BY <1>2, <2>14, <2>15, <2>16, <2>17 DEF IInv
<1>. QED  BY <1>4, <1>5

-----------------------------------------------------------------------------
(***************************************************************************)
(* Calls and children                                                      *)
(***************************************************************************)

\* What only changes fields that nothing above is about.
LEMMA AsideKeeps ==
  ASSUME IInv, NEW p \in D, parsers[p].stage # "none", NEW w, parsers' = [parsers EXCEPT ![p] = w],
         Besides(parsers[p], w, {"standalone", "prefixed", "fed", "final", "content", "declared",
                                 "initialized", "encoded"}),
         w.fed \in Nat, w.content \in Nat,
         scenario' = scenario, entities' = entities, values' = values,
         Sequence(answers'), Len(answers') = Len(answers),
         Sequence(outputs'), DOMAIN outputs' = DOMAIN outputs, Len(outputs') = Len(outputs),
         \A n \in DOMAIN outputs : Written(outputs'[n]) /\ outputs'[n].text = outputs[n].text
  PROVE  IInv'
<1>. DEFINE v == parsers[p]
<1>1. Sound(p, v, scenario, Len(answers)) /\ Shaped(v) /\ Once(v) /\ DOMAIN parsers = D
  BY SoundOf DEF IInv
<1>2. parsers'[p] = w /\ DOMAIN parsers' = D /\ \A q \in D \ {p} : parsers'[q] = parsers[q]
  BY <1>1
<1>3. /\ DOMAIN w = DOMAIN NewParser /\ w.stage = v.stage /\ w.working = v.working
      /\ w.frames = v.frames /\ w.chain = v.chain /\ w.declaring = v.declaring
      /\ w.parameters = v.parameters /\ w.depth = v.depth /\ w.output = v.output
      /\ w.request = v.request /\ w.ready = v.ready /\ w.parent = v.parent
      /\ w.answer = v.answer /\ w.document = v.document
  <2>1. Besides(v, w, {"standalone", "prefixed", "fed", "final", "content", "declared",
                       "initialized", "encoded"})
    OBVIOUS
  <2>. HIDE DEF v
  <2>. QED  BY <1>1, <2>1, BesidesIs
<1>4. Shaped(w) /\ Once(w) /\ Size(w) = Size(v) /\ Names(w) = Names(v)
  BY <1>1, <1>3 DEF Shaped, Once, Size, Names
<1>5. SameOrigin(v, w) /\ SameShown(v, w)
  BY <1>3, <1>4 DEF SameOrigin, SameShown
<1>6. Alone(p) /\ Len(answers) \in Nat /\ Len(answers') \in Nat /\ Len(answers) <= Len(answers')
  <2>1. Len(answers) <= Len(answers') /\ Len(answers) \in Nat
    BY SequenceIs DEF IInv, Tables
  <2>. QED  BY <1>2, <2>1 DEF Alone
<1>7. Sound(p, w, scenario, Len(answers'))
  <2>1. Asks(v, scenario) => Asks(w, scenario)
    BY <1>3, <1>4 DEF Asks
  <2>2. /\ w.request.name # NONE => Asks(w, scenario)
        /\ w.request.delivered => w.request.name # NONE
        /\ w.request.answer \in 0..Len(answers') /\ (w.request.answer # 0 <=> w.request.delivered)
        /\ w.working => w.stage \in {"expanding", "value"}
        /\ p # Root => w.stage \notin {"idle", "expanding"}
        /\ Size(w) <= scenario.maxDepth + 1
    BY <1>1, <1>3, <1>4, <2>1 DEF Sound
  <2>3. v.stage # "none" /\ w.stage # "none" /\ (w.stage = "scanning" => v.stage = "scanning")
    BY <1>3
  <2>. HIDE DEF v
  <2>. QED  BY <1>1, <1>4, <1>5, <1>6, <2>2, <2>3, SoundStep
<1>8. AllSound'
  BY <1>2, <1>6, <1>7, AloneSound DEF IInv
<1>9. Related'
  BY <1>2, <1>5, <1>6, AloneRelated DEF IInv
<1>10. Tables'
  BY DEF IInv, Tables
<1>11. ~scenario.orderly => Apart'
  <2>. SUFFICES ASSUME Apart PROVE Apart'
    BY DEF IInv
  <2>. HIDE DEF v
  <2>1. KeepOutputs
    BY <1>2, <1>3, <1>6, AloneKeeps DEF v
  <2>2. GoodWriters
    BY SameTexts
  <2>3. Root \in D
    BY DEF D
  <2>4. OwnOutput /\ WritersOf(parsers'[Root].ready.text) \subseteq {Root}
    BY <1>2, <1>3, <2>3 DEF OwnOutput, Apart, v
  <2>. QED  BY <2>1, <2>2, <2>4, ApartWrite
<1>12. Waits'
  BY <1>2, <1>3, <1>6, WaitsKept DEF IInv
<1>. QED  BY <1>8, <1>9, <1>10, <1>11, <1>12 DEF IInv

LEMMA PrefixKeeps == ASSUME IInv, SendPrefix PROVE IInv'
<1>. DEFINE v == parsers[Root]
            w == [v EXCEPT !.prefixed = TRUE]
<1>1. Root \in D /\ Shaped(v) /\ v.stage # "none"
  BY RootIs
<1>2. /\ parsers' = [parsers EXCEPT ![Root] = w] /\ scenario' = scenario /\ entities' = entities
      /\ values' = values /\ answers' = answers /\ outputs' = outputs
  BY DEF SendPrefix, tables
<1>3. Besides(v, w, {"prefixed"})
  BY <1>1, FieldsAre DEF Besides, Shaped
<1>. HIDE DEF w
<1>4. Besides(v, w, {"standalone", "prefixed", "fed", "final", "content", "declared",
                     "initialized", "encoded"})
  BY <1>3 DEF Besides
<1>5. w.fed \in Nat /\ w.content \in Nat
  BY <1>1, <1>3, BesidesIs DEF Shaped
<1>. HIDE DEF v
<1>. QED  BY <1>1, <1>2, <1>4, <1>5, WrittenIs, AsideKeeps DEF IInv, Tables, v

LEMMA ScanningIs ==
  ASSUME IInv, NEW c \in Children, parsers[c].stage = "scanning"
  PROVE  /\ c \in D /\ c # Root /\ Shaped(parsers[c]) /\ parsers[c].fed \in Nat
         /\ parsers[c].content \in Nat
         /\ Sequence(Document(c)) /\ Len(Document(c)) \in Nat
         /\ parsers[c].request.name = NONE /\ ~parsers[c].request.delivered
         /\ parsers[c].request.answer = 0
<1>1. c \in D /\ c # Root
  BY SlotsAssumption DEF D
<1>2. Sound(c, parsers[c], scenario, Len(answers)) /\ Shaped(parsers[c])
  BY <1>1, SoundOf DEF IInv
<1>3. Sequence(Document(c))
  BY <1>2 DEF Sound, Document
<1>. QED  BY <1>1, <1>2, <1>3, SequenceIs DEF Sound, Shaped, Asks

LEMMA MarkedIs ==
  ASSUME IInv, NEW c, NEW ready, MarkRead(c, ready)
  PROVE  Sequence(answers') /\ Len(answers') = Len(answers)
<1>1. answers' = answers \/ answers' = Answer(c, "opened")
  BY DEF MarkRead
<1>. QED  BY <1>1, AnswerIs DEF IInv, Tables

LEMMA FeedKeeps == ASSUME IInv, NEW c \in Children, Feed(c) PROVE IInv'
<1>. DEFINE v == parsers[c]
<1>1. v.stage = "scanning"
  BY DEF Feed
<1>2. c \in D /\ Shaped(v) /\ v.fed \in Nat /\ v.content \in Nat /\ Len(Document(c)) \in Nat
  BY <1>1, ScanningIs
<1>3. PICK n \in {k \in {0, 1, Len(Document(c)) - v.fed} : v.fed + k <= Len(Document(c))}, last \in BOOLEAN :
        /\ parsers' = [parsers EXCEPT ![c].fed = @ + n, ![c].final = last,
                                      ![c].initialized = @ \/ parsers[c].encoded]
        /\ MarkRead(c, parsers[c].encoded)
  BY DEF Feed
<1>. DEFINE fed == v.fed + n
            known == v.initialized \/ v.encoded
            w == [v EXCEPT !.fed = fed, !.final = last, !.initialized = known]
<1>4. fed \in Nat
  BY <1>2, <1>3
<1>5. parsers' = [parsers EXCEPT ![c] = w]
  BY <1>3
<1>6. /\ scenario' = scenario /\ entities' = entities /\ values' = values /\ outputs' = outputs
  BY DEF Feed, tables
<1>. HIDE DEF fed, known
<1>7. Besides(v, w, {"fed", "final", "initialized"}) /\ w.fed = fed
  BY <1>2, FieldsAre DEF Besides, Shaped
<1>. HIDE DEF w
<1>8. Besides(v, w, {"standalone", "prefixed", "fed", "final", "content", "declared",
                     "initialized", "encoded"})
  BY <1>7 DEF Besides
<1>9. w.content \in Nat
  BY <1>2, <1>7, BesidesIs
<1>10. Sequence(answers') /\ Len(answers') = Len(answers)
  BY <1>3, MarkedIs
<1>. HIDE DEF v
<1>. QED  BY <1>1, <1>2, <1>4, <1>5, <1>6, <1>7, <1>8, <1>9, <1>10, WrittenIs, AsideKeeps DEF IInv, v

LEMMA InstallKeeps == ASSUME IInv, NEW c \in Children, InstallMap(c) PROVE IInv'
<1>. DEFINE v == parsers[c]
            w == [v EXCEPT !.encoded = TRUE, !.initialized = TRUE]
<1>1. v.stage = "scanning"
  BY DEF InstallMap
<1>2. c \in D /\ Shaped(v) /\ v.fed \in Nat /\ v.content \in Nat
  BY <1>1, ScanningIs
<1>3. parsers' = [parsers EXCEPT ![c] = w] /\ MarkRead(c, TRUE)
  BY DEF InstallMap
<1>4. /\ scenario' = scenario /\ entities' = entities /\ values' = values /\ outputs' = outputs
  BY DEF InstallMap, tables
<1>5. Besides(v, w, {"encoded", "initialized"})
  BY <1>2, FieldsAre DEF Besides, Shaped
<1>. HIDE DEF w
<1>6. Besides(v, w, {"standalone", "prefixed", "fed", "final", "content", "declared",
                     "initialized", "encoded"})
  BY <1>5 DEF Besides
<1>7. w.content \in Nat /\ w.fed \in Nat
  BY <1>2, <1>5, BesidesIs
<1>8. Sequence(answers') /\ Len(answers') = Len(answers)
  BY <1>3, MarkedIs
<1>. HIDE DEF v
<1>. QED  BY <1>1, <1>2, <1>3, <1>4, <1>6, <1>7, <1>8, WrittenIs, AsideKeeps DEF IInv, v

\* A step that finds the output's lock held.
LEMMA RefusedKeeps ==
  ASSUME IInv, NEW p \in D, ResumeRefused(p) \/ (p \in Children /\ DeclarationRefused(p))
  PROVE  IInv'
<1>1. parsers[p].stage # "none" /\ \E kind : Fail(p, kind)
  BY DEF ResumeRefused, DeclarationRefused, AtDeclaration, Called, Scans
<1>. QED  BY <1>1, FailKeeps

LEMMA StopsKeep ==
  ASSUME IInv, NEW c \in Children, OverLimit(c) \/ LexicalError(c)
  PROVE  IInv'
<1>1. parsers[c].stage = "scanning" /\ \E kind : Fail(c, kind)
  BY DEF OverLimit, LexicalError, Scans
<1>2. c \in D
  BY DEF D
<1>. QED  BY <1>1, <1>2, FailKeeps

LEMMA XmlKeeps == ASSUME IInv, NEW c \in Children, XmlDeclaration(c) PROVE IInv'
<1>. DEFINE v == parsers[c]
            m == v.output
            yes == outputs[m].standalone \/ v.standalone \/ Document(c)[Stop(c)][2] = "yes"
            stop == Stop(c)
            w == [v EXCEPT !.standalone = yes, !.declared = TRUE, !.content = stop]
            o == [outputs[m] EXCEPT !.standalone = yes]
<1>1. v.stage = "scanning" /\ Stops(c) # {}
  BY DEF XmlDeclaration, AtDeclaration, Scans
<1>2. c \in D /\ Shaped(v) /\ v.fed \in Nat /\ v.content \in Nat
  BY <1>1, ScanningIs
<1>3. /\ parsers' = [parsers EXCEPT ![c] = w] /\ outputs' = [outputs EXCEPT ![m] = o]
      /\ scenario' = scenario /\ entities' = entities /\ values' = values
      /\ answers' = Answer(c, "declared")
  BY DEF XmlDeclaration, tables
<1>4. stop \in Nat
  <2>1. Stops(c) \in SUBSET Nat
    BY <1>2 DEF Stops
  <2>2. \E k \in Stops(c) : \A j \in Stops(c) : k <= j
    BY <1>1, <2>1, Least
  <2>3. Stop(c) \in Stops(c)
    BY <2>2 DEF Stop
  <2>. QED  BY <2>1, <2>3
<1>5. Sequence(answers') /\ Len(answers') = Len(answers)
  BY <1>3, AnswerIs DEF IInv
<1>6. /\ Sequence(outputs) /\ DOMAIN outputs = 1..Len(outputs)
      /\ \A n \in DOMAIN outputs : Written(outputs[n])
  BY WrittenIs DEF IInv
<1>. HIDE DEF yes, stop
<1>7. m \in DOMAIN outputs => Written(o) /\ o.text = outputs[m].text
  BY <1>6 DEF Written
<1>. HIDE DEF o
<1>8. /\ Sequence(outputs') /\ Len(outputs') = Len(outputs) /\ DOMAIN outputs' = DOMAIN outputs
      /\ \A n \in DOMAIN outputs : outputs'[n] = IF n = m THEN o ELSE outputs[n]
  <2>1. Sequence(outputs) /\ outputs' = [outputs EXCEPT ![m] = o]
    BY <1>3, <1>6
  <2>. HIDE DEF m
  <2>. QED  BY ONLY <2>1, UpdateAny
<1>9. \A n \in DOMAIN outputs : Written(outputs'[n]) /\ outputs'[n].text = outputs[n].text
  BY <1>6, <1>7, <1>8
<1>10. Besides(v, w, {"standalone", "declared", "content"}) /\ w.content = stop
  BY <1>2, FieldsAre DEF Besides, Shaped
<1>. HIDE DEF w
<1>11. Besides(v, w, {"standalone", "prefixed", "fed", "final", "content", "declared",
                      "initialized", "encoded"})
  BY <1>10 DEF Besides
<1>12. w.content \in Nat /\ w.fed \in Nat
  BY <1>2, <1>4, <1>10, BesidesIs
<1>. HIDE DEF v
<1>. QED  BY <1>1, <1>2, <1>3, <1>5, <1>8, <1>9, <1>11, <1>12, AsideKeeps DEF v

LEMMA ScanCompleteKeeps == ASSUME IInv, NEW c \in Children, ScanComplete(c) PROVE IInv'
<1>. DEFINE v == parsers[c]
            items == Drop(Document(c), v.content)
            f == <<FrameOf(items, NONE, TRUE)>>
            w == [v EXCEPT !.stage = "value", !.working = TRUE, !.frames = f]
<1>1. v.stage = "scanning"
  BY DEF ScanComplete, Scans
<1>2. /\ c \in D /\ c # Root /\ Shaped(v) /\ v.content \in Nat /\ Sequence(Document(c))
      /\ v.request.name = NONE /\ ~v.request.delivered /\ v.request.answer = 0
  BY <1>1, ScanningIs
<1>3. /\ parsers' = [parsers EXCEPT ![c] = w] /\ outputs' = outputs
      /\ scenario' = scenario /\ entities' = entities /\ values' = values /\ answers' = answers
  BY DEF ScanComplete, tables
<1>4. Sound(c, v, scenario, Len(answers)) /\ Once(v) /\ DOMAIN parsers = D
  BY <1>2, SoundOf DEF IInv
<1>5. Framed(f) /\ FrameNames(f) = {} /\ NamedIn(f) = 0 /\ \A i, j \in DOMAIN f : i = j
  <2>1. Sequence(items)
    BY <1>2, DropIs
  <2>. HIDE DEF items
  <2>. QED  BY <2>1, OneFrame
<1>. HIDE DEF f
<1>6. Besides(v, w, {"stage", "working", "frames"}) /\ w.stage = "value" /\ w.working /\ w.frames = f
  BY <1>2, FieldsAre DEF Besides, Shaped
<1>7. parsers'[c] = w /\ DOMAIN parsers' = D /\ \A q \in D \ {c} : parsers'[q] = parsers[q]
  BY <1>2, <1>3, <1>4
<1>. HIDE DEF w
<1>8. /\ DOMAIN w = DOMAIN NewParser /\ w.chain = v.chain /\ w.declaring = v.declaring
      /\ w.parameters = v.parameters /\ w.depth = v.depth /\ w.output = v.output
      /\ w.request = v.request /\ w.ready = v.ready /\ w.parent = v.parent
      /\ w.answer = v.answer /\ w.document = v.document /\ w.fed = v.fed /\ w.content = v.content
  BY <1>2, <1>6, BesidesIs
<1>9. Shaped(w) /\ Once(w)
  BY <1>2, <1>4, <1>5, <1>6, <1>8 DEF Shaped, Once
<1>10. Size(w) <= Size(v)
  <2>1. NamedIn(v.frames) \in Nat /\ v.depth \in Nat /\ Len(v.parameters) \in Nat
    BY <1>2, SizeIs
  <2>. QED  BY <1>5, <1>6, <1>8, <2>1 DEF Size
<1>11. Size(w) <= scenario.maxDepth + 1
  BY <1>1, <1>2, <1>9, <1>10, SizeBound
<1>12. Alone(c)
  <2>1. Len(answers) <= Len(answers')
    BY <1>3, SequenceIs DEF IInv, Tables
  <2>. QED  BY <1>2, <1>3, <1>7, <2>1 DEF Alone, IInv, Tables
<1>13. SameOrigin(v, w)
  BY <1>8 DEF SameOrigin
<1>14. /\ v.stage # "none" /\ w.stage # "none" /\ w.stage \notin {"idle", "expanding"}
       /\ w.stage # "scanning" /\ w.stage \in {"expanding", "value"}
       /\ w.request.name = NONE /\ ~w.request.delivered /\ w.request.answer = 0
  BY <1>1, <1>2, <1>6, <1>8
<1>. HIDE DEF v
<1>15. AllSound' /\ Related'
  BY <1>7, <1>9, <1>11, <1>12, <1>13, <1>14, OneStep DEF IInv, v
<1>16. Tables'
  BY <1>3 DEF IInv, Tables
<1>17. ~scenario.orderly => Apart'
  BY <1>2, <1>3, <1>7, <1>8, <1>12, <1>14, ApartQuiet DEF IInv, v
<1>18. Waits'
  BY <1>2, <1>3, <1>12, WaitsKept DEF IInv
<1>. QED  BY <1>3, <1>15, <1>16, <1>17, <1>18 DEF IInv

LEMMA DeliverKeeps == ASSUME IInv, NEW p \in D, Deliver(p) PROVE IInv'
<1>. DEFINE v == parsers[p]
            n == Len(answers) + 1
            r == [v.request EXCEPT !.delivered = TRUE, !.answer = n]
            w == [v EXCEPT !.request = r]
<1>1. Sound(p, v, scenario, Len(answers)) /\ Shaped(v) /\ Once(v) /\ DOMAIN parsers = D
  BY SoundOf DEF IInv
<1>2. v.stage = "value" /\ ~v.working /\ v.request.name # NONE
  BY DEF Deliver, Called
<1>3. /\ parsers' = [parsers EXCEPT ![p] = w] /\ outputs' = outputs
      /\ scenario' = scenario /\ entities' = entities /\ values' = values
      /\ answers' = Append(answers, "unread")
  BY DEF Deliver, tables
<1>4. /\ Len(answers) \in Nat /\ n \in Nat /\ Len(answers') = n /\ Sequence(answers')
      /\ Len(answers) <= Len(answers') /\ n \in 0..Len(answers') /\ n # 0 /\ n \notin 1..Len(answers)
  <2>1. Sequence(answers) /\ Len(answers) \in Nat
    BY SequenceIs DEF IInv, Tables
  <2>2. Sequence(Append(answers, "unread")) /\ Len(Append(answers, "unread")) = n
    BY <2>1, AppendIs
  <2>. QED  BY <1>3, <2>1, <2>2
<1>. HIDE DEF n
<1>5. /\ r.delivered /\ r.answer = n /\ r.name = v.request.name
      /\ DOMAIN r = {"name", "delivered", "answer"}
  BY <1>1 DEF Shaped
<1>. HIDE DEF r
<1>6. Besides(v, w, {"request"}) /\ w.request = r
  BY <1>1, FieldsAre DEF Besides, Shaped
<1>7. parsers'[p] = w /\ DOMAIN parsers' = D /\ \A q \in D \ {p} : parsers'[q] = parsers[q]
  BY <1>1, <1>3
<1>. HIDE DEF w
<1>8. /\ DOMAIN w = DOMAIN NewParser /\ w.stage = v.stage /\ w.working = v.working
      /\ w.frames = v.frames /\ w.chain = v.chain /\ w.declaring = v.declaring
      /\ w.parameters = v.parameters /\ w.depth = v.depth /\ w.output = v.output
      /\ w.ready = v.ready /\ w.parent = v.parent /\ w.answer = v.answer
      /\ w.document = v.document /\ w.fed = v.fed /\ w.content = v.content
  BY <1>1, <1>6, BesidesIs
<1>9. Shaped(w) /\ Once(w) /\ Size(w) = Size(v) /\ Names(w) = Names(v)
  BY <1>1, <1>5, <1>6, <1>8 DEF Shaped, Once, Size, Names
<1>10. Alone(p)
  BY <1>3, <1>4, <1>7 DEF Alone
<1>11. Asks(w, scenario)
  <2>1. Asks(v, scenario)
    BY <1>1, <1>2 DEF Sound
  <2>. QED  BY <1>5, <1>6, <1>8, <1>9, <2>1 DEF Asks
<1>12. SameOrigin(v, w) /\ v.stage # "none" /\ w.stage = "value" /\ ~w.working
       /\ w.request.delivered /\ w.request.name # NONE /\ w.request.answer = n
       /\ Size(w) <= scenario.maxDepth + 1
  BY <1>1, <1>2, <1>5, <1>6, <1>8, <1>9 DEF SameOrigin, Sound
<1>. HIDE DEF v
<1>13. Sound(p, w, scenario, Len(answers'))
  BY <1>1, <1>4, <1>9, <1>11, <1>12, SoundStep
<1>14. AllSound'
  BY <1>7, <1>10, <1>13, AloneSound DEF IInv
<1>15. Related'
  BY <1>4, <1>7, <1>10, <1>12, AloneRelated DEF IInv, Unanswering, v
<1>16. Tables'
  BY <1>3, <1>4 DEF IInv, Tables
<1>17. ~scenario.orderly => Apart'
  <2>. SUFFICES ASSUME Apart PROVE Apart'
    BY DEF IInv
  <2>1. p = Root => WritersOf(w.ready.text) \subseteq {Root}
    BY <1>8 DEF Apart, v
  <2>. QED  BY <1>2, <1>3, <1>7, <1>8, <1>10, <1>12, <2>1, ApartQuiet DEF v
<1>18. Waits'
  BY <1>2, <1>3, <1>7, <1>8, <1>10, WaitsKept DEF IInv, v
<1>. QED  BY <1>3, <1>14, <1>15, <1>16, <1>17, <1>18 DEF IInv

\* A slot that no parser is in.
LEMMA EmptySlot ==
  ASSUME NEW c \in Children, NEW s, NEW n \in Nat
  PROVE  Sound(c, NewParser, s, n)
<1>1. c # Root /\ 0 \in 0..n
  BY SlotsAssumption
<1>. QED  BY <1>1, NewParserIs, NoRequestIs DEF Sound

LEMMA ResumeKeeps == ASSUME IInv, NEW p \in D, Resume(p) PROVE IInv'
<1>. DEFINE v == parsers[p]
            F == IF scenario.orderly THEN ChildOf(p) ELSE {}
            w == [v EXCEPT !.request = NoRequest, !.working = TRUE]
<1>1. Sound(p, v, scenario, Len(answers)) /\ Shaped(v) /\ Once(v) /\ DOMAIN parsers = D
  BY SoundOf DEF IInv
<1>2. v.stage = "value"
  BY DEF Resume, Called
<1>3. /\ scenario' = scenario /\ entities' = entities /\ values' = values /\ answers' = answers
      /\ outputs' = outputs \/ outputs' = Skipped(p)
  BY DEF Resume, tables
<1>4. F \subseteq Children \ {p, Root} /\ \A c \in F : parsers[c].parent = p
  <2>1. v.parent # p
    BY <1>1, SlotsAssumption DEF Sound, D
  <2>. QED  BY <2>1, SlotsAssumption DEF ChildOf
<1>5. DOMAIN parsers' = D /\ parsers'[p] = w
      /\ \A q \in D \ {p} : parsers'[q] = IF q \in F THEN NewParser ELSE parsers[q]
  <2>1. CASE scenario.orderly
    <3>1. parsers' = [Freed(parsers, p) EXCEPT ![p].request = NoRequest, ![p].working = TRUE]
      BY <2>1 DEF Resume
    <3>2. DOMAIN Freed(parsers, p) = D /\ Freed(parsers, p)[p] = v
          /\ \A q \in D \ {p} : Freed(parsers, p)[q] = IF q \in F THEN NewParser ELSE parsers[q]
      BY <1>1, <1>4, <2>1 DEF Freed
    <3>. HIDE DEF F
    <3>. QED  BY <3>1, <3>2
  <2>2. CASE ~scenario.orderly
    <3>1. parsers' = [parsers EXCEPT ![p].request = NoRequest, ![p].working = TRUE]
      BY <2>2 DEF Resume
    <3>2. F = {}
      BY <2>2
    <3>. HIDE DEF F
    <3>. QED  BY <1>1, <3>1, <3>2
  <2>. QED  BY <2>1, <2>2
<1>. HIDE DEF F
<1>6. Besides(v, w, {"request", "working"}) /\ w.request = NoRequest /\ w.working
  BY <1>1, FieldsAre DEF Besides, Shaped
<1>. HIDE DEF w
<1>7. /\ DOMAIN w = DOMAIN NewParser /\ w.stage = v.stage
      /\ w.frames = v.frames /\ w.chain = v.chain /\ w.declaring = v.declaring
      /\ w.parameters = v.parameters /\ w.depth = v.depth /\ w.output = v.output
      /\ w.ready = v.ready /\ w.parent = v.parent /\ w.answer = v.answer
      /\ w.document = v.document /\ w.fed = v.fed /\ w.content = v.content
  BY <1>1, <1>6, BesidesIs
<1>8. Shaped(w) /\ Once(w) /\ Size(w) = Size(v)
  BY <1>1, <1>6, <1>7, NoRequestIs DEF Shaped, Once, Size
<1>9. /\ w.request.name = NONE /\ ~w.request.delivered /\ w.request.answer = 0
  BY <1>6, NoRequestIs
<1>10. Len(answers) \in Nat /\ Len(answers') = Len(answers) /\ 0 \in 0..Len(answers)
  BY <1>3, SequenceIs DEF IInv, Tables
<1>11. Sound(p, w, scenario, Len(answers))
  <2>1. SameOrigin(v, w) /\ v.stage # "none" /\ w.stage = "value" /\ Size(w) <= scenario.maxDepth + 1
    BY <1>1, <1>2, <1>7, <1>8 DEF SameOrigin, Sound
  <2>2. Len(answers) <= Len(answers)
    BY <1>10
  <2>. HIDE DEF v
  <2>. QED  BY <1>1, <1>8, <1>9, <1>10, <2>1, <2>2, SoundStep
<1>12. AllSound'
  <2>1. ASSUME NEW q \in D PROVE Sound(q, parsers'[q], scenario, Len(answers))
    <3>1. CASE q = p
      BY <1>5, <1>11, <3>1
    <3>2. CASE q # p /\ q \in F
      BY <1>4, <1>5, <1>10, <3>2, EmptySlot
    <3>3. CASE q # p /\ q \notin F
      BY <1>5, <3>3, SoundOf DEF IInv
    <3>. QED  BY <3>1, <3>2, <3>3
  <2>. QED  BY <1>3, <1>5, <2>1 DEF AllSound
<1>13. Related'
  <2>. SUFFICES ASSUME NEW c \in D, Waiting(c)'
                PROVE  Follows(parsers'[c], parsers'[parsers'[c].parent])
    BY DEF Related
  <2>1. c \notin F
    BY <1>4, <1>5, NewParserIs DEF Waiting
  <2>2. /\ parsers'[c].parent = parsers[c].parent /\ parsers'[c].answer = parsers[c].answer
        /\ parsers'[c].chain = parsers[c].chain /\ parsers'[c].depth = parsers[c].depth
        /\ parsers'[c].document = parsers[c].document
    BY <1>5, <1>7, <2>1
  <2>. DEFINE q == parsers[c].parent
  <2>3. q # NONE /\ parsers'[q].stage = "value" /\ parsers'[q].request.answer = parsers[c].answer
    BY <2>2 DEF Waiting
  <2>4. q \in D /\ parsers[c].answer \in 1..Len(answers)
    BY <2>3 DEF IInv, AllSound, Sound
  <2>5. q # p
    BY <1>5, <1>9, <1>10, <2>3, <2>4
  <2>6. q \notin F
    BY <1>5, <2>3, <2>4, <2>5, NewParserIs
  <2>7. parsers'[q] = parsers[q]
    BY <1>5, <2>4, <2>5, <2>6
  <2>8. Waiting(c)
    BY <2>3, <2>7 DEF Waiting
  <2>9. Follows(parsers[c], parsers[q])
    BY <2>8 DEF IInv, Related
  <2>. QED  BY <2>2, <2>7, <2>9 DEF Follows
<1>14. /\ Sequence(outputs') /\ Len(outputs') = Len(outputs) /\ DOMAIN outputs' = DOMAIN outputs
       /\ \A n \in DOMAIN outputs : Written(outputs'[n]) /\ outputs'[n].text = outputs[n].text
  BY <1>3, WrittenIs, SkippedIs DEF IInv
<1>15. Tables'
  BY <1>3, <1>14 DEF IInv, Tables
<1>16. ~scenario.orderly => Apart'
  <2>. SUFFICES ASSUME Apart, ~scenario.orderly PROVE Apart'
    BY DEF IInv
  <2>1. Alone(p)
    <3>1. Len(answers) <= Len(answers')
      BY <1>10
    <3>2. F = {}
      BY DEF F
    <3>. QED  BY <1>3, <1>5, <3>1, <3>2 DEF Alone, IInv, Tables
  <2>2. KeepOutputs
    BY <1>2, <1>5, <1>7, <1>14, <2>1, AloneKeeps
  <2>3. GoodWriters
    BY <1>14, SameTexts
  <2>4. Root \in D
    BY DEF D
  <2>5. CASE p = Root
    BY <1>3, <1>5, <1>7, <2>2, <2>3, <2>5, ApartWrite DEF OwnOutput, Apart
  <2>6. CASE p # Root
    <3>1. parsers'[Root] = parsers[Root]
      BY <2>1, <2>4, <2>6 DEF Alone
    <3>. QED  BY <1>3, <2>2, <2>3, <3>1, ApartWrite DEF OwnOutput, Apart
  <2>. QED  BY <2>5, <2>6
<1>17. Waits'
  <2>1. Root \notin F /\ Root \in D
    BY <1>4 DEF D
  <2>2. parsers'[Root].stage = parsers[Root].stage /\ parsers'[Root].output = parsers[Root].output
    BY <1>5, <1>7, <2>1
  <2>. QED  BY <1>14, <2>2 DEF IInv, Waits
<1>. QED  BY <1>3, <1>12, <1>13, <1>15, <1>16, <1>17 DEF IInv

LEMMA MakeChildKeeps == ASSUME IInv, NEW p \in D, NEW c \in Children, MakeChild(p, c) PROVE IInv'
<1>. DEFINE v == parsers[p]
            deeper == v.depth + 1 + Named(p) + Len(v.parameters)
            names == ActiveNames(p)
            alone == outputs[v.output].standalone
            known == v.request.name \notin scenario.unknown
            w == [NewParser EXCEPT !.stage = "scanning", !.chain = names,
                                   !.depth = deeper, !.output = v.output, !.parent = p,
                                   !.standalone = alone, !.answer = v.request.answer,
                                   !.document = v.request.name, !.encoded = known]
<1>1. Sound(p, v, scenario, Len(answers)) /\ Shaped(v) /\ Once(v) /\ DOMAIN parsers = D
  BY SoundOf DEF IInv
<1>2. /\ v.stage = "value" /\ ~v.working /\ v.request.delivered /\ parsers[c].stage = "none"
      /\ scenario' = scenario /\ outputs' = outputs /\ entities' = entities /\ values' = values
      /\ answers' = answers /\ parsers' = [parsers EXCEPT ![c] = w]
  BY DEF MakeChild, tables
<1>3. c \in D /\ c # Root /\ p # c
  BY <1>2, SlotsAssumption DEF D
<1>4. Asks(v, scenario) /\ v.request.answer \in 1..Len(answers) /\ Len(answers) \in Nat
  <2>1. Len(answers) \in Nat
    BY SequenceIs DEF IInv, Tables
  <2>. QED  BY <1>1, <1>2, <2>1 DEF Sound
<1>5. /\ deeper \in Nat /\ deeper = Size(v) + 1 /\ deeper <= scenario.maxDepth + 1
      /\ scenario.depth <= deeper
  <2>1. /\ Size(v) \in Nat /\ NamedIn(v.frames) \in Nat /\ v.depth \in Nat /\ Len(v.parameters) \in Nat
        /\ scenario.maxDepth \in Nat /\ scenario.depth \in Nat
    BY <1>1, SizeIs, ScenariosAssumption DEF IInv, Tables
  <2>2. Named(p) = NamedIn(v.frames)
    BY DEF Named, NamedIn
  <2>3. deeper \in Nat /\ deeper = Size(v) + 1 /\ v.depth <= deeper
    <3>. DEFINE a == NamedIn(v.frames)
                b == v.depth
                l == Len(v.parameters)
    <3>1. a \in Nat /\ b \in Nat /\ l \in Nat
      BY <2>1
    <3>2. Size(v) = a + b + l
      BY DEF Size
    <3>3. deeper = b + 1 + a + l
      BY <2>2
    <3>4. b = v.depth
      OBVIOUS
    <3>. HIDE DEF a, b, l, deeper
    <3>. QED  BY ONLY <3>1, <3>2, <3>3, <3>4
  <2>4. Size(v) <= scenario.maxDepth /\ scenario.depth <= v.depth
    BY <1>1, <1>2, <1>4 DEF Asks, Sound
  <2>. HIDE DEF deeper
  <2>. QED  BY <2>1, <2>3, <2>4
<1>6. v.chain \cup Names(v) \cup {v.request.name} \subseteq names
  BY DEF ActiveNames, Names
<1>. HIDE DEF deeper, names, alone, known
<1>7. /\ DOMAIN w = DOMAIN NewParser /\ w.stage = "scanning" /\ w.chain = names /\ w.depth = deeper
      /\ w.output = v.output /\ w.parent = p /\ w.answer = v.request.answer
      /\ w.document = v.request.name
      /\ w.working = NewParser.working /\ w.frames = NewParser.frames
      /\ w.declaring = NewParser.declaring /\ w.parameters = NewParser.parameters
      /\ w.request = NewParser.request /\ w.ready = NewParser.ready
      /\ w.fed = NewParser.fed /\ w.content = NewParser.content
  BY FieldsAre
<1>. HIDE DEF w
<1>8. DOMAIN parsers' = D /\ parsers'[c] = w /\ \A q \in D \ {c} : parsers'[q] = parsers[q]
  BY <1>1, <1>2, <1>3
<1>9. Shaped(w)
  BY <1>5, <1>7, NewParserIs DEF Shaped
<1>10. Sequence(<< >>) /\ DOMAIN << >> = {} /\ Len(<< >>) = 0 /\ Range(<< >>) = {}
  BY EmptyIs, SequenceIs DEF Range
<1>11. Once(w)
  BY <1>7, <1>10, NewParserIs, NoFrames DEF Once
<1>12. Size(w) = deeper
  BY <1>5, <1>7, <1>10, NewParserIs, NoFrames DEF Size
<1>13. Sound(c, w, scenario, Len(answers))
  <2>1. Sequence(scenario.documents[w.document])
    BY <1>4, <1>7 DEF Asks
  <2>2. w.request.name = NONE /\ ~w.request.delivered /\ w.request.answer = 0 /\ 0 \in 0..Len(answers)
        /\ ~w.working
    BY <1>4, <1>7, NewParserIs, NoRequestIs
  <2>3. p \in D \ {c}
    BY <1>3
  <2>. QED  BY <1>3, <1>4, <1>5, <1>7, <1>9, <1>11, <1>12, <2>1, <2>2, <2>3 DEF Sound
<1>14. AllSound'
  <2>1. ASSUME NEW q \in D PROVE Sound(q, parsers'[q], scenario, Len(answers))
    <3>1. CASE q = c
      BY <1>8, <1>13, <3>1
    <3>2. CASE q # c
      BY <1>8, <3>2, SoundOf DEF IInv
    <3>. QED  BY <3>1, <3>2
  <2>. QED  BY <1>2, <1>8, <2>1 DEF AllSound
<1>15. Related'
  <2>. SUFFICES ASSUME NEW e \in D, Waiting(e)'
                PROVE  Follows(parsers'[e], parsers'[parsers'[e].parent])
    BY DEF Related
  <2>1. CASE e = c
    <3>1. parsers'[e] = w /\ parsers'[parsers'[e].parent] = v
      BY <1>3, <1>7, <1>8, <2>1
    <3>. QED  BY <1>5, <1>6, <1>7, <3>1 DEF Follows
  <2>2. CASE e # c
    <3>. DEFINE q == parsers[e].parent
    <3>1. parsers'[e] = parsers[e] /\ q # NONE /\ parsers'[q].stage = "value"
          /\ parsers'[q].request.answer = parsers[e].answer
      BY <1>8, <2>2 DEF Waiting
    <3>2. q \in D
      BY <3>1 DEF IInv, AllSound, Sound
    <3>3. parsers'[q] = parsers[q]
      BY <1>7, <1>8, <3>1, <3>2
    <3>4. Waiting(e)
      BY <3>1, <3>3 DEF Waiting
    <3>5. Follows(parsers[e], parsers[q])
      BY <3>4 DEF IInv, Related
    <3>. QED  BY <3>1, <3>3, <3>5
  <2>. QED  BY <2>1, <2>2
<1>16. Tables'
  BY <1>2 DEF IInv, Tables
<1>17. Root \in D /\ parsers'[Root] = parsers[Root]
  BY <1>3, <1>8 DEF D
<1>18. ~scenario.orderly => Apart'
  <2>. SUFFICES ASSUME Apart PROVE Apart'
    BY DEF IInv
  <2>1. v.output \in 1..Len(outputs)
    <3>1. CASE p = Root
      BY <1>2, <3>1 DEF IInv, Waits
    <3>2. CASE p # Root
      BY <1>2, <3>2 DEF Apart, D
    <3>. QED  BY <3>1, <3>2
  <2>2. KeepOutputs
    <3>. SUFFICES ASSUME NEW d \in Children
                  PROVE  /\ parsers'[d].stage # "none" => parsers'[d].output \in 1..Len(outputs')
                         /\ parsers[d].stage # "none" =>
                              parsers'[d].stage # "none" /\ parsers'[d].output = parsers[d].output
      BY DEF KeepOutputs
    <3>1. CASE d = c
      BY <1>2, <1>7, <1>8, <2>1, <3>1
    <3>2. CASE d # c
      BY <1>2, <1>8, <3>2 DEF Apart, D
    <3>. QED  BY <3>1, <3>2
  <2>3. GoodWriters
    BY <1>2 DEF GoodWriters
  <2>. QED  BY <1>2, <1>17, <2>2, <2>3, ApartWrite DEF OwnOutput, Apart
<1>19. Waits'
  BY <1>2, <1>17 DEF IInv, Waits
<1>. QED  BY <1>2, <1>14, <1>15, <1>16, <1>18, <1>19 DEF IInv

-----------------------------------------------------------------------------
(***************************************************************************)
(* Every behaviour                                                         *)
(***************************************************************************)

LEMMA InitHolds == Init => IInv
<1>. SUFFICES ASSUME Init PROVE IInv
  OBVIOUS
<1>. DEFINE r == [NewParser EXCEPT !.stage = "idle", !.depth = scenario.depth,
                                   !.standalone = scenario.standalone]
<1>1. /\ scenario \in Scenarios /\ outputs = << >> /\ entities = scenario.entities
      /\ values = << >> /\ answers = << >>
      /\ DOMAIN parsers = D /\ \A q \in D : parsers[q] = IF q = Root THEN r ELSE NewParser
  BY DEF Init, D
<1>2. Sequence(<< >>) /\ DOMAIN << >> = {} /\ Len(<< >>) = 0 /\ Range(<< >>) = {}
  BY EmptyIs, SequenceIs DEF Range
<1>3. /\ scenario.depth \in Nat /\ scenario.maxDepth \in Nat /\ scenario.depth <= scenario.maxDepth + 1
      /\ \A n \in DOMAIN scenario.entities :
           /\ scenario.entities[n].kind = "internal" => Sequence(scenario.entities[n].value)
           /\ scenario.entities[n].kind = "external" => Sequence(scenario.documents[n])
  BY <1>1, ScenariosAssumption, IsSequenceIs
<1>4. /\ DOMAIN r = DOMAIN NewParser /\ r.stage = "idle" /\ r.depth = scenario.depth
      /\ r.working = NewParser.working /\ r.frames = NewParser.frames /\ r.chain = NewParser.chain
      /\ r.declaring = NewParser.declaring /\ r.parameters = NewParser.parameters
      /\ r.request = NewParser.request /\ r.ready = NewParser.ready /\ r.parent = NewParser.parent
      /\ r.fed = NewParser.fed /\ r.content = NewParser.content
  BY FieldsAre
<1>. HIDE DEF r
<1>5. Shaped(r)
  BY <1>3, <1>4, NewParserIs DEF Shaped
<1>6. Once(r)
  BY <1>2, <1>4, NewParserIs, NoFrames DEF Once
<1>7. Size(r) = scenario.depth /\ Size(r) <= scenario.maxDepth + 1
  BY <1>2, <1>3, <1>4, NewParserIs, NoFrames DEF Size
<1>8. 0 \in 0..0 /\ scenario.depth <= scenario.depth
  BY <1>3
<1>9. Sound(Root, r, scenario, 0)
  BY <1>4, <1>5, <1>6, <1>7, <1>8, NewParserIs, NoRequestIs DEF Sound
<1>10. \A c \in Children : Sound(c, NewParser, scenario, 0)
  BY <1>8, NewParserIs, NoRequestIs, SlotsAssumption DEF Sound
<1>11. AllSound
  <2>1. Len(answers) = 0
    BY <1>1, <1>2
  <2>. QED  BY <1>1, <1>9, <1>10, <2>1 DEF AllSound, D
<1>12. Tables
  BY <1>1, <1>2, <1>3 DEF Tables
<1>13. Related
  BY <1>1, <1>4, NewParserIs DEF Related, Waiting
<1>14. Root \in D /\ Children \subseteq D /\ Root \notin Children
  BY SlotsAssumption DEF D
<1>15. Waits
  BY <1>1, <1>4, <1>14 DEF Waits
<1>16. Apart
  BY <1>1, <1>2, <1>4, <1>14, NewParserIs DEF Apart, WritersOf
<1>. QED  BY <1>11, <1>12, <1>13, <1>15, <1>16 DEF IInv

LEMMA NextKeeps == IInv /\ [Next]_vars => IInv'
<1>. SUFFICES ASSUME IInv, [Next]_vars PROVE IInv'
  OBVIOUS
<1>1. DOMAIN parsers = D
  BY DEF IInv, AllSound
<1>2. CASE UNCHANGED vars
  BY <1>2 DEF vars, IInv, Tables, AllSound, Sound, Related, Waiting, Waits, Apart, MadeFor
<1>3. CASE Declare \/ DeclareAtOnce \/ FinishDeclaration \/ SendPrefix
  BY <1>3, DeclareKeeps, AtOnceKeeps, FinishKeeps, PrefixKeeps
<1>4. CASE Done
  BY <1>2, <1>4 DEF Done
<1>5. ASSUME NEW p \in D, Work(p) \/ Deliver(p) \/ Resume(p) \/ ResumeRefused(p)
      PROVE  IInv'
  BY <1>5, WorkKept, DeliverKeeps, ResumeKeeps, RefusedKeeps
<1>6. ASSUME NEW c \in Children,
             \/ Feed(c) \/ InstallMap(c) \/ OverLimit(c) \/ LexicalError(c)
             \/ XmlDeclaration(c) \/ DeclarationRefused(c) \/ ScanComplete(c)
      PROVE  IInv'
  <2>1. c \in D
    BY DEF D
  <2>. QED  BY <1>6,   <2>1, FeedKeeps, InstallKeeps, StopsKeep, XmlKeeps, RefusedKeeps, ScanCompleteKeeps
<1>7. ASSUME NEW c \in Children, NEW p \in D, MakeChild(p, c) PROVE IInv'
  BY <1>7, MakeChildKeeps
<1>. QED  BY <1>1, <1>2, <1>3, <1>4, <1>5, <1>6, <1>7 DEF Next

LEMMA Invariant == Spec => []IInv
BY InitHolds, NextKeeps, PTL DEF Spec

-----------------------------------------------------------------------------
(***************************************************************************)
(* A later declaration's value                                             *)
(***************************************************************************)

LEMMA KeptApart == IInv => ValuesApart
<1>. SUFFICES ASSUME IInv, ~scenario.orderly, NEW j \in DOMAIN values, NEW k \in DOMAIN values,
                     NEW c \in Writers(values[j]) \cap Writers(values[k])
              PROVE  j = k
  BY DEF ValuesApart
<1>1. c \in WritersOf(values[j].text) \ {Root} /\ c \in WritersOf(values[k].text) \ {Root}
  BY DEF Writers, WritersOf
<1>. QED  BY <1>1 DEF IInv, Apart

(* Whatever the literals, entities and documents, and whatever the          *)
(* application does: no child parser writes into the values of two          *)
(* declarations (value.rs, begin_external_value and finish_value_declaration). *)
THEOREM ValuesApartCorrect == Spec => []ValuesApart
BY Invariant, KeptApart, PTL

-----------------------------------------------------------------------------
(***************************************************************************)
(* From the declaration down to a child                                    *)
(***************************************************************************)

\* A parser, and those above the one that waits for it.
LEMMA AboveIs ==
  ASSUME AllSound, NEW p \in D
  PROVE  /\ p \in Above(p) /\ Above(p) \subseteq D
         /\ Waiting(p) => parsers[p].parent \in D /\ Above(p) = {p} \cup Above(parsers[p].parent)
         /\ ~Waiting(p) => Above(p) = {p}
<1>. DEFINE q == parsers[p].parent
<1>1. DOMAIN parsers = D /\ \A c \in D : Waiting(c) => parsers[c].parent \in D
  BY DEF AllSound, Sound, Waiting
<1>2. \A c \in D : c \in Above(c) /\ Above(c) \in SUBSET D
  BY <1>1 DEF Above
<1>3. \A c \in D : Closed(Above(c))
  <2>. SUFFICES ASSUME NEW c \in D, NEW d \in Above(c), Waiting(d),
                       NEW S \in SUBSET D, c \in S, Closed(S)
                PROVE  parsers[d].parent \in S
    BY <1>1, <1>2 DEF Above, Closed
  <2>1. d \in S
    BY <1>1 DEF Above
  <2>. QED  BY <2>1 DEF Closed
<1>4. \A c \in D, S \in SUBSET D : c \in S /\ Closed(S) => Above(c) \subseteq S
  BY <1>1 DEF Above
<1>5. CASE Waiting(p)
  <2>1. q \in D
    BY <1>1, <1>5
  <2>. HIDE DEF q
  <2>2. q \in Above(p)
    BY <1>2, <1>3, <1>5 DEF Closed, q
  <2>3. Above(q) \subseteq Above(p)
    BY <1>2, <1>3, <1>4, <2>1, <2>2
  <2>4. Closed({p} \cup Above(q))
    BY <1>2, <1>3, <2>1 DEF Closed, q
  <2>5. Above(p) \subseteq {p} \cup Above(q)
    BY <1>2, <1>4, <2>1, <2>4
  <2>. QED  BY <1>2, <1>5, <2>1, <2>3, <2>5 DEF q
<1>6. CASE ~Waiting(p)
  <2>1. Closed({p})
    BY <1>6 DEF Closed
  <2>. QED  BY <1>2, <1>4, <1>6, <2>1
<1>. QED  BY <1>2, <1>5, <1>6

\* What a line of parsers is expanding.
Line(p) == UNION {Held(q) : q \in Above(p)}

LEMMA LineIs ==
  ASSUME AllSound, NEW p \in D
  PROVE  /\ Waiting(p) => Line(p) = Held(p) \cup Line(parsers[p].parent)
         /\ ~Waiting(p) => Line(p) = Held(p)
<1>. DEFINE q == parsers[p].parent
<1>1. CASE Waiting(p)
  <2>1. Above(p) = {p} \cup Above(q)
    BY <1>1, AboveIs
  <2>. HIDE DEF q
  <2>2. Line(p) = Held(p) \cup Line(q)
    BY <2>1 DEF Line
  <2>. QED  BY <1>1, <2>2 DEF q
<1>2. CASE ~Waiting(p)
  <2>1. Above(p) = {p}
    BY <1>2, AboveIs
  <2>. QED  BY <1>2, <2>1 DEF Line
<1>. QED  BY <1>1, <1>2

\* What a parser has opened itself, and the document it reads.
FramePlaces(p) == {Place(p, "frame", k, parsers[p].frames[k].name) :
                     k \in {i \in DOMAIN parsers[p].frames : parsers[p].frames[i].name # NONE}}
ParameterPlaces(p) == {Place(p, "parameter", k, parsers[p].parameters[k]) :
                         k \in DOMAIN parsers[p].parameters}
DeclaringPlace(p) == Place(p, "declaring", 1, parsers[p].declaring)
DocumentPlace(p) == Place(p, "document", 1, parsers[p].document)

LEMMA HeldIs ==
  ASSUME NEW p, NEW x \in Held(p)
  PROVE  \/ x \in FramePlaces(p)
         \/ x \in ParameterPlaces(p)
         \/ parsers[p].declaring # NONE /\ x = DeclaringPlace(p)
         \/ Waiting(p) /\ x = DocumentPlace(p)
BY DEF Held, FramePlaces, ParameterPlaces, DeclaringPlace, DocumentPlace

\* The places of one parser have names of their own.
LEMMA OwnPlaces ==
  ASSUME NEW p, Once(parsers[p]), NEW x \in Held(p), NEW y \in Held(p),
         x # DocumentPlace(p), y # DocumentPlace(p)
  PROVE  /\ x.name \in Names(parsers[p]) /\ x.name \notin parsers[p].chain
         /\ x.name = y.name => x = y
<1>. DEFINE v == parsers[p]
            FN == FrameNames(v.frames)
            PN == Range(v.parameters)
            DN == {v.declaring} \ {NONE}
<1>1. \A z \in FramePlaces(p) :
        /\ z.name \in FN
        /\ \A u \in FramePlaces(p) : z.name = u.name => z = u
  <2>1. ASSUME NEW z \in FramePlaces(p)
        PROVE  z.name \in FN /\ \E k \in DOMAIN v.frames :
                 z = Place(p, "frame", k, v.frames[k].name) /\ z.name = v.frames[k].name /\ z.name # NONE
    BY DEF FramePlaces, Place, FrameNames
  <2>2. ASSUME NEW z \in FramePlaces(p), NEW u \in FramePlaces(p), z.name = u.name
        PROVE  z = u
    <3>1. PICK k \in DOMAIN v.frames :
            z = Place(p, "frame", k, v.frames[k].name) /\ z.name = v.frames[k].name /\ z.name # NONE
      BY <2>1
    <3>2. PICK l \in DOMAIN v.frames :
            u = Place(p, "frame", l, v.frames[l].name) /\ u.name = v.frames[l].name
      BY <2>1
    <3>3. k = l
      BY <2>2, <3>1, <3>2 DEF Once
    <3>. QED  BY <3>1, <3>2, <3>3
  <2>. QED  BY <2>1, <2>2
<1>2. \A z \in ParameterPlaces(p) :
        /\ z.name \in PN
        /\ \A u \in ParameterPlaces(p) : z.name = u.name => z = u
  <2>1. ASSUME NEW z \in ParameterPlaces(p)
        PROVE  z.name \in PN /\ \E k \in DOMAIN v.parameters :
                 z = Place(p, "parameter", k, v.parameters[k]) /\ z.name = v.parameters[k]
    BY DEF ParameterPlaces, Place, Range
  <2>2. ASSUME NEW z \in ParameterPlaces(p), NEW u \in ParameterPlaces(p), z.name = u.name
        PROVE  z = u
    <3>1. PICK k \in DOMAIN v.parameters :
            z = Place(p, "parameter", k, v.parameters[k]) /\ z.name = v.parameters[k]
      BY <2>1
    <3>2. PICK l \in DOMAIN v.parameters :
            u = Place(p, "parameter", l, v.parameters[l]) /\ u.name = v.parameters[l]
      BY <2>1
    <3>3. k = l
      BY <2>2, <3>1, <3>2 DEF Once
    <3>. QED  BY <3>1, <3>2, <3>3
  <2>. QED  BY <2>1, <2>2
<1>3. v.declaring # NONE => DeclaringPlace(p).name \in DN
  BY DEF DeclaringPlace, Place
<1>4. /\ FN \cap PN = {} /\ FN \cap DN = {} /\ PN \cap DN = {}
      /\ FN \cap v.chain = {} /\ PN \cap v.chain = {} /\ DN \cap v.chain = {}
  BY DEF Once
<1>5. Names(v) = FN \cup PN \cup DN
  BY DEF Names
<1>6. \A z \in {x, y} : \/ z \in FramePlaces(p) \/ z \in ParameterPlaces(p)
                        \/ v.declaring # NONE /\ z = DeclaringPlace(p)
  BY HeldIs
<1>. HIDE DEF FN, PN, DN, v
<1>. QED  BY <1>1, <1>2, <1>3, <1>4, <1>5, <1>6 DEF v

LEMMA AtMost ==
  ASSUME NEW S, IsFiniteSet(S), NEW T, IsFiniteSet(T), NEW m \in Nat, Cardinality(S) <= m,
         NEW n \in Nat, Cardinality(T) <= n
  PROVE  IsFiniteSet(S \cup T) /\ Cardinality(S \cup T) <= m + n
<1>1. IsFiniteSet(S \cup T)
      /\ Cardinality(S \cup T) = Cardinality(S) + Cardinality(T) - Cardinality(S \cap T)
  BY FS_Union
<1>2. Cardinality(S) \in Nat /\ Cardinality(T) \in Nat
  BY FS_CardinalityType
<1>3. Cardinality(S \cap T) \in Nat
  <2>1. IsFiniteSet(S \cap T)
    BY FS_Intersection
  <2>. QED  BY <2>1, FS_CardinalityType
<1>. QED  BY <1>1, <1>2, <1>3

\* How many places are counted for one parser.
LEMMA PlacesCount ==
  ASSUME NEW p, Shaped(parsers[p])
  PROVE  LET v == parsers[p]
             S == FramePlaces(p) \cup ParameterPlaces(p)
         IN IsFiniteSet(S) /\ Cardinality(S) <= NamedIn(v.frames) + Len(v.parameters)
<1>. DEFINE v == parsers[p]
            K == {k \in DOMAIN v.frames : v.frames[k].name # NONE}
            A == FramePlaces(p)
            B == ParameterPlaces(p)
<1>1. NamedIn(v.frames) \in Nat /\ Len(v.parameters) \in Nat /\ DOMAIN v.parameters = 1..Len(v.parameters)
  BY SizeIs, SequenceIs DEF Shaped
<1>2. IsFiniteSet(K) /\ Cardinality(K) = NamedIn(v.frames)
  BY NamedInIs DEF Shaped, NamedIn
<1>3. IsFiniteSet(A) /\ Cardinality(A) <= NamedIn(v.frames)
  <2>. DEFINE f == [k \in K |-> Place(p, "frame", k, v.frames[k].name)]
  <2>1. A = {f[k] : k \in K}
    BY DEF FramePlaces
  <2>2. f \in Surjection(K, A)
    BY <2>1 DEF Surjection
  <2>. HIDE DEF f, K, A
  <2>. QED  BY <1>2, <2>2, FS_Surjection
<1>4. IsFiniteSet(B) /\ Cardinality(B) <= Len(v.parameters)
  <2>. DEFINE I == DOMAIN v.parameters
              f == [k \in I |-> Place(p, "parameter", k, v.parameters[k])]
  <2>1. B = {f[k] : k \in I}
    BY DEF ParameterPlaces
  <2>2. f \in Surjection(I, B)
    BY <2>1 DEF Surjection
  <2>3. IsFiniteSet(I) /\ Cardinality(I) = Len(v.parameters)
    <3>. DEFINE n == Len(v.parameters)
    <3>1. I = 1..n /\ n \in Nat
      BY <1>1
    <3>. HIDE DEF n, I
    <3>2. IsFiniteSet(1..n) /\ Cardinality(1..n) = n
      BY <3>1, FS_Interval
    <3>. QED  BY <3>1, <3>2 DEF n
  <2>. HIDE DEF f, I, B
  <2>. QED  BY <2>2, <2>3, FS_Surjection
<1>. HIDE DEF v, A, B, K
<1>5. IsFiniteSet(A \cup B) /\ Cardinality(A \cup B) <= NamedIn(v.frames) + Len(v.parameters)
  BY <1>1, <1>3, <1>4, AtMost
<1>. QED  BY <1>5 DEF v, A, B

\* What is counted against the limit.
Counted(p) == {x \in Line(p) : x.as # "declaring"}

\* No name twice down to a parser, and each it knows, and how many.
Lined(p) ==
  LET v == parsers[p]
  IN /\ \A x, y \in Line(p) : x.name = y.name => x = y
     /\ {x.name : x \in Line(p)} \subseteq v.chain \cup Names(v)
     /\ IsFiniteSet(Counted(p))
     /\ IF v.stage = "none" THEN Counted(p) = {}
        ELSE Cardinality(Counted(p)) + scenario.depth <= Size(v)

\* A parser that nobody waits for.
LEMMA LinedFirst ==
  ASSUME IInv, NEW p \in D, ~Waiting(p)
  PROVE  Lined(p)
<1>. DEFINE v == parsers[p]
            S == FramePlaces(p) \cup ParameterPlaces(p)
<1>1. Line(p) = Held(p) /\ AllSound
  BY LineIs DEF IInv
<1>2. Sound(p, v, scenario, Len(answers)) /\ Shaped(v) /\ Once(v)
  BY <1>1, SoundOf
<1>3. \A x \in Held(p) : \/ x \in FramePlaces(p) \/ x \in ParameterPlaces(p)
                         \/ v.declaring # NONE /\ x = DeclaringPlace(p)
  BY HeldIs
<1>4. \A x \in Held(p) : x # DocumentPlace(p)
  BY <1>3 DEF FramePlaces, ParameterPlaces, DeclaringPlace, DocumentPlace, Place
<1>5. \A x, y \in Held(p) : x.name \in Names(v) /\ (x.name = y.name => x = y)
  BY <1>2, <1>4, OwnPlaces
<1>6. Counted(p) \subseteq S
  BY <1>1, <1>3 DEF Counted, DeclaringPlace, Place
<1>7. IsFiniteSet(S) /\ Cardinality(S) <= NamedIn(v.frames) + Len(v.parameters)
  BY <1>2, PlacesCount
<1>8. IsFiniteSet(Counted(p)) /\ Cardinality(Counted(p)) <= Cardinality(S)
  <2>. DEFINE T == Counted(p)
  <2>. HIDE DEF S, T
  <2>. QED  BY <1>6, <1>7, FS_Subset DEF T
<1>9. Cardinality(S) \in Nat /\ Cardinality(Counted(p)) \in Nat
  BY <1>7, <1>8, FS_CardinalityType
<1>10. CASE v.stage = "none"
  <2>1. v = NewParser
    BY <1>2, <1>10 DEF Sound
  <2>2. S = {}
    <3>1. DOMAIN << >> = {}
      BY EmptyIs, SequenceIs
    <3>. QED  BY <2>1, <3>1, NewParserIs DEF FramePlaces, ParameterPlaces
  <2>. QED  BY <1>1, <1>5, <1>6, <1>8, <1>10, <2>2 DEF Lined
<1>11. CASE v.stage # "none"
  <2>1. scenario.depth <= v.depth
    BY <1>2, <1>11 DEF Sound
  <2>2. scenario.depth \in Nat
    BY ScenariosAssumption DEF IInv, Tables
  <2>3. /\ NamedIn(v.frames) \in Nat /\ v.depth \in Nat /\ Len(v.parameters) \in Nat
        /\ Size(v) = NamedIn(v.frames) + v.depth + Len(v.parameters)
    BY <1>2, SizeIs DEF Size
  <2>4. Cardinality(Counted(p)) + scenario.depth <= Size(v)
    <3>. DEFINE a == Cardinality(Counted(p))
                b == Cardinality(S)
                l == NamedIn(v.frames)
                m == Len(v.parameters)
                n == v.depth
                e == scenario.depth
                z == Size(v)
    <3>1. /\ a <= b /\ b <= l + m /\ e <= n /\ z = l + n + m
          /\ a \in Nat /\ b \in Nat /\ l \in Nat /\ m \in Nat /\ n \in Nat /\ e \in Nat
      BY <1>7, <1>8, <1>9, <2>1, <2>2, <2>3
    <3>. HIDE DEF a, b, l, m, n, e, z
    <3>2. a + e <= z
      BY ONLY <3>1
    <3>. QED  BY <3>2 DEF a, e, z
  <2>. QED  BY <1>1, <1>5, <1>8, <1>11, <2>4 DEF Lined
<1>. QED  BY <1>10, <1>11

\* A child whose parent waits for it.
LEMMA LinedNext ==
  ASSUME IInv, NEW p \in D, Waiting(p), Lined(parsers[p].parent)
  PROVE  Lined(p)
<1>. DEFINE v == parsers[p]
            q == v.parent
            w == parsers[q]
            S == FramePlaces(p) \cup ParameterPlaces(p)
            d == DocumentPlace(p)
<1>1. AllSound /\ Line(p) = Held(p) \cup Line(q) /\ q \in D
  BY LineIs, AboveIs DEF IInv
<1>2. Sound(p, v, scenario, Len(answers)) /\ Shaped(v) /\ Once(v)
  BY <1>1, SoundOf
<1>3. Sound(q, w, scenario, Len(answers)) /\ Shaped(w)
  BY <1>1, SoundOf
<1>4. Follows(v, w)
  BY DEF IInv, Related
<1>5. w.stage # "none" /\ v.stage # "none"
  BY <1>2, NewParserIs DEF Waiting, Sound
<1>6. w.request.name \notin Names(w) \cup w.chain
  <2>1. w.request.answer = v.answer /\ v.answer \in 1..Len(answers)
    BY <1>2 DEF Waiting, Sound
  <2>2. Len(answers) \in Nat
    BY SequenceIs DEF IInv, Tables
  <2>3. w.request.answer # 0
    BY <2>1, <2>2
  <2>. QED  BY <1>3, <2>3 DEF Sound, Asks
<1>7. /\ d.name = w.request.name /\ d.name \in v.chain /\ d.as = "document"
      /\ w.chain \cup Names(w) \subseteq v.chain
  BY <1>4 DEF Follows, DocumentPlace, Place
<1>8. \A x \in Held(p) : \/ x \in FramePlaces(p) \/ x \in ParameterPlaces(p)
                         \/ v.declaring # NONE /\ x = DeclaringPlace(p)
                         \/ x = d
  BY HeldIs
<1>9. \A x \in Line(q) : x.name \in w.chain \cup Names(w)
  BY DEF Lined
<1>10. \A x, y \in Held(p) : x # d /\ y # d =>
         x.name \in Names(v) /\ x.name \notin v.chain /\ (x.name = y.name => x = y)
  BY <1>2, OwnPlaces
<1>11. \A x, y \in Line(q) : x.name = y.name => x = y
  BY DEF Lined
<1>12. \A x, y \in Line(p) : x.name = y.name => x = y
  <2>. HIDE DEF v, q, w, d
  <2>. QED  BY <1>1, <1>6, <1>7, <1>9, <1>10, <1>11
<1>13. {x.name : x \in Line(p)} \subseteq v.chain \cup Names(v)
  <2>. HIDE DEF v, q, w, d
  <2>. QED  BY <1>1, <1>7, <1>9, <1>10
<1>14. IsFiniteSet(S) /\ Cardinality(S) <= NamedIn(v.frames) + Len(v.parameters)
  BY <1>2, PlacesCount
<1>15. Counted(p) \subseteq (S \cup {d}) \cup Counted(q)
  BY <1>1, <1>8 DEF Counted, DeclaringPlace, Place
<1>16. IsFiniteSet(Counted(q)) /\ Cardinality(Counted(q)) + scenario.depth <= Size(w)
  BY <1>5 DEF Lined
<1>17. /\ NamedIn(v.frames) \in Nat /\ v.depth \in Nat /\ Len(v.parameters) \in Nat
       /\ Size(v) = NamedIn(v.frames) + v.depth + Len(v.parameters)
       /\ Size(w) \in Nat /\ v.depth = Size(w) + 1 /\ scenario.depth \in Nat
  <2>1. scenario.depth \in Nat
    BY ScenariosAssumption DEF IInv, Tables
  <2>2. Size(w) \in Nat
    BY <1>3, SizeIs
  <2>3. v.depth = Size(w) + 1
    BY <1>4 DEF Follows
  <2>. QED  BY <1>2, <2>1, <2>2, <2>3, SizeIs DEF Size
<1>18. IsFiniteSet(Counted(p)) /\ Cardinality(Counted(p)) + scenario.depth <= Size(v)
  <2>. DEFINE T == Counted(p)
              U == Counted(q)
              m == NamedIn(v.frames) + Len(v.parameters)
              n == Cardinality(U)
              s == Size(v)
              z == Size(w)
              e == scenario.depth
  <2>1. m \in Nat /\ s = m + z + 1 /\ z \in Nat /\ e \in Nat /\ n + e <= z
    <3>. DEFINE a == NamedIn(v.frames)
                b == Len(v.parameters)
                c == v.depth
    <3>1. /\ a \in Nat /\ b \in Nat /\ m = a + b /\ s = a + c + b /\ c = z + 1
          /\ z \in Nat /\ e \in Nat /\ n + e <= z
      BY <1>16, <1>17
    <3>. HIDE DEF a, b, c, m, n, s, z, e
    <3>. QED  BY ONLY <3>1
  <2>2. IsFiniteSet(S) /\ Cardinality(S) <= m /\ IsFiniteSet(U) /\ T \subseteq (S \cup {d}) \cup U
    BY <1>14, <1>15, <1>16
  <2>. HIDE DEF S, T, U, m, s, z, e, d
  <2>3. n \in Nat /\ Cardinality(U) <= n
    BY <2>2, FS_CardinalityType
  <2>. HIDE DEF n
  <2>4. IsFiniteSet({d}) /\ Cardinality({d}) <= 1
    <3>1. IsFiniteSet({d}) /\ Cardinality({d}) = 1
      BY ONLY FS_Singleton
    <3>. QED  BY ONLY <3>1
  <2>5. IsFiniteSet(S \cup {d}) /\ Cardinality(S \cup {d}) <= m + 1
    BY <2>1, <2>2, <2>4, AtMost
  <2>6. m + 1 \in Nat
    BY <2>1
  <2>7. IsFiniteSet((S \cup {d}) \cup U) /\ Cardinality((S \cup {d}) \cup U) <= (m + 1) + n
    BY <2>2, <2>3, <2>5, <2>6, AtMost
  <2>8. IsFiniteSet(T) /\ Cardinality(T) <= Cardinality((S \cup {d}) \cup U)
    BY <2>2, <2>7, FS_Subset
  <2>9. Cardinality(T) \in Nat /\ Cardinality((S \cup {d}) \cup U) \in Nat
    BY <2>7, <2>8, FS_CardinalityType
  <2>10. Cardinality(T) + e <= s
    BY <2>1, <2>3, <2>7, <2>8, <2>9
  <2>. QED  BY <2>8, <2>10 DEF T, s, e
<1>. QED  BY <1>5, <1>12, <1>13, <1>18 DEF Lined

\* A parser that waits is less deep than its child.
LEMMA AllLined == ASSUME IInv, NEW p \in D PROVE Lined(p)
<1>. SUFFICES ASSUME ~Lined(p) PROVE FALSE
  OBVIOUS
<1>. DEFINE S == {parsers[c].depth : c \in {c \in D : ~Lined(c)}}
<1>1. AllSound /\ \A c \in D : parsers[c].depth \in Nat /\ Size(parsers[c]) \in Nat
                               /\ parsers[c].depth <= Size(parsers[c])
  <2>1. AllSound
    BY DEF IInv
  <2>2. ASSUME NEW c \in D
        PROVE  parsers[c].depth \in Nat /\ Size(parsers[c]) \in Nat
               /\ parsers[c].depth <= Size(parsers[c])
    <3>. DEFINE v == parsers[c]
    <3>1. Shaped(v)
      BY <2>1, SoundOf
    <3>. HIDE DEF v
    <3>2. Size(v) \in Nat /\ NamedIn(v.frames) \in Nat /\ v.depth \in Nat /\ Len(v.parameters) \in Nat
      BY <3>1, SizeIs
    <3>3. v.depth <= NamedIn(v.frames) + v.depth + Len(v.parameters)
      BY <3>2
    <3>4. v.depth <= Size(v)
      BY <3>3 DEF Size
    <3>. QED  BY <3>2, <3>4 DEF v
  <2>. QED  BY <2>1, <2>2
<1>2. S \in SUBSET Nat /\ S # {}
  BY <1>1
<1>3. PICK m \in S : \A n \in S : m <= n
  <2>. HIDE DEF S
  <2>. QED  BY <1>2, Least
<1>4. PICK c \in D : ~Lined(c) /\ m = parsers[c].depth
  BY <1>3
<1>5. Waiting(c)
  BY <1>4, LinedFirst
<1>. DEFINE q == parsers[c].parent
<1>6. q \in D /\ ~Lined(q)
  BY <1>1, <1>4, <1>5, AboveIs, LinedNext
<1>7. parsers[c].depth = Size(parsers[q]) + 1
  BY <1>5 DEF IInv, Related, Follows
<1>8. m <= parsers[q].depth
  BY <1>3, <1>6
<1>. HIDE DEF q
<1>. QED  BY <1>1, <1>4, <1>6, <1>7, <1>8

LEMMA NeverTwice == IInv => NoNameTwice
<1>. SUFFICES ASSUME IInv, NEW p \in D
              PROVE  /\ \A x, y \in Line(p) : x.name = y.name => x = y
                     /\ Cardinality(Counted(p)) <= (scenario.maxDepth + 1) - scenario.depth
  <2>1. IInv => DOMAIN parsers = D
    BY DEF IInv, AllSound
  <2>. QED  BY <2>1 DEF NoNameTwice, Line, Counted
<1>. DEFINE v == parsers[p]
<1>1. Lined(p)
  BY AllLined
<1>2. /\ scenario.depth \in Nat /\ scenario.maxDepth \in Nat /\ scenario.depth <= scenario.maxDepth + 1
  BY ScenariosAssumption DEF IInv, Tables
<1>3. Cardinality(Counted(p)) \in Nat
  BY <1>1, FS_CardinalityType DEF Lined
<1>4. CASE v.stage = "none"
  <2>1. Cardinality(Counted(p)) = 0
    BY <1>1, <1>4, FS_EmptySet DEF Lined
  <2>. QED  BY <1>1, <1>2, <2>1 DEF Lined
<1>5. CASE v.stage # "none"
  <2>1. Size(v) \in Nat /\ Size(v) <= scenario.maxDepth + 1
    BY <1>5, SoundOf, SizeIs DEF IInv, Sound
  <2>2. Cardinality(Counted(p)) + scenario.depth <= Size(v)
    BY <1>1, <1>5 DEF Lined
  <2>. HIDE DEF v
  <2>. QED  BY <1>1, <1>2, <1>3, <2>1, <2>2 DEF Lined
<1>. QED  BY <1>4, <1>5

(* Whatever the literals, entities, documents and limits: from the          *)
(* declaration down to the innermost child no parameter entity is expanded  *)
(* twice, and no more of them than the limit, although each parser sees only *)
(* its own frames (value.rs, inherit_value_context and store_value).        *)
THEOREM NoNameTwiceCorrect == Spec => []NoNameTwice
BY Invariant, NeverTwice, PTL

=============================================================================
