------------------------- MODULE ExpatParserProofs -------------------------
(***************************************************************************)
(* Proofs about one parser handle (module ExpatParser), for every set of   *)
(* inputs, handlers and every value of the bounds.                         *)
(***************************************************************************)
EXTENDS ExpatParser, SequenceTheorems, TLAPS

-----------------------------------------------------------------------------
(***************************************************************************)
(* The stack of callbacks                                                  *)
(***************************************************************************)

\* Pushing a frame.
LEMMA PushFrame ==
  ASSUME NEW s \in Seq(FrameKinds), NEW f \in FrameKinds
  PROVE  /\ Append(s, f) \in Seq(FrameKinds)
         /\ Append(s, f) # << >>
         /\ Len(Append(s, f)) = Len(s) + 1
         /\ Final(Append(s, f)) = f
         /\ s # << >> => Append(s, f)[1] = s[1]
         /\ s = << >> => Append(s, f)[1] = f
BY AppendProperties DEF Final

\* Popping a frame.
LEMMA PopFrame ==
  ASSUME NEW s \in Seq(FrameKinds), s # << >>
  PROVE  /\ Pop(s) \in Seq(FrameKinds)
         /\ Len(Pop(s)) = Len(s) - 1
         /\ Len(s) = 1 <=> Pop(s) = << >>
         /\ Len(s) = 2 => Final(Pop(s)) = s[1]
<1>1. Len(s) \in Nat /\ Len(s) > 0 /\ \A i \in 1..Len(s) : s[i] \in FrameKinds
  BY EmptySeq
<1>2. /\ Pop(s) \in Seq(FrameKinds)
      /\ Len(Pop(s)) = Len(s) - 1
      /\ Len(s) = 2 => Pop(s)[1] = s[1]
  <2>. DEFINE n == Len(s) - 1
  <2>1. n \in Nat /\ \A i \in 1..n : s[i] \in FrameKinds
    BY <1>1
  <2>2. /\ SubSeq(s, 1, n) \in Seq(FrameKinds)
        /\ Len(SubSeq(s, 1, n)) = IF 1 <= n THEN n - 1 + 1 ELSE 0
        /\ \A i \in 1 .. n - 1 + 1 : SubSeq(s, 1, n)[i] = s[1 + i - 1]
    <3>. HIDE DEF n
    <3>. QED  BY <2>1, SubSeqProperties
  <2>3. Pop(s) = SubSeq(s, 1, n)
    BY DEF Pop
  <2>4. Len(Pop(s)) = n
    <3>1. CASE n = 0
      BY <3>1, <2>2, <2>3
    <3>2. CASE n >= 1
      BY <3>2, <2>1, <2>2, <2>3
    <3>3. n = 0 \/ n >= 1
      <4>. HIDE DEF n
      <4>. QED  BY <2>1
    <3>. QED  BY <3>1, <3>2, <3>3, Zenon
  <2>5. n = 1 => SubSeq(s, 1, n)[1] = s[1]
    <3>. HIDE DEF n
    <3>. QED  BY <2>2
  <2>6. Pop(s) \in Seq(FrameKinds)
    BY <2>2, <2>3
  <2>7. Len(s) = 2 => Pop(s)[1] = s[1]
    BY <2>3, <2>5
  <2>. QED  BY <2>4, <2>6, <2>7
<1>. QED  BY <1>1, <1>2, EmptySeq DEF Final

\* The guard and the callback stack, with the types they need.
GuardInv ==
  /\ frames \in Seq(FrameKinds) /\ ctl \in Controls
  /\ busy \in BOOLEAN /\ defaultDispatch \in BOOLEAN
  /\ GuardDiscipline

\* Steps that touch neither the guard nor the stack.
LEMMA GuardKept ==
  GuardInv /\ UNCHANGED <<guardVars, defaultDispatch>> => GuardInv'
BY DEF GuardInv, GuardDiscipline, guardVars

\* The stack is empty after the step.
LEMMA GuardEmpty ==
  ASSUME frames' = << >>, ctl' \in {"idle", "loop", "freed"}, busy' \in BOOLEAN,
         busy' <=> ctl' # "idle", defaultDispatch' = FALSE
  PROVE  GuardInv'
<1>0. frames' \in Seq(FrameKinds) /\ Len(frames') = 0
  BY EmptySeq
<1>1. (frames # << >> => busy)'
  OBVIOUS
<1>2. (ctl \in {"refused", "reset", "free"} <=> frames # << >> /\ frames[1] = "release")'
  OBVIOUS
<1>3. (Len(frames) <= 2)'
  BY <1>0
<1>4. (Len(frames) = 2 => frames[1] \notin DefaultFrames /\ frames[2] = "current")'
  BY <1>0
<1>5. (defaultDispatch <=> frames # << >> /\ Final(frames) \in DefaultFrames)'
  OBVIOUS
<1>6. (ctl \in Controls /\ defaultDispatch \in BOOLEAN)'
  BY DEF Controls
<1>. QED  BY <1>0, <1>1, <1>2, <1>3, <1>4, <1>5, <1>6 DEF GuardDiscipline, GuardInv

\* One callback is on the stack after the step.
LEMMA GuardOne ==
  ASSUME NEW f \in FrameKinds, frames' \in Seq(FrameKinds), Len(frames') = 1,
         frames'[1] = f, ctl' \in Controls, ctl' # "idle", busy' = TRUE,
         f = "release" <=> ctl' \in {"refused", "reset", "free"},
         defaultDispatch' \in BOOLEAN, defaultDispatch' <=> f \in DefaultFrames
  PROVE  GuardInv'
<1>0. frames' # << >> /\ Final(frames)' = f
  <2>1. Len(<< >>) = 0
    BY EmptySeq
  <2>. QED  BY <2>1 DEF Final
<1>1. (busy <=> ctl # "idle")'
  OBVIOUS
<1>2. (frames # << >> => busy)'
  OBVIOUS
<1>3. (ctl \in {"refused", "reset", "free"} <=> frames # << >> /\ frames[1] = "release")'
  BY <1>0
<1>4. (Len(frames) <= 2)'
  OBVIOUS
<1>5. (Len(frames) = 2 => frames[1] \notin DefaultFrames /\ frames[2] = "current")'
  OBVIOUS
<1>6. (defaultDispatch <=> frames # << >> /\ Final(frames) \in DefaultFrames)'
  BY <1>0, Zenon
<1>. QED  BY <1>1, <1>2, <1>3, <1>4, <1>5, <1>6 DEF GuardDiscipline, GuardInv

\* A frame pushed on an empty stack.
LEMMA PushFirst ==
  ASSUME frames = << >>, NEW f \in FrameKinds, frames' = Append(frames, f)
  PROVE  frames' \in Seq(FrameKinds) /\ Len(frames') = 1 /\ frames'[1] = f
<1>1. frames \in Seq(FrameKinds) /\ Len(frames) = 0
  BY EmptySeq
<1>2. frames' \in Seq(FrameKinds) /\ Len(frames') = Len(frames) + 1 /\ frames'[1] = f
  BY <1>1, PushFrame
<1>. QED  BY <1>1, <1>2

\* A callback begins while none is on the stack.
LEMMA GuardCalls ==
  ASSUME GuardInv, frames = << >>, busy, NEW f \in FrameKinds, f # "release", Call(f),
         defaultDispatch' \in BOOLEAN, defaultDispatch' <=> f \in DefaultFrames
  PROVE  GuardInv'
<1>1. frames' \in Seq(FrameKinds) /\ Len(frames') = 1 /\ frames'[1] = f
  BY PushFirst DEF Call
<1>2. /\ ctl' \in Controls /\ ctl' # "idle" /\ busy' = TRUE
      /\ ctl' \notin {"refused", "reset", "free"}
  BY DEF Call, GuardInv, GuardDiscipline
<1>. QED  BY <1>1, <1>2, GuardOne

\* A guarded operation ends with the stack empty.
LEMMA GuardFinishes ==
  ASSUME NEW status, Finish(status), defaultDispatch' = FALSE
  PROVE  GuardInv'
BY GuardEmpty DEF Finish

LEMMA GuardInit == Init => GuardInv
<1>. SUFFICES ASSUME Init PROVE GuardInv
  OBVIOUS
<1>0. /\ frames = << >> /\ frames \in Seq(FrameKinds) /\ Len(frames) = 0
      /\ ctl = "idle" /\ busy = FALSE /\ defaultDispatch = FALSE
  BY EmptySeq DEF Init
<1>1. busy <=> ctl # "idle"
  BY <1>0
<1>2. Len(frames) <= 2 /\ Len(frames) # 2
  BY <1>0
<1>3. defaultDispatch <=> frames # << >> /\ Final(frames) \in DefaultFrames
  BY <1>0
<1>4. ctl \in Controls /\ ctl \notin {"refused", "reset", "free"}
  BY <1>0 DEF Controls
<1>. QED  BY <1>0, <1>1, <1>2, <1>3, <1>4 DEF GuardInv, GuardDiscipline

\* What the application asks for between and inside callbacks.
LEMMA GuardRequests == GuardInv /\ (Requests \/ Calls) => GuardInv'
<1>. SUFFICES ASSUME GuardInv, Requests \/ Calls PROVE GuardInv'
  OBVIOUS
<1>a. ASSUME ~busy PROVE frames = << >> /\ defaultDispatch = FALSE
  BY <1>a DEF GuardInv, GuardDiscipline
<1>b. ASSUME ~busy, Enter PROVE GuardInv'
  BY <1>a, <1>b, GuardEmpty DEF Enter, defaultVars
<1>c. "release" \in FrameKinds \ DefaultFrames
  BY DEF FrameKinds, DefaultFrames
<1>1. CASE Parse
  BY <1>1, <1>b, GuardKept DEF Parse, Refuse, StaysFailed, FeedFails, Feed, guardVars, defaultVars
<1>2. CASE GetBuffer
  BY <1>2, GuardKept DEF GetBuffer, Refuse, guardVars, defaultVars
<1>3. CASE ParseBuffer
  BY <1>3, <1>b, GuardKept DEF ParseBuffer, Refuse, StaysFailed, Feed, guardVars, defaultVars
<1>4. CASE Resume
  BY <1>4, <1>b, GuardKept DEF Resume, Refuse, StaysFailed, guardVars, defaultVars
<1>5. CASE Reset
  <2>1. CASE Refuse("no_memory")
    BY <2>1, GuardKept DEF Refuse, guardVars, defaultVars
  <2>2. CASE ClearDocument /\ UNCHANGED guardVars
    BY <2>2, GuardKept DEF ClearDocument
  <2>3. CASE /\ ctl' = "reset" /\ busy' = TRUE
             /\ frames' = Append(frames, "release") /\ UNCHANGED defaultVars
    <3>1. frames = << >> /\ defaultDispatch' = FALSE
      BY <1>5, <2>3, <1>a DEF Reset, defaultVars
    <3>2. Len(frames') = 1 /\ frames'[1] = "release" /\ frames' \in Seq(FrameKinds)
      BY <2>3, <3>1, <1>c, PushFirst
    <3>. QED  BY <2>3, <3>1, <3>2, <1>c, GuardOne DEF Controls
  <2>. QED  BY <1>5, <2>1, <2>2, <2>3 DEF Reset
<1>6. CASE Free
  <2>1. CASE ctl' = "freed" /\ busy' = TRUE /\ UNCHANGED <<frames, defaultVars>>
    BY <2>1, <1>6, <1>a, GuardEmpty DEF Free, defaultVars
  <2>2. CASE /\ ctl' = "free" /\ busy' = TRUE
             /\ frames' = Append(frames, "release") /\ UNCHANGED defaultVars
    <3>1. frames = << >> /\ defaultDispatch' = FALSE
      BY <1>6, <2>2, <1>a DEF Free, defaultVars
    <3>2. Len(frames') = 1 /\ frames'[1] = "release" /\ frames' \in Seq(FrameKinds)
      BY <2>2, <3>1, <1>c, PushFirst
    <3>. QED  BY <2>2, <3>1, <3>2, <1>c, GuardOne DEF Controls
  <2>. QED  BY <1>6, <2>1, <2>2 DEF Free
<1>7. CASE \E resumable \in BOOLEAN : StopParser(resumable)
  BY <1>7, GuardKept DEF StopParser, Refuse, guardVars, defaultVars
<1>8. CASE \E handler \in Changeable : SetHandler(handler)
  BY <1>8, GuardKept DEF SetHandler, guardVars, defaultVars
<1>9. CASE DefaultCurrent
  <2>1. CASE UNCHANGED <<guardVars, defaultVars>>
    BY <2>1, GuardKept DEF defaultVars
  <2>2. CASE ~defaultDispatch /\ Call("current") /\ defaultDispatch' = TRUE
    <3>1. busy
      BY <1>9 DEF DefaultCurrent
    <3>2. frames # << >>
      BY <1>9, <3>1 DEF DefaultCurrent, AppRuns, GuardInv, GuardDiscipline
    <3>3. "current" \in FrameKinds /\ "current" \in DefaultFrames
      BY DEF FrameKinds, DefaultFrames
    <3>4. /\ frames' \in Seq(FrameKinds) /\ frames' # << >>
          /\ Len(frames') = Len(frames) + 1 /\ Final(frames') = "current"
          /\ frames'[1] = frames[1]
      BY <2>2, <3>2, <3>3, PushFrame DEF Call, GuardInv
    <3>5. Len(frames) = 1 /\ frames[1] \notin DefaultFrames
      <4>1. Len(frames) \in {1, 2}
        <5>1. Len(frames) \in Nat \ {0} /\ Len(frames) <= 2
          BY <3>2, EmptySeq DEF GuardInv, GuardDiscipline
        <5>2. \A k \in Nat \ {0} : k <= 2 => k \in {1, 2}
          OBVIOUS
        <5>. QED  BY <5>1, <5>2
      <4>2. Final(frames) \notin DefaultFrames
        BY <2>2, <3>2 DEF GuardInv, GuardDiscipline
      <4>3. Len(frames) # 2
        BY <4>2, <3>3 DEF GuardInv, GuardDiscipline, Final
      <4>. QED  BY <4>1, <4>2, <4>3 DEF Final
    <3>6. frames'[2] = "current"
      BY <3>4, <3>5 DEF Final
    <3>. QED
      BY <2>2, <3>1, <3>3, <3>4, <3>5, <3>6 DEF GuardInv, GuardDiscipline, Call
  <2>. QED  BY <1>9, <2>1, <2>2 DEF DefaultCurrent
<1>. QED  BY <1>1, <1>2, <1>3, <1>4, <1>5, <1>6, <1>7, <1>8, <1>9 DEF Requests, Calls

\* The parse loop, which runs with no callback on the stack.
LEMMA GuardLoop == GuardInv /\ Loop => GuardInv'
<1>. SUFFICES ASSUME GuardInv, Loop PROVE GuardInv'
  OBVIOUS
<1>a. frames = << >> /\ busy /\ defaultDispatch = FALSE
  BY DEF Loop, DrainFragments, LoopFails, LoopPauses, NextEvent, CoreFails,
         LoopEnds, AskEncoding, AskConversion, Continuing, InLoop, GuardInv,
         GuardDiscipline
<1>b. /\ {"event", "external", "unknown", "convert", "fragment", "tagDefault"} \subseteq FrameKinds
      /\ {"event", "external", "unknown", "convert"} \cap DefaultFrames = {}
      /\ {"fragment", "tagDefault"} \subseteq DefaultFrames
  BY DEF FrameKinds, DefaultFrames
<1>1. CASE DrainFragments
  <2>1. CASE Call("fragment") /\ defaultDispatch' = TRUE
    BY <2>1, <1>a, <1>b, GuardCalls
  <2>2. CASE UNCHANGED <<guardVars, defaultDispatch>>
    BY <2>2, GuardKept
  <2>. QED  BY <1>1, <2>1, <2>2 DEF DrainFragments
<1>2. CASE LoopFails
  BY <1>2, <1>a, GuardFinishes DEF LoopFails, defaultVars
<1>3. CASE LoopPauses
  BY <1>3, <1>a, GuardFinishes DEF LoopPauses, defaultVars
<1>4. CASE NextEvent
  <2>1. CASE DropEvent
    BY <2>1, GuardKept DEF DropEvent, defaultVars
  <2>2. ASSUME NEW event, NEW n, Dispatch(event, n) PROVE GuardInv'
    <3>1. CASE UNCHANGED <<guardVars, defaultDispatch>>
      BY <3>1, GuardKept
    <3>2. CASE Call("event") /\ UNCHANGED defaultVars
      BY <3>2, <1>a, <1>b, GuardCalls DEF defaultVars
    <3>3. CASE Call("external") /\ UNCHANGED defaultVars
      BY <3>3, <1>a, <1>b, GuardCalls DEF defaultVars
    <3>4. CASE Call("tagDefault") /\ defaultDispatch' = TRUE
      BY <3>4, <1>a, <1>b, GuardCalls
    <3>. QED  BY <2>2, <3>1, <3>2, <3>3, <3>4 DEF Dispatch, defaultVars
  <2>. QED  BY <1>4, <2>1, <2>2 DEF NextEvent
<1>5. CASE CoreFails
  BY <1>5, <1>a, GuardFinishes DEF CoreFails, defaultVars
<1>6. CASE LoopEnds
  BY <1>6, <1>a, GuardFinishes DEF LoopEnds, MergeFails, defaultVars
<1>7. CASE AskEncoding
  <2>1. CASE Call("unknown")
    BY <2>1, <1>7, <1>a, <1>b, GuardCalls DEF AskEncoding, defaultVars
  <2>2. CASE Finish("ERROR")
    BY <2>2, <1>7, <1>a, GuardFinishes DEF AskEncoding, defaultVars
  <2>. QED  BY <1>7, <2>1, <2>2 DEF AskEncoding
<1>8. CASE AskConversion
  BY <1>8, <1>a, <1>b, GuardCalls DEF AskConversion, defaultVars
<1>. QED  BY <1>1, <1>2, <1>3, <1>4, <1>5, <1>6, <1>7, <1>8 DEF Loop

\* The innermost callback returns: nothing is left, or the callback that asked
\* for the default handler.
LEMMA GuardPops ==
  ASSUME GuardInv, NEW f \in FrameKinds, f # "release", Returns(f),
         UNCHANGED <<ctl, busy>>, frames' = Pop(frames), defaultDispatch' = FALSE
  PROVE  GuardInv'
<1>1. /\ frames \in Seq(FrameKinds) /\ frames # << >> /\ Final(frames) = f
      /\ busy = TRUE /\ ctl \in Controls /\ ctl # "idle"
  BY DEF Returns, GuardInv, GuardDiscipline
<1>2. Len(frames) = 1 \/ Len(frames) = 2
  <2>1. Len(frames) \in Nat \ {0} /\ Len(frames) <= 2
    BY <1>1, EmptySeq DEF GuardInv, GuardDiscipline
  <2>2. \A k \in Nat \ {0} : k <= 2 => k = 1 \/ k = 2
    OBVIOUS
  <2>. QED  BY <2>1, <2>2
<1>3. CASE Len(frames) = 1
  <2>1. frames' = << >> /\ frames[1] = f
    BY <1>1, <1>3, PopFrame DEF Final
  <2>2. ctl' \in {"loop", "freed"}
    BY <1>1, <2>1 DEF GuardInv, GuardDiscipline, Controls
  <2>. QED  BY <1>1, <2>1, <2>2, GuardEmpty
<1>4. CASE Len(frames) = 2
  <2>1. frames[1] \in FrameKinds
    BY <1>1, <1>4
  <2>2. /\ frames' \in Seq(FrameKinds) /\ Len(frames') = 1
    <3>1. Pop(frames) \in Seq(FrameKinds) /\ Len(Pop(frames)) = Len(frames) - 1
      BY <1>1, PopFrame
    <3>. QED  BY <3>1, <1>4
  <2>3. frames'[1] = frames[1]
    BY <1>1, <1>4, <2>2, PopFrame DEF Final
  <2>4. /\ frames[1] \notin DefaultFrames
        /\ frames[1] = "release" <=> ctl \in {"refused", "reset", "free"}
    BY <1>1, <1>4 DEF GuardInv, GuardDiscipline
  <2>. QED  BY <1>1, <2>1, <2>2, <2>3, <2>4, GuardOne
<1>. QED  BY <1>2, <1>3, <1>4

LEMMA GuardReturn == GuardInv /\ Return => GuardInv'
<1>. SUFFICES ASSUME GuardInv, Return PROVE GuardInv'
  OBVIOUS
<1>a. /\ {"event", "external", "unknown", "convert", "release"} \subseteq FrameKinds
      /\ {"event", "external", "unknown", "convert", "release"} \cap DefaultFrames = {}
      /\ DefaultFrames \subseteq FrameKinds /\ "release" \notin DefaultFrames
  BY DEF FrameKinds, DefaultFrames
<1>b. ASSUME NEW f, f \notin DefaultFrames, Returns(f) PROVE defaultDispatch = FALSE
  BY <1>b DEF Returns, GuardInv, GuardDiscipline
<1>1. CASE ReturnEvent
  BY <1>1, <1>a, <1>b, GuardPops DEF ReturnEvent, defaultVars
<1>2. CASE ReturnExternal
  BY <1>2, <1>a, <1>b, GuardPops DEF ReturnExternal, defaultVars
<1>3. CASE ReturnDefault
  BY <1>3, <1>a, GuardPops DEF ReturnDefault
<1>4. CASE ReturnConversion
  <2>1. CASE frames' = Pop(frames) /\ UNCHANGED <<ctl, busy>>
    BY <2>1, <1>4, <1>a, <1>b, GuardPops DEF ReturnConversion, defaultVars
  <2>2. CASE Finish("ERROR")
    BY <2>2, <1>4, <1>a, <1>b, GuardFinishes DEF ReturnConversion, defaultVars
  <2>. QED  BY <1>4, <2>1, <2>2 DEF ReturnConversion
<1>5. CASE AcceptEncoding
  BY <1>5, <1>a, <1>b, GuardPops DEF AcceptEncoding, defaultVars
<1>6. CASE RefuseEncoding
  <2>1. defaultDispatch' = FALSE /\ ctl' = "refused" /\ busy' = TRUE
    BY <1>6, <1>a, <1>b DEF RefuseEncoding, Returns, defaultVars, GuardInv, GuardDiscipline
  <2>2. frames \in Seq(FrameKinds) /\ frames # << >> /\ Final(frames) = "unknown"
    BY <1>6 DEF RefuseEncoding, Returns, GuardInv
  <2>3. Len(frames) = 1
    <3>1. Len(frames) \in Nat \ {0} /\ Len(frames) <= 2
      BY <2>2, EmptySeq DEF GuardInv, GuardDiscipline
    <3>2. Len(frames) # 2
      BY <2>2 DEF GuardInv, GuardDiscipline, Final
    <3>3. \A k \in Nat \ {0} : k <= 2 /\ k # 2 => k = 1
      OBVIOUS
    <3>. QED  BY <3>1, <3>2, <3>3
  <2>4. Pop(frames) = << >>
    BY <2>2, <2>3, PopFrame
  <2>5. frames' = Append(<< >>, "release") /\ << >> \in Seq(FrameKinds) /\ Len(<< >>) = 0
    BY <1>6, <2>4, EmptySeq DEF RefuseEncoding
  <2>6. /\ frames' \in Seq(FrameKinds) /\ Len(frames') = Len(<< >>) + 1
        /\ frames'[1] = "release"
    BY <2>5, <1>a, PushFrame
  <2>7. Len(frames') = 1 /\ ctl' \in Controls
    BY <2>1, <2>5, <2>6 DEF Controls
  <2>. QED  BY <1>a, <2>1, <2>6, <2>7, GuardOne
<1>7. CASE NoEncoding
  BY <1>7, <1>a, <1>b, GuardFinishes DEF NoEncoding, FailEncoding, defaultVars
<1>8. CASE ReturnRelease
  <2>1. defaultDispatch = FALSE /\ busy = TRUE
    BY <1>8, <1>a, <1>b DEF ReturnRelease, Returns, GuardInv, GuardDiscipline
  <2>2. CASE FailEncoding /\ UNCHANGED defaultVars
    BY <2>2, <2>1, GuardFinishes DEF FailEncoding, defaultVars
  <2>3. CASE ClearDocument /\ ctl' = "idle" /\ frames' = << >> /\ busy' = FALSE
    BY <2>3, <2>1, GuardEmpty DEF ClearDocument
  <2>4. CASE ctl' = "freed" /\ frames' = << >> /\ UNCHANGED <<busy, defaultVars>>
    BY <2>4, <2>1, GuardEmpty DEF defaultVars
  <2>. QED  BY <1>8, <2>2, <2>3, <2>4 DEF ReturnRelease
<1>. QED  BY <1>1, <1>2, <1>3, <1>4, <1>5, <1>6, <1>7, <1>8 DEF Return

LEMMA GuardStep == GuardInv /\ [Next]_vars => GuardInv'
<1>1. GuardInv /\ UNCHANGED vars => GuardInv'
  BY GuardKept DEF vars, defaultVars
<1>. QED  BY <1>1, GuardRequests, GuardLoop, GuardReturn DEF Next

\* For every application, the guard is set exactly while a guarded operation
\* runs, callbacks nest no deeper than DefaultCurrent allows, and the
\* default-dispatch flag is set exactly inside a default callback.
THEOREM GuardCorrect == Spec => []GuardDiscipline
<1>1. GuardInv => GuardDiscipline
  BY DEF GuardInv
<1>. QED  BY <1>1, GuardInit, GuardStep, PTL DEF Spec

-----------------------------------------------------------------------------
(***************************************************************************)
(* A failed document stays failed                                          *)
(***************************************************************************)

\* Documents are counted.
Counted == generation \in Nat

LEMMA CountedStep == Counted /\ [Next]_vars => Counted'
<1>. SUFFICES ASSUME Counted, [Next]_vars PROVE generation' \in Nat
  BY DEF Counted
<1>1. CASE UNCHANGED vars
  BY <1>1 DEF Counted, vars, documentVars, fedVars
<1>2. CASE Requests
  BY <1>2 DEF Requests, Parse, GetBuffer, ParseBuffer, Resume, Reset, Free,
    Refuse, StaysFailed, FeedFails, Feed, Enter, ClearDocument, Counted,
    documentVars, fedVars
<1>3. CASE Calls
  BY <1>3 DEF Calls, StopParser, SetHandler, DefaultCurrent, Refuse, Counted,
    documentVars, fedVars
<1>4. CASE Loop
  BY <1>4 DEF Loop, DrainFragments, LoopFails, LoopPauses, NextEvent, CoreFails,
    LoopEnds, AskEncoding, AskConversion, Counted, documentVars, fedVars
<1>5. CASE Return
  BY <1>5 DEF Return, ReturnEvent, ReturnExternal, ReturnDefault,
    ReturnConversion, AcceptEncoding, RefuseEncoding, NoEncoding,
    ReturnRelease, ClearDocument, Counted, documentVars, fedVars
<1>. QED  BY <1>1, <1>2, <1>3, <1>4, <1>5 DEF Next

\* What a step has to keep when the document failed before it.
StaysTerminal ==
  /\ parseError' # "none" /\ result' \in {result, "ERROR"}
  /\ UNCHANGED <<log, consumed>>

\* Failing again is failing.
LEMMA FailsOnly ==
  ASSUME NEW code \in ParseErrors, Fail(code)
  PROVE  parseError' # "none"
BY DEF Fail, ParseErrors

LEMMA TerminalRequests ==
  Counted /\ parseError # "none" /\ (Requests \/ Calls)
    => generation' # generation \/ StaysTerminal
<1>. SUFFICES ASSUME Counted, parseError # "none", Requests \/ Calls
              PROVE  generation' # generation \/ StaysTerminal
  OBVIOUS
<1>1. ASSUME ClearDocument PROVE generation' # generation
  BY <1>1 DEF ClearDocument, Counted
<1>2. CASE Requests
  BY <1>1, <1>2
  DEF Requests, Parse, GetBuffer, ParseBuffer, Resume, Reset, Free, Refuse,
    StaysFailed, FeedFails, Feed, StaysTerminal, documentVars, failVars,
    coreVars, queueVars, logVars
<1>3. CASE \E resumable \in BOOLEAN : StopParser(resumable)
  BY <1>3, FailsOnly
  DEF StopParser, Refuse, StaysTerminal, documentVars, failVars, coreVars,
    queueVars, logVars, ParseErrors
<1>4. CASE \E handler \in Changeable : SetHandler(handler)
  BY <1>4 DEF SetHandler, StaysTerminal, documentVars, failVars, coreVars,
    queueVars, logVars
<1>5. CASE DefaultCurrent
  BY <1>5, FailsOnly
  DEF DefaultCurrent, StaysTerminal, documentVars, failVars, coreVars,
    queueVars, logVars, ParseErrors
<1>. QED  BY <1>2, <1>3, <1>4, <1>5 DEF Calls

\* The loop gives up at once, or completes an aborted tag.
LEMMA TerminalLoop ==
  parseError # "none" /\ Loop
    => \/ StaysTerminal
       \/ parseError = "aborted" /\ parseError' # "none" /\ UNCHANGED result
<1>. SUFFICES ASSUME parseError # "none", Loop
              PROVE  \/ StaysTerminal
                     \/ /\ parseError = "aborted" /\ parseError' # "none"
                        /\ UNCHANGED result
  OBVIOUS
<1>1. CASE LoopFails
  BY <1>1 DEF LoopFails, Finish, StaysTerminal, documentVars, failVars, coreVars,
    queueVars, logVars
<1>2. CASE LoopPauses
  BY <1>2 DEF LoopPauses, Failing, Pausing
<1>3. CASE Continuing
  <2>1. parseError = "aborted" /\ FinishingTag
    BY <1>3 DEF Continuing, Failing
  <2>2. pending # << >>
    BY <2>1 DEF FinishingTag
  <2>3. NextEvent
    BY <1>3, <2>2 DEF Loop, DrainFragments, Draining, LoopFails, LoopPauses,
      Continuing, CoreFails, LoopEnds, AskEncoding, AskConversion
  <2>4. parseError' # "none" /\ UNCHANGED result
    BY <2>3, FailsOnly DEF NextEvent, DropEvent, failVars, ParseErrors
  <2>. QED  BY <2>1, <2>4
<1>4. CASE DrainFragments
  BY <1>4 DEF DrainFragments, Draining
<1>. QED
  BY <1>1, <1>2, <1>3, <1>4
  DEF Loop, NextEvent, CoreFails, LoopEnds, AskEncoding, AskConversion

LEMMA TerminalReturn ==
  Counted /\ parseError # "none" /\ Return
    => \/ generation' # generation
       \/ StaysTerminal
       \/ parseError = "aborted" /\ parseError' # "none" /\ UNCHANGED result
<1>. SUFFICES ASSUME Counted, parseError # "none", Return
              PROVE  generation' # generation \/ StaysTerminal
  OBVIOUS
<1>1. CASE ReturnEvent \/ ReturnDefault
  BY <1>1 DEF ReturnEvent, ReturnDefault, StaysTerminal, documentVars, failVars,
    coreVars, queueVars, logVars
<1>2. CASE ReturnExternal
  BY <1>2, FailsOnly DEF ReturnExternal, StaysTerminal, documentVars, failVars,
    coreVars, queueVars, logVars, ParseErrors
<1>3. CASE ReturnConversion
  BY <1>3 DEF ReturnConversion, Finish, StaysTerminal, failVars, logVars
<1>4. CASE AcceptEncoding
  BY <1>4 DEF AcceptEncoding
<1>5. CASE RefuseEncoding
  BY <1>5 DEF RefuseEncoding, StaysTerminal, failVars, queueVars, logVars
<1>6. CASE NoEncoding
  BY <1>6 DEF NoEncoding, FailEncoding, Finish, StaysTerminal, failVars,
    documentVars, coreVars, queueVars, logVars
<1>7. CASE ReturnRelease
  BY <1>7 DEF ReturnRelease, ClearDocument, FailEncoding, Finish, StaysTerminal,
    failVars, documentVars, coreVars, queueVars, logVars, Counted
<1>. QED  BY <1>1, <1>2, <1>3, <1>4, <1>5, <1>6, <1>7 DEF Return

\* For every application: once parsing failed no call succeeds before Reset,
\* and unless the application itself aborted, no event is delivered.
THEOREM FailedStaysFailed == Spec => TerminalError
<1>1. Init => Counted
  BY DEF Init, Counted
<1>2. Counted /\ [Next]_vars => [TerminalStep]_vars
  BY TerminalRequests, TerminalLoop, TerminalReturn
  DEF Next, TerminalStep, StaysTerminal, vars
<1>. QED  BY <1>1, <1>2, CountedStep, PTL DEF Spec, TerminalError
-----------------------------------------------------------------------------
(***************************************************************************)
(* Types                                                                   *)
(***************************************************************************)

LEMMA EmptySeqs ==
  /\ << >> \in Seq(FrameKinds) /\ << >> \in Seq(Tokens) /\ << >> \in Seq(Events)
  /\ << >> \in Seq(Delivered) /\ << >> \in Seq(Pieces) /\ << >> \in Seq(Nat)
BY EmptySeq

LEMMA EventsOfType == \A token \in Tokens : EventsOf(token) \in Seq(Events)
<1>1. /\ <<"Text">> \in Seq(Events) /\ <<"Declaration">> \in Seq(Events)
      /\ <<"External">> \in Seq(Events) /\ << >> \in Seq(Events)
      /\ <<"StartNamespace", "EndNamespace">> \in Seq(Events)
      /\ <<"StartNamespace", "StartElement", "EndElement", "EndNamespace">> \in Seq(Events)
  BY DEF Events, TagEvents
<1>. QED  BY <1>1 DEF Tokens, EventsOf

LEMMA AppendType ==
  ASSUME NEW S, NEW s \in Seq(S), NEW e \in S PROVE Append(s, e) \in Seq(S)
OBVIOUS

\* What a callback leaves to be typed.
LEMMA CallType ==
  ASSUME TypeOK, NEW f \in FrameKinds, Call(f)
  PROVE  frames' \in Seq(FrameKinds) /\ ctl' \in Controls /\ busy' \in BOOLEAN
BY AppendType DEF TypeOK, Call

LEMMA FinishType ==
  ASSUME NEW status \in {"OK", "ERROR", "SUSPENDED"}, Finish(status)
  PROVE  /\ frames' \in Seq(FrameKinds) /\ ctl' \in Controls /\ busy' \in BOOLEAN
         /\ result' \in {"none", "OK", "ERROR", "SUSPENDED"}
BY EmptySeqs DEF Finish, Controls

LEMMA FailType ==
  ASSUME TypeOK, NEW code \in ParseErrors, Fail(code)
  PROVE  /\ parseError' \in {"none"} \cup ParseErrors /\ error' \in Codes
         /\ failures' \subseteq ParseErrors
BY DEF TypeOK, Fail, Codes

LEMMA PopType ==
  ASSUME TypeOK, NEW f, Returns(f) PROVE Pop(frames) \in Seq(FrameKinds)
BY PopFrame DEF TypeOK, Returns

LEMMA ClearType ==
  ASSUME TypeOK, ClearDocument, frames' \in Seq(FrameKinds), ctl' \in Controls,
         busy' \in BOOLEAN, UNCHANGED encodingVars
  PROVE  TypeOK'
<1>1. generation' \in Nat /\ installed' \subseteq Handlers
  BY DEF ClearDocument, TypeOK
<1>2. state' \in States /\ error' \in Codes
  BY DEF ClearDocument, States, Codes
<1>. QED  BY <1>1, <1>2, EmptySeqs DEF ClearDocument, TypeOK, encodingVars

\* What the application feeds is a sequence of tokens.
LEMMA InputType == Input \subseteq Seq(Tokens)
BY ChunksAssumption DEF Input, ExternalSubset

LEMMA TypeRequests == TypeOK /\ Requests => TypeOK'
<1>. SUFFICES ASSUME TypeOK, Requests PROVE TypeOK'
  OBVIOUS
<1>. USE DEF TypeOK, guardVars, failVars, defaultVars, encodingVars, queueVars,
             coreVars, fedVars, logVars, documentVars
<1>a. ASSUME NEW c \in Codes, Refuse(c) PROVE TypeOK'
  BY <1>a DEF Refuse
<1>b. ASSUME StaysFailed PROVE TypeOK'
  BY <1>b DEF StaysFailed
<1>c. ASSUME NEW chunk \in Input, NEW final \in BOOLEAN, Feed(chunk, final)
      PROVE  TypeOK'
  BY <1>c, InputType DEF Feed, Enter, Controls, States, Codes
<1>d. /\ {"none", "invalid_argument", "no_memory", "limit", "no_buffer", "not_suspended"} \subseteq Codes
      /\ Closed => state \in Codes
  BY DEF Codes, RequestErrors, Closed
<1>e. ASSUME FeedFails PROVE TypeOK'
  <2>1. state' \in States
    BY <1>e DEF FeedFails, States
  <2>2. /\ parseError' \in {"none"} \cup ParseErrors /\ error' \in Codes
        /\ failures' \subseteq ParseErrors
    BY <1>e, FailType DEF FeedFails, ParseErrors
  <2>. QED  BY <1>e, <2>1, <2>2 DEF FeedFails
<1>f. "release" \in FrameKinds /\ {"reset", "free", "freed"} \subseteq Controls
  BY DEF FrameKinds, Controls
<1>g. ASSUME GiveUpEncoding
      PROVE  /\ encoding' \in Nat /\ multibyte' \in BOOLEAN /\ created' \in Nat
             /\ released' \in Seq(Nat)
  BY <1>g, AppendType DEF GiveUpEncoding
<1>1. CASE Parse
  BY <1>1, <1>a, <1>b, <1>c, <1>d, <1>e DEF Parse
<1>2. CASE GetBuffer
  <2>1. CASE \E c \in Codes : Refuse(c)
    BY <2>1, <1>a
  <2>2. CASE \E chunk \in Input : bufferLen' = IF chunk = << >> THEN 1 ELSE Len(chunk)
    <3>1. bufferLen' \in Nat
      BY <2>2, InputType
    <3>. QED  BY <1>2, <3>1, <1>a, <1>d DEF GetBuffer
  <2>. QED  BY <1>2, <1>d, <2>1, <2>2 DEF GetBuffer
<1>3. CASE ParseBuffer
  BY <1>3, <1>a, <1>b, <1>c, <1>d DEF ParseBuffer
<1>4. CASE Resume
  <2>1. CASE Refuse("not_suspended") \/ StaysFailed
    BY <2>1, <1>a, <1>b, <1>d
  <2>2. CASE Enter /\ UNCHANGED <<tokens, coreFinal, fed, feeds>>
    BY <2>2 DEF Enter, Controls, States, Codes
  <2>. QED  BY <1>4, <2>1, <2>2 DEF Resume
<1>5. CASE Reset
  <2>1. CASE Refuse("no_memory")
    BY <2>1, <1>a, <1>d
  <2>2. CASE ClearDocument /\ UNCHANGED <<guardVars, encodingVars>>
    BY <2>2, ClearType
  <2>3. CASE /\ GiveUpEncoding /\ ctl' = "reset" /\ busy' = TRUE
             /\ frames' = Append(frames, "release")
             /\ UNCHANGED <<state, error, failVars, bufferLen, defaultVars,
                            installed, documentVars, calls, result>>
    <3>1. frames' \in Seq(FrameKinds) /\ ctl' \in Controls
      BY <2>3, <1>f, AppendType
    <3>. QED  BY <2>3, <3>1, <1>g
  <2>. QED  BY <1>5, <2>1, <2>2, <2>3 DEF Reset
<1>6. CASE Free
  <2>1. CASE ctl' = "freed" /\ UNCHANGED <<frames, encodingVars>>
    BY <1>6, <2>1, <1>f DEF Free
  <2>2. CASE GiveUpEncoding /\ ctl' = "free" /\ frames' = Append(frames, "release")
    <3>1. frames' \in Seq(FrameKinds) /\ ctl' \in Controls
      BY <2>2, <1>f, AppendType
    <3>. QED  BY <1>6, <2>2, <3>1, <1>g DEF Free
  <2>. QED  BY <1>6, <2>1, <2>2 DEF Free
<1>. QED  BY <1>1, <1>2, <1>3, <1>4, <1>5, <1>6 DEF Requests

LEMMA TypeCalls == TypeOK /\ Calls => TypeOK'
<1>. SUFFICES ASSUME TypeOK, Calls PROVE TypeOK'
  OBVIOUS
<1>. USE DEF TypeOK, guardVars, failVars, defaultVars, encodingVars, queueVars,
             coreVars, fedVars, logVars, documentVars
<1>a. ASSUME NEW c \in Codes, Refuse(c) PROVE TypeOK'
  BY <1>a DEF Refuse
<1>b. CountCall => calls' \in Nat
  BY DEF CountCall
<1>1. ASSUME NEW resumable \in BOOLEAN, StopParser(resumable) PROVE TypeOK'
  <2>1. CASE \E c \in {"not_started", "finished", "suspended", "suspend_pe"} : Refuse(c)
    BY <2>1, <1>a DEF Codes, RequestErrors
  <2>2. CASE /\ CountCall /\ state' = "suspended"
             /\ UNCHANGED <<guardVars, error, failVars, bufferLen, defaultVars,
                            installed, encodingVars, documentVars, result>>
    BY <2>2, <1>b DEF States
  <2>3. CASE /\ CountCall /\ Fail("aborted") /\ state' = "finished"
             /\ UNCHANGED <<guardVars, bufferLen, defaultVars, installed,
                            encodingVars, documentVars, result>>
    <3>1. /\ parseError' \in {"none"} \cup ParseErrors /\ error' \in Codes
          /\ failures' \subseteq ParseErrors
      BY <2>3, FailType DEF ParseErrors
    <3>. QED  BY <2>3, <3>1, <1>b DEF States
  <2>. QED  BY <1>1, <2>1, <2>2, <2>3 DEF StopParser
<1>2. ASSUME NEW handler \in Changeable, SetHandler(handler) PROVE TypeOK'
  <2>1. installed' \subseteq Handlers
    BY <1>2, HandlersAssumption DEF SetHandler
  <2>. QED  BY <1>2, <2>1, <1>b DEF SetHandler
<1>3. CASE DefaultCurrent
  <2>1. /\ parseError' \in {"none"} \cup ParseErrors /\ error' \in Codes
        /\ failures' \subseteq ParseErrors
    <3>1. CASE Fail("unexpected") \/ Fail("no_memory")
      BY <3>1, FailType DEF ParseErrors
    <3>2. CASE UNCHANGED <<error, failVars>>
      BY <3>2
    <3>. QED  BY <1>3, <3>1, <3>2 DEF DefaultCurrent
  <2>2. /\ frames' \in Seq(FrameKinds) /\ ctl' \in Controls /\ busy' \in BOOLEAN
        /\ defaultDispatch' \in BOOLEAN /\ defaultPending' \in Seq(Pieces)
    <3>1. CASE UNCHANGED <<guardVars, defaultVars>>
      BY <3>1
    <3>2. CASE Call("current") /\ defaultDispatch' = TRUE /\ UNCHANGED defaultPending
      BY <3>2, CallType DEF FrameKinds
    <3>. QED  BY <1>3, <3>1, <3>2 DEF DefaultCurrent
  <2>. QED  BY <1>3, <1>b, <2>1, <2>2 DEF DefaultCurrent
<1>. QED  BY <1>1, <1>2, <1>3 DEF Calls

\* The fragments queued for one event.
LEMMA QueuedType ==
  ASSUME TypeOK, NEW n \in Nat
  PROVE  /\ [i \in 1..Len(Fragments) |-> <<generation, n, Fragments[i]>>] \in Seq(Pieces)
         /\ <<generation, n, "raw">> \in Pieces
         /\ << <<generation, n, "raw">> >> \in Seq(Pieces)
<1>1. Len(Fragments) = 3
  BY DEF Fragments
<1>2. \A i \in 1..3 : <<generation, n, Fragments[i]>> \in Pieces
  BY <1>1 DEF Pieces, TypeOK
<1>3. <<generation, n, "raw">> \in Pieces
  BY DEF Pieces, TypeOK
<1>. QED  BY <1>1, <1>2, <1>3

LEMMA DispatchType ==
  ASSUME TypeOK, NEW event \in Events, NEW n \in Nat, Dispatch(event, n)
  PROVE  /\ frames' \in Seq(FrameKinds) /\ ctl' \in Controls /\ busy' \in BOOLEAN
         /\ defaultDispatch' \in BOOLEAN /\ defaultPending' \in Seq(Pieces)
         /\ log' \in Seq(Delivered) /\ fragmentLog' \in Seq(Pieces)
<1>1. log' \in Seq(Delivered)
  <2>1. <<n, event>> \in Delivered /\ log \in Seq(Delivered)
    BY DEF Delivered, TypeOK
  <2>. QED  BY <2>1, AppendType DEF Dispatch
<1>2. CASE UNCHANGED <<guardVars, defaultDispatch, fragmentLog>>
  <2>1. CASE UNCHANGED defaultPending
    BY <1>1, <1>2, <2>1 DEF TypeOK, guardVars
  <2>2. CASE defaultPending' = defaultPending \o
               (IF event = "Declaration"
                THEN [i \in 1..Len(Fragments) |-> <<generation, n, Fragments[i]>>]
                ELSE << <<generation, n, "raw">> >>)
    <3>1. \A s, t \in Seq(Pieces) : s \o t \in Seq(Pieces)
      OBVIOUS
    <3>2. defaultPending' \in Seq(Pieces)
      BY <2>2, <3>1, QueuedType DEF TypeOK
    <3>. QED  BY <1>1, <1>2, <3>2 DEF TypeOK, guardVars
  <2>. QED  BY <1>2, <2>1, <2>2 DEF Dispatch, defaultVars
<1>3. CASE Call(IF event = "External" THEN "external" ELSE "event")
           /\ UNCHANGED <<defaultVars, fragmentLog>>
  <2>1. (IF event = "External" THEN "external" ELSE "event") \in FrameKinds
    BY DEF FrameKinds
  <2>. QED  BY <1>1, <1>3, <2>1, CallType DEF TypeOK, defaultVars
<1>4. CASE /\ Call("tagDefault") /\ defaultDispatch' = TRUE
           /\ fragmentLog' = Append(fragmentLog, <<generation, n, "raw">>)
           /\ UNCHANGED defaultPending
  <2>1. fragmentLog' \in Seq(Pieces)
    BY <1>4, QueuedType, AppendType DEF TypeOK
  <2>. QED  BY <1>1, <1>4, <2>1, CallType DEF TypeOK, FrameKinds
<1>. QED  BY <1>2, <1>3, <1>4 DEF Dispatch, defaultVars

\* The event the core returns next, and what it leaves behind.
LEMMA NextEventType ==
  ASSUME TypeOK, NextEvent
  PROVE  LET queue == IF QueueFirst THEN pending ELSE EventsOf(Head(tokens)) IN
         /\ Head(queue) \in Events /\ consumed' \in Nat
         /\ pending' \in Seq(Events) /\ tokens' \in Seq(Tokens)
         /\ coreError' \in {"none"} \cup ParseErrors
<1>. DEFINE queue == IF QueueFirst THEN pending ELSE EventsOf(Head(tokens))
<1>1. CASE QueueFirst /\ queue # << >> /\ UNCHANGED <<tokens, consumed, coreError>>
  <2>1. queue \in Seq(Events)
    BY <1>1 DEF TypeOK
  <2>2. Head(queue) \in Events /\ Tail(queue) \in Seq(Events)
    BY <1>1, <2>1, HeadTailProperties
  <2>. QED  BY <1>1, <2>2 DEF NextEvent, TypeOK
<1>2. CASE /\ ~QueueFirst /\ tokens # << >> /\ queue # << >>
           /\ tokens' = Tail(tokens) /\ consumed' = consumed + 1
           /\ coreError' = IF Head(tokens) = "badtag" THEN "bad_token" ELSE coreError
  <2>1. Head(tokens) \in Tokens /\ Tail(tokens) \in Seq(Tokens)
    BY <1>2, HeadTailProperties DEF TypeOK
  <2>2. queue \in Seq(Events)
    BY <1>2, <2>1, EventsOfType
  <2>3. Head(queue) \in Events /\ Tail(queue) \in Seq(Events)
    BY <1>2, <2>2, HeadTailProperties
  <2>. QED  BY <1>2, <2>1, <2>3 DEF NextEvent, TypeOK, ParseErrors
<1>. QED  BY <1>1, <1>2 DEF NextEvent

LEMMA TypeLoop == TypeOK /\ Loop => TypeOK'
<1>. SUFFICES ASSUME TypeOK, Loop PROVE TypeOK'
  OBVIOUS
<1>. USE DEF guardVars, failVars, defaultVars, encodingVars, queueVars,
             coreVars, fedVars, logVars, documentVars
<1>a. "none" \in Codes /\ ParseErrors \subseteq Codes
  BY DEF Codes
<1>b. {"no_memory", "limit", "bad_token", "unknown_encoding"} \subseteq ParseErrors
  BY DEF ParseErrors
<1>c. {"fragment", "unknown", "convert"} \subseteq FrameKinds
  BY DEF FrameKinds
<1>1. CASE DrainFragments
  <2>1. Head(defaultPending) \in Pieces /\ Tail(defaultPending) \in Seq(Pieces)
    BY <1>1, HeadTailProperties DEF DrainFragments, Draining, TypeOK
  <2>2. CASE /\ Call("fragment") /\ defaultDispatch' = TRUE
             /\ defaultPending' = Tail(defaultPending)
             /\ fragmentLog' = Append(fragmentLog, Head(defaultPending))
    <3>1. fragmentLog' \in Seq(Pieces)
      BY <2>1, <2>2, AppendType DEF TypeOK
    <3>2. frames' \in Seq(FrameKinds) /\ ctl' \in Controls /\ busy' \in BOOLEAN
      BY <2>2, <1>c, CallType
    <3>. QED  BY <1>1, <2>1, <2>2, <3>1, <3>2 DEF DrainFragments, TypeOK
  <2>3. CASE /\ defaultPending' = << >>
             /\ UNCHANGED <<guardVars, defaultDispatch, fragmentLog>>
    BY <1>1, <2>3, EmptySeqs DEF DrainFragments, TypeOK
  <2>. QED  BY <1>1, <2>2, <2>3 DEF DrainFragments
<1>2. CASE LoopFails
  BY <1>2, <1>a, FinishType DEF LoopFails, TypeOK
<1>3. CASE LoopPauses
  BY <1>3, <1>a, FinishType DEF LoopPauses, TypeOK
<1>4. CASE NextEvent
  <2>. DEFINE queue == IF QueueFirst THEN pending ELSE EventsOf(Head(tokens))
  <2>1. /\ Head(queue) \in Events /\ consumed' \in Nat
        /\ pending' \in Seq(Events) /\ tokens' \in Seq(Tokens)
        /\ coreError' \in {"none"} \cup ParseErrors
    BY <1>4, NextEventType
  <2>2. CASE Dispatch(Head(queue), consumed') /\ UNCHANGED <<error, failVars>>
    <3>. HIDE DEF queue
    <3>1. /\ frames' \in Seq(FrameKinds) /\ ctl' \in Controls /\ busy' \in BOOLEAN
          /\ defaultDispatch' \in BOOLEAN /\ defaultPending' \in Seq(Pieces)
          /\ log' \in Seq(Delivered) /\ fragmentLog' \in Seq(Pieces)
      BY <2>1, <2>2, DispatchType
    <3>. QED  BY <1>4, <2>1, <2>2, <3>1 DEF NextEvent, TypeOK
  <2>3. CASE DropEvent
    <3>1. /\ parseError' \in {"none"} \cup ParseErrors /\ error' \in Codes
          /\ failures' \subseteq ParseErrors
      BY <2>3, <1>b, FailType DEF DropEvent
    <3>. QED  BY <1>4, <2>1, <2>3, <3>1 DEF NextEvent, DropEvent, TypeOK
  <2>. QED  BY <1>4, <2>2, <2>3 DEF NextEvent
<1>5. CASE CoreFails
  <2>1. PICK code \in ParseErrors : coreError' = code /\ Fail(code)
    BY <1>5 DEF CoreFails
  <2>2. /\ parseError' \in {"none"} \cup ParseErrors /\ error' \in Codes
        /\ failures' \subseteq ParseErrors
    BY <2>1, FailType
  <2>. QED  BY <1>5, <2>1, <2>2, FinishType DEF CoreFails, TypeOK
<1>6. CASE LoopEnds
  <2>1. CASE MergeFails
    <3>1. /\ parseError' \in {"none"} \cup ParseErrors /\ error' \in Codes
          /\ failures' \subseteq ParseErrors
      BY <2>1, <1>b, FailType DEF MergeFails
    <3>. QED  BY <1>6, <2>1, <3>1, FinishType DEF LoopEnds, MergeFails, TypeOK
  <2>2. CASE /\ subset' = IF IsFinished /\ ExternalSubset THEN "merged" ELSE subset
             /\ state' = IF IsFinished THEN "finished" ELSE state
             /\ error' = "none" /\ Finish("OK") /\ UNCHANGED failVars
    <3>1. subset' \in {"none", "unmerged", "merged"} /\ state' \in States
      BY <2>2 DEF TypeOK, States
    <3>. QED  BY <1>6, <2>2, <3>1, <1>a, FinishType DEF LoopEnds, TypeOK
  <2>. QED  BY <1>6, <2>1, <2>2 DEF LoopEnds
<1>7. CASE AskEncoding
  <2>1. CASE Call("unknown") /\ UNCHANGED <<error, failVars, result>>
    BY <1>7, <2>1, <1>b, <1>c, CallType DEF AskEncoding, TypeOK
  <2>2. CASE (\E code \in {"unknown_encoding", "no_memory"} : Fail(code)) /\ Finish("ERROR")
    <3>1. /\ parseError' \in {"none"} \cup ParseErrors /\ error' \in Codes
          /\ failures' \subseteq ParseErrors
      BY <2>2, <1>b, FailType
    <3>. QED  BY <1>7, <2>2, <3>1, <1>b, FinishType DEF AskEncoding, TypeOK
  <2>. QED  BY <1>7, <2>1, <2>2 DEF AskEncoding
<1>8. CASE AskConversion
  BY <1>8, <1>c, CallType DEF AskConversion, TypeOK
<1>. QED  BY <1>1, <1>2, <1>3, <1>4, <1>5, <1>6, <1>7, <1>8 DEF Loop

\* A callback the loop waits for has a token it is about.
WaitInv ==
  frames # << >> /\ frames[1] \in {"unknown", "convert"} => tokens # << >>

\* The innermost callback, other than DefaultCurrent's, is the only one.
LEMMA OnlyFrame ==
  ASSUME GuardInv, NEW kind \in FrameKinds \ {"current"}, Returns(kind)
  PROVE  frames # << >> /\ frames[1] = kind /\ Pop(frames) = << >>
<1>1. frames # << >> /\ frames \in Seq(FrameKinds) /\ Final(frames) = kind
  BY DEF Returns, GuardInv
<1>2. Len(frames) = 1
  <2>1. Len(frames) \in Nat \ {0} /\ Len(frames) <= 2
    BY <1>1, EmptySeq DEF GuardInv, GuardDiscipline
  <2>2. Len(frames) # 2
    BY <1>1 DEF GuardInv, GuardDiscipline, Final
  <2>3. \A k \in Nat \ {0} : k <= 2 /\ k # 2 => k = 1
    OBVIOUS
  <2>. QED  BY <2>1, <2>2, <2>3
<1>. QED  BY <1>1, <1>2, PopFrame DEF Final

LEMMA WaitStep == GuardInv /\ WaitInv /\ [Next]_vars => WaitInv'
<1>. SUFFICES ASSUME GuardInv, WaitInv, [Next]_vars PROVE WaitInv'
  OBVIOUS
<1>. USE DEF guardVars, documentVars, coreVars, queueVars
<1>a. ASSUME frames' = << >> PROVE WaitInv'
  BY <1>a DEF WaitInv
<1>b. ASSUME UNCHANGED <<frames, tokens>> PROVE WaitInv'
  BY <1>b DEF WaitInv
<1>c. ASSUME NEW f, frames = << >>, frames' = Append(frames, f),
             f \notin {"unknown", "convert"}
      PROVE  WaitInv'
  BY <1>c DEF WaitInv
<1>d. ~busy => frames = << >>
  BY DEF GuardInv, GuardDiscipline
<1>e. ASSUME NEW status, Finish(status) PROVE WaitInv'
  BY <1>e, <1>a DEF Finish
<1>1. CASE UNCHANGED vars
  BY <1>1, <1>b DEF vars
<1>2. CASE Requests
  <2>1. CASE UNCHANGED frames
    BY <1>2, <1>a, <1>d, <2>1
    DEF Requests, Parse, GetBuffer, ParseBuffer, Resume, Reset, Free
  <2>2. CASE frames' = Append(frames, "release")
    BY <1>2, <1>c, <1>d, <2>2
    DEF Requests, Parse, GetBuffer, ParseBuffer, Resume, Reset, Free
  <2>3. UNCHANGED frames \/ frames' = Append(frames, "release")
    BY <1>2 DEF Requests, Parse, GetBuffer, ParseBuffer, Resume, Reset, Free,
      Refuse, StaysFailed, FeedFails, Feed, Enter
  <2>. QED  BY <2>1, <2>2, <2>3
<1>3. CASE Calls
  <2>1. CASE UNCHANGED <<frames, tokens>>
    BY <1>b, <2>1
  <2>2. CASE frames' = Append(frames, "current") /\ UNCHANGED tokens
    <3>1. frames # << >> => frames'[1] = frames[1]
      BY <2>2, PushFrame DEF GuardInv, FrameKinds
    <3>. QED  BY <2>2, <3>1, <1>c DEF WaitInv
  <2>. QED  BY <1>3, <2>1, <2>2 DEF Calls, StopParser, SetHandler, DefaultCurrent,
              Refuse, Call
<1>4. CASE Loop
  <2>1. CASE DrainFragments
    BY <2>1, <1>b, <1>c DEF DrainFragments, InLoop, Call
  <2>2. CASE LoopFails \/ LoopPauses \/ CoreFails
    BY <2>2, <1>e DEF LoopFails, LoopPauses, CoreFails
  <2>3. CASE NextEvent
    <3>1. frames = << >>
      BY <2>3 DEF NextEvent, Continuing, InLoop
    <3>2. \/ UNCHANGED frames
          \/ \E f \in {"external", "event", "tagDefault"} : frames' = Append(frames, f)
      BY <2>3 DEF NextEvent, Dispatch, DropEvent, Call
    <3>. QED  BY <3>1, <3>2, <1>a, <1>c
  <2>4. CASE LoopEnds
    BY <2>4, <1>e DEF LoopEnds, MergeFails
  <2>5. CASE AskEncoding \/ AskConversion
    BY <2>5 DEF AskEncoding, AskConversion, Finish, Call, WaitInv
  <2>. QED  BY <1>4, <2>1, <2>2, <2>3, <2>4, <2>5 DEF Loop
<1>5. CASE Return
  <2>1. CASE ReturnEvent \/ ReturnExternal \/ ReturnConversion \/ AcceptEncoding
    BY <2>1, <1>a, <1>e, OnlyFrame
    DEF ReturnEvent, ReturnExternal, ReturnConversion, AcceptEncoding, FrameKinds
  <2>2. CASE ReturnDefault
    <3>1. /\ frames # << >> /\ frames \in Seq(FrameKinds) /\ frames' = Pop(frames)
          /\ UNCHANGED tokens
      BY <2>2 DEF ReturnDefault, Returns, GuardInv
    <3>2. CASE Len(frames) = 1
      BY <3>1, <3>2, <1>a, PopFrame
    <3>3. CASE Len(frames) = 2
      <4>1. Final(Pop(frames)) = frames[1] /\ Len(Pop(frames)) = 1
        <5>1. /\ Len(Pop(frames)) = Len(frames) - 1
              /\ Len(frames) = 2 => Final(Pop(frames)) = frames[1]
          BY <3>1, PopFrame
        <5>2. 2 - 1 = 1
          OBVIOUS
        <5>. QED  BY <5>1, <5>2, <3>3
      <4>2. frames'[1] = frames[1]
        BY <3>1, <4>1 DEF Final
      <4>3. frames # << >> /\ UNCHANGED tokens
        BY <3>1
      <4>. QED  BY <4>2, <4>3 DEF WaitInv
    <3>4. Len(frames) \in Nat \ {0} /\ Len(frames) <= 2
      BY <3>1, EmptySeq DEF GuardInv, GuardDiscipline
    <3>5. \A k \in Nat \ {0} : k <= 2 => k = 1 \/ k = 2
      OBVIOUS
    <3>. QED  BY <3>2, <3>3, <3>4, <3>5
  <2>3. CASE RefuseEncoding
    <3>1. Pop(frames) = << >>
      BY <2>3, OnlyFrame DEF RefuseEncoding, FrameKinds
    <3>2. frames' = Append(<< >>, "release")
      BY <2>3, <3>1 DEF RefuseEncoding
    <3>. QED  BY <3>2 DEF WaitInv
  <2>4. CASE NoEncoding \/ ReturnRelease
    BY <2>4, <1>a, <1>e DEF NoEncoding, ReturnRelease, FailEncoding
  <2>. QED  BY <1>5, <2>1, <2>2, <2>3, <2>4 DEF Return
<1>. QED  BY <1>1, <1>2, <1>3, <1>4, <1>5 DEF Next

LEMMA TypeReturn == TypeOK /\ GuardInv /\ WaitInv /\ Return => TypeOK'
<1>. SUFFICES ASSUME TypeOK, GuardInv, WaitInv, Return PROVE TypeOK'
  OBVIOUS
<1>. USE DEF guardVars, failVars, defaultVars, encodingVars, queueVars,
             coreVars, fedVars, logVars, documentVars
<1>a. {"external", "bad_token", "no_memory", "unknown_encoding"} \subseteq ParseErrors
  BY DEF ParseErrors
<1>b. ASSUME NEW code \in ParseErrors, Fail(code)
      PROVE  /\ parseError' \in {"none"} \cup ParseErrors /\ error' \in Codes
             /\ failures' \subseteq ParseErrors
  BY <1>b, FailType
<1>c. ASSUME FailEncoding
      PROVE  /\ parseError' \in {"none"} \cup ParseErrors /\ error' \in Codes
             /\ failures' \subseteq ParseErrors
             /\ frames' \in Seq(FrameKinds) /\ ctl' \in Controls
             /\ busy' \in BOOLEAN
             /\ result' \in {"none", "OK", "ERROR", "SUSPENDED"}
  BY <1>c, <1>a, <1>b, FinishType DEF FailEncoding, TypeOK
<1>d. Returns("convert") \/ Returns("unknown") => Tail(tokens) \in Seq(Tokens)
  <2>1. Returns("convert") \/ Returns("unknown") => tokens # << >>
    BY OnlyFrame DEF WaitInv, FrameKinds
  <2>. QED  BY <2>1, HeadTailProperties DEF TypeOK
<1>1. CASE ReturnEvent
  BY <1>1, PopType DEF ReturnEvent, TypeOK
<1>2. CASE ReturnExternal
  <2>1. CASE Fail("external")
    BY <1>2, <2>1, <1>a, <1>b, PopType DEF ReturnExternal, TypeOK
  <2>2. CASE UNCHANGED <<error, failVars>>
    BY <1>2, <2>2, PopType DEF ReturnExternal, TypeOK
  <2>. QED  BY <1>2, <2>1, <2>2 DEF ReturnExternal
<1>3. CASE ReturnDefault
  BY <1>3, PopType DEF ReturnDefault, TypeOK
<1>4. CASE ReturnConversion
  <2>1. CASE Finish("ERROR") /\ UNCHANGED <<error, failVars, tokens, coreError>>
    BY <1>4, <2>1, FinishType DEF ReturnConversion, TypeOK
  <2>2. CASE /\ frames' = Pop(frames) /\ tokens' = <<"text">> \o Tail(tokens)
             /\ UNCHANGED <<ctl, busy, error, failVars, coreError, result>>
    <3>1. <<"text">> \in Seq(Tokens)
      BY DEF Tokens
    <3>2. tokens' \in Seq(Tokens)
      BY <1>4, <2>2, <3>1, <1>d DEF ReturnConversion
    <3>. QED  BY <1>4, <2>2, <3>2, PopType DEF ReturnConversion, TypeOK
  <2>3. CASE /\ coreError' = "bad_token" /\ Fail("bad_token") /\ Finish("ERROR")
             /\ UNCHANGED tokens
    BY <1>4, <2>3, <1>a, <1>b, FinishType DEF ReturnConversion, TypeOK
  <2>. QED  BY <1>4, <2>1, <2>2, <2>3 DEF ReturnConversion
<1>5. CASE AcceptEncoding
  <2>1. /\ frames' \in Seq(FrameKinds) /\ tokens' \in Seq(Tokens)
        /\ consumed' \in Nat /\ created' \in Nat /\ encoding' \in Nat
    BY <1>5, <1>d, PopType DEF AcceptEncoding, TypeOK
  <2>. QED  BY <1>5, <2>1 DEF AcceptEncoding, TypeOK
<1>6. CASE RefuseEncoding
  <2>1. /\ parseError' \in {"none"} \cup ParseErrors /\ error' \in Codes
        /\ failures' \subseteq ParseErrors
        /\ coreError' \in {"none"} \cup ParseErrors
    BY <1>6, <1>a, <1>b DEF RefuseEncoding, TypeOK
  <2>2. created' \in Nat /\ released' \in Seq(Nat)
    BY <1>6, AppendType DEF RefuseEncoding, TypeOK
  <2>3. frames' \in Seq(FrameKinds) /\ ctl' \in Controls
    <3>1. Pop(frames) \in Seq(FrameKinds) /\ "release" \in FrameKinds
      BY <1>6, PopType DEF RefuseEncoding, FrameKinds
    <3>. QED  BY <1>6, <3>1, AppendType DEF RefuseEncoding, Controls
  <2>. QED  BY <1>6, <2>1, <2>2, <2>3 DEF RefuseEncoding, TypeOK
<1>7. CASE NoEncoding
  BY <1>7, <1>c DEF NoEncoding, TypeOK
<1>8. CASE ReturnRelease
  <2>1. CASE FailEncoding /\ UNCHANGED <<state, bufferLen, defaultVars, installed,
                                         documentVars, calls>>
    BY <1>8, <2>1, <1>c DEF ReturnRelease, TypeOK
  <2>2. CASE ClearDocument /\ ctl' = "idle" /\ frames' = << >> /\ busy' = FALSE
    BY <1>8, <2>2, ClearType, EmptySeqs DEF ReturnRelease, Controls
  <2>3. CASE /\ ctl' = "freed" /\ frames' = << >>
             /\ UNCHANGED <<busy, state, error, failVars, bufferLen,
                            defaultVars, installed, documentVars, calls, result>>
    BY <1>8, <2>3, EmptySeqs DEF ReturnRelease, Controls, TypeOK
  <2>. QED  BY <1>8, <2>1, <2>2, <2>3 DEF ReturnRelease
<1>. QED  BY <1>1, <1>2, <1>3, <1>4, <1>5, <1>6, <1>7, <1>8 DEF Return

TypeInv == TypeOK /\ GuardInv /\ WaitInv

LEMMA TypeInit == Init => TypeInv
<1>1. Init => TypeOK
  <2>. SUFFICES ASSUME Init PROVE TypeOK
    OBVIOUS
  <2>1. /\ ctl \in Controls /\ state \in States /\ error \in Codes
        /\ installed \subseteq Handlers /\ failures \subseteq ParseErrors
    BY HandlersAssumption DEF Init, Controls, States, Codes
  <2>2. /\ frames \in Seq(FrameKinds) /\ defaultPending \in Seq(Pieces)
        /\ released \in Seq(Nat) /\ tokens \in Seq(Tokens)
        /\ pending \in Seq(Events) /\ fed \in Seq(Tokens)
        /\ log \in Seq(Delivered) /\ fragmentLog \in Seq(Pieces)
    BY EmptySeqs DEF Init
  <2>3. Init => subset \in {"none", "unmerged", "merged"}
    BY FlagsAssumption DEF Init
  <2>. QED  BY <2>1, <2>2, <2>3 DEF Init, TypeOK
<1>2. Init => WaitInv
  BY DEF Init, WaitInv
<1>. QED  BY <1>1, <1>2, GuardInit DEF TypeInv

LEMMA TypeStep == TypeInv /\ [Next]_vars => TypeInv'
<1>. SUFFICES ASSUME TypeInv, [Next]_vars PROVE TypeInv'
  OBVIOUS
<1>1. CASE UNCHANGED vars
  <2>1. TypeOK'
    BY <1>1 DEF TypeInv, TypeOK, vars, guardVars, failVars, defaultVars,
      encodingVars, queueVars, coreVars, fedVars, logVars, documentVars
  <2>. QED  BY <2>1, GuardStep, WaitStep DEF TypeInv
<1>2. CASE Next
  <2>1. TypeOK'
    BY <1>2, TypeRequests, TypeCalls, TypeLoop, TypeReturn DEF TypeInv, Next
  <2>. QED  BY <2>1, GuardStep, WaitStep DEF TypeInv
<1>. QED  BY <1>1, <1>2

\* For every application every variable keeps its type: in particular no step
\* takes the head of an empty queue.
THEOREM TypeCorrect == Spec => []TypeOK
<1>1. TypeInv => TypeOK
  BY DEF TypeInv
<1>. QED  BY <1>1, TypeInit, TypeStep, PTL DEF Spec

=============================================================================
