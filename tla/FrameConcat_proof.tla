-------------------------- MODULE FrameConcat_proof --------------------------
(***************************************************************************)
(* Proofs about FrameConcat, for every set of diagrams and every limit:    *)
(* the age of an entry identifies it, so the buffer is bounded, and a call *)
(* merges at most one frame.                                               *)
(***************************************************************************)
EXTENDS FrameConcat, FiniteSetTheorems, TLAPS

USE LiveLimitAssumption

\* Sorting rearranges: the result is as long and made of the same diagrams.
LEMMA SortedType ==
    ASSUME NEW q \in Seq(Diagrams), NEW s \in SortedById(q)
    PROVE  s \in Seq(Diagrams) /\ Len(s) = Len(q)
<1>1. PICK p \in Injection(DOMAIN q, DOMAIN q) : s = [i \in DOMAIN q |-> q[p[i]]]
  BY DEF SortedById
<1>2. p \in [DOMAIN q -> DOMAIN q]
  BY <1>1 DEF Injection
<1>3. DOMAIN q = 1..Len(q) /\ Len(q) \in Nat
  OBVIOUS
<1>4. \A i \in 1..Len(q) : q[p[i]] \in Diagrams
  BY <1>2, <1>3
<1>5. s \in [1..Len(q) -> Diagrams]
  BY <1>1, <1>3, <1>4
<1> QED
  BY <1>3, <1>5

(***************************************************************************)
(* One call, with the result s of its sort, and the facts about it that    *)
(* every proof below starts from.                                          *)
(***************************************************************************)
LEMMA CallEffect ==
    ASSUME TypeOK, NEW d \in Diagrams, Concat(d)
    PROVE  \E s \in Seq(Diagrams) :
            LET b == WithSegments(d.task, s) IN
            /\ Len(s) = Len(Segments(d.task)) + 1
            /\ \A t \in DOMAIN b : b[t] \in Entry /\ b[t].segments # <<>>
            /\ DOMAIN b \subseteq TaskIdsOf(Diagrams)
            /\ DOMAIN merged' = {t \in DOMAIN b : Complete(b[t])}
            /\ \A t \in DOMAIN merged' : merged'[t] = b[t].segments
            /\ DOMAIN frameConcatBuffer' = Remaining(b)
            /\ \A t \in Remaining(b) :
                frameConcatBuffer'[t] = [segments |-> b[t].segments, live |-> b[t].live + 1]
<1>1. Segments(d.task) \in Seq(Diagrams)
  BY DEF TypeOK, Entry, Segments
<1>2. Append(Segments(d.task), d) \in Seq(Diagrams)
  BY <1>1
<1>3. PICK s \in SortedById(Append(Segments(d.task), d)) :
        LET b == WithSegments(d.task, s) IN
        /\ merged' = [t \in {u \in DOMAIN b : Complete(b[u])} |-> b[t].segments]
        /\ frameConcatBuffer' = Age(b, Remaining(b))
  BY DEF Concat
<1> DEFINE b == WithSegments(d.task, s)
<1>4. s \in Seq(Diagrams) /\ Len(s) = Len(Segments(d.task)) + 1
  <2>1. s \in Seq(Diagrams) /\ Len(s) = Len(Append(Segments(d.task), d))
    BY <1>2, SortedType
  <2> QED
    BY <1>1, <2>1
<1>5. DOMAIN b = DOMAIN frameConcatBuffer \cup {d.task}
  BY DEF WithSegments
<1>6. \A t \in DOMAIN b :
        b[t] = [segments |-> IF t = d.task THEN s ELSE Segments(t), live |-> LiveCount(t)]
  BY DEF WithSegments
<1>7. \A t \in DOMAIN b : b[t] \in Entry /\ b[t].segments # <<>>
  <2> SUFFICES ASSUME NEW t \in DOMAIN b
               PROVE  b[t] \in Entry /\ b[t].segments # <<>>
    OBVIOUS
  <2>1. LiveCount(t) \in Nat
    BY DEF LiveCount, TypeOK
  <2>2. CASE t = d.task
    <3>1. Len(s) # 0
      BY <1>1, <1>4
    <3>2. s # <<>>
      BY <3>1
    <3>3. b[t] = [segments |-> s, live |-> LiveCount(t)]
      BY <1>6, <2>2
    <3> HIDE DEF b
    <3> QED
      BY <1>4, <2>1, <3>2, <3>3 DEF Entry
  <2>3. CASE t # d.task
    <3>1. t \in DOMAIN frameConcatBuffer
      BY <1>5, <2>3
    <3>2. Segments(t) \in Seq(Diagrams) /\ Segments(t) # <<>>
      BY <3>1 DEF Segments, TypeOK, Entry
    <3>3. b[t] = [segments |-> Segments(t), live |-> LiveCount(t)]
      BY <1>6, <2>3
    <3> HIDE DEF b
    <3> QED
      BY <2>1, <3>2, <3>3 DEF Entry
  <2> QED
    BY <2>2, <2>3
<1>8. DOMAIN b \subseteq TaskIdsOf(Diagrams)
  BY <1>5 DEF TypeOK, TaskIdsOf
<1>9. /\ DOMAIN merged' = {t \in DOMAIN b : Complete(b[t])}
      /\ \A t \in DOMAIN merged' : merged'[t] = b[t].segments
  BY <1>3
<1>10. /\ DOMAIN frameConcatBuffer' = Remaining(b)
       /\ \A t \in Remaining(b) :
            frameConcatBuffer'[t] = [segments |-> b[t].segments, live |-> b[t].live + 1]
  <2>1. frameConcatBuffer' = [t \in Remaining(b) |-> [b[t] EXCEPT !.live = @ + 1]]
    BY <1>3 DEF Age
  <2>2. \A t \in Remaining(b) : b[t] \in Entry
    BY <1>7 DEF Remaining
  <2>3. \A t \in Remaining(b) :
          [b[t] EXCEPT !.live = @ + 1] = [segments |-> b[t].segments, live |-> b[t].live + 1]
    BY <2>2 DEF Entry
  <2> QED
    BY <2>1, <2>3
<1> QED
  BY <1>4, <1>7, <1>8, <1>9, <1>10

(***************************************************************************)
(* The inductive invariant.  BufferBounded follows from the distinct live  *)
(* counts; AtMostOneMerged from NoneComplete, the fact that only the entry *)
(* a call inserts into can pass the completion test.                       *)
(***************************************************************************)
ConcatInv == TypeOK /\ LiveCountsDistinct /\ NoneComplete /\ SegmentsWithinLive

LEMMA InitInv == Init => ConcatInv
<1> SUFFICES ASSUME Init PROVE ConcatInv
  OBVIOUS
<1>1. DOMAIN frameConcatBuffer = {} /\ DOMAIN merged = {}
  BY DEF Init
<1>2. TypeOK
  BY <1>1 DEF TypeOK
<1>3. LiveCountsDistinct /\ NoneComplete /\ SegmentsWithinLive
  BY <1>1 DEF LiveCountsDistinct, NoneComplete, SegmentsWithinLive
<1> QED
  BY <1>2, <1>3 DEF ConcatInv

LEMMA CallKeepsInv ==
    ASSUME ConcatInv, NEW d \in Diagrams, Concat(d)
    PROVE  ConcatInv' /\ AtMostOneMerged'
<1>1. TypeOK /\ LiveCountsDistinct /\ NoneComplete /\ SegmentsWithinLive
  BY DEF ConcatInv
<1>2. PICK s \in Seq(Diagrams) :
        LET b == WithSegments(d.task, s) IN
        /\ Len(s) = Len(Segments(d.task)) + 1
        /\ \A t \in DOMAIN b : b[t] \in Entry /\ b[t].segments # <<>>
        /\ DOMAIN b \subseteq TaskIdsOf(Diagrams)
        /\ DOMAIN merged' = {t \in DOMAIN b : Complete(b[t])}
        /\ \A t \in DOMAIN merged' : merged'[t] = b[t].segments
        /\ DOMAIN frameConcatBuffer' = Remaining(b)
        /\ \A t \in Remaining(b) :
            frameConcatBuffer'[t] = [segments |-> b[t].segments, live |-> b[t].live + 1]
  BY <1>1, CallEffect
<1> DEFINE b == WithSegments(d.task, s)
<1>3. /\ DOMAIN b = DOMAIN frameConcatBuffer \cup {d.task}
      /\ \A t \in DOMAIN b :
            /\ b[t].live = LiveCount(t)
            /\ b[t].segments = IF t = d.task THEN s ELSE Segments(t)
  BY DEF WithSegments
<1>4. /\ Len(s) = Len(Segments(d.task)) + 1
      /\ \A t \in DOMAIN b : b[t] \in Entry /\ b[t].segments # <<>>
      /\ DOMAIN b \subseteq TaskIdsOf(Diagrams)
      /\ DOMAIN merged' = {t \in DOMAIN b : Complete(b[t])}
      /\ \A t \in DOMAIN merged' : merged'[t] = b[t].segments
      /\ DOMAIN frameConcatBuffer' = Remaining(b)
      /\ \A t \in Remaining(b) :
            frameConcatBuffer'[t] = [segments |-> b[t].segments, live |-> b[t].live + 1]
  BY <1>2
<1> HIDE DEF b
<1>5. \A t \in Remaining(b) :
        /\ t \in DOMAIN b
        /\ ~Complete(b[t])
        /\ b[t].live + 1 \in 1..LiveLimit
  <2> SUFFICES ASSUME NEW t \in Remaining(b)
               PROVE  t \in DOMAIN b /\ ~Complete(b[t]) /\ b[t].live + 1 \in 1..LiveLimit
    OBVIOUS
  <2>1. t \in DOMAIN b /\ ~Complete(b[t]) /\ ~(b[t].live + 1 > LiveLimit)
    BY DEF Remaining, Expires
  <2>2. b[t].live \in Nat
    BY <1>4, <2>1 DEF Entry
  <2> QED
    BY <2>1, <2>2
<1>6. TypeOK'
  <2>1. \A t \in DOMAIN frameConcatBuffer' :
          /\ frameConcatBuffer'[t] \in Entry
          /\ frameConcatBuffer'[t].live \in 1..LiveLimit
          /\ frameConcatBuffer'[t].segments # <<>>
    BY <1>4, <1>5 DEF Entry
  <2>2. \A t \in DOMAIN merged' : merged'[t] \in Seq(Diagrams)
    BY <1>4 DEF Entry
  <2> QED
    BY <1>4, <1>5, <2>1, <2>2 DEF TypeOK
<1>7. \A t \in DOMAIN frameConcatBuffer :
        /\ LiveCount(t) = frameConcatBuffer[t].live
        /\ Segments(t) = frameConcatBuffer[t].segments
        /\ frameConcatBuffer[t].live \in 1..LiveLimit
        /\ Segments(t) \in Seq(Diagrams)
  BY <1>1 DEF LiveCount, Segments, TypeOK, Entry
<1>8. \A t : t \notin DOMAIN frameConcatBuffer => LiveCount(t) = 0 /\ Segments(t) = <<>>
  BY DEF LiveCount, Segments
<1>9. LiveCountsDistinct'
  <2> SUFFICES ASSUME NEW t \in DOMAIN frameConcatBuffer',
                      NEW u \in DOMAIN frameConcatBuffer',
                      frameConcatBuffer'[t].live = frameConcatBuffer'[u].live
               PROVE  t = u
    BY DEF LiveCountsDistinct
  <2>1. b[t].live \in Nat /\ b[u].live \in Nat
    BY <1>4, <1>5 DEF Entry
  <2>2. LiveCount(t) = LiveCount(u)
    BY <1>3, <1>4, <1>5, <2>1
  <2>3. CASE t \in DOMAIN frameConcatBuffer /\ u \in DOMAIN frameConcatBuffer
    BY <1>1, <1>7, <2>2, <2>3 DEF LiveCountsDistinct
  <2>4. CASE t \notin DOMAIN frameConcatBuffer \/ u \notin DOMAIN frameConcatBuffer
    <3>1. t \notin DOMAIN frameConcatBuffer /\ u \notin DOMAIN frameConcatBuffer
      BY <1>7, <1>8, <2>2, <2>4
    <3> QED
      BY <1>3, <1>4, <1>5, <3>1
  <2> QED
    BY <2>3, <2>4
<1>10. NoneComplete'
  BY <1>4, <1>5 DEF NoneComplete, Complete
<1>11. SegmentsWithinLive'
  <2> SUFFICES ASSUME NEW t \in DOMAIN frameConcatBuffer'
               PROVE  Len(frameConcatBuffer'[t].segments) <= frameConcatBuffer'[t].live
    BY DEF SegmentsWithinLive
  <2>1. /\ frameConcatBuffer'[t].segments = b[t].segments
        /\ frameConcatBuffer'[t].live = LiveCount(t) + 1
    BY <1>3, <1>4, <1>5
  <2>2. /\ Len(Segments(t)) <= LiveCount(t)
        /\ Len(Segments(t)) \in Nat
        /\ LiveCount(t) \in Nat
    BY <1>1, <1>7, <1>8 DEF SegmentsWithinLive
  <2>3. Len(b[t].segments) \in {Len(Segments(t)), Len(Segments(t)) + 1}
    BY <1>3, <1>4, <1>5
  <2> QED
    BY <2>1, <2>2, <2>3
<1>12. AtMostOneMerged'
  <2>1. \A t \in DOMAIN merged' : t = d.task
    <3> SUFFICES ASSUME NEW t \in DOMAIN merged', t # d.task PROVE FALSE
      OBVIOUS
    <3>1. t \in DOMAIN frameConcatBuffer /\ Complete(b[t])
      BY <1>3, <1>4
    <3>2. b[t].segments = frameConcatBuffer[t].segments
      BY <1>3, <1>7, <3>1
    <3> QED
      BY <1>1, <3>1, <3>2 DEF NoneComplete, Complete
  <2> QED
    BY <2>1 DEF AtMostOneMerged
<1> QED
  BY <1>6, <1>9, <1>10, <1>11, <1>12 DEF ConcatInv

LEMMA InvAlways == Spec => []ConcatInv
<1>1. ConcatInv /\ [Next]_concatVars => ConcatInv'
  <2> SUFFICES ASSUME ConcatInv, [Next]_concatVars PROVE ConcatInv'
    OBVIOUS
  <2>1. CASE Next
    BY <2>1, CallKeepsInv DEF Next
  <2>2. CASE UNCHANGED concatVars
    BY <2>2 DEF concatVars, ConcatInv, TypeOK, LiveCountsDistinct, NoneComplete,
                SegmentsWithinLive, Complete
  <2> QED
    BY <2>1, <2>2
<1> QED
  BY <1>1, InitInv, PTL DEF Spec

-----------------------------------------------------------------------------
\* The buffer keeps its type, and every entry an age between 1 and the limit.
THEOREM TypeCorrect == Spec => []TypeOK
BY InvAlways, PTL DEF ConcatInv

(***************************************************************************)
(* The live count identifies an entry of frameConcatBuffer: the counters   *)
(* of the logger are never equal, however the diagrams arrive.             *)
(***************************************************************************)
THEOREM CountsDistinct == Spec => []LiveCountsDistinct
BY InvAlways, PTL DEF ConcatInv

\* No entry holds more segments than the calls it has lived through.
THEOREM SegmentsBounded == Spec => []SegmentsWithinLive
BY InvAlways, PTL DEF ConcatInv

(***************************************************************************)
(* The buffer never holds more than LiveLimit tasks: the live counts are   *)
(* an injection of the tasks into 1..LiveLimit.                            *)
(***************************************************************************)
THEOREM TasksBounded == Spec => []BufferBounded
<1>1. ConcatInv => BufferBounded
  <2> SUFFICES ASSUME ConcatInv PROVE BufferBounded
    OBVIOUS
  <2> DEFINE age == [t \in DOMAIN frameConcatBuffer |-> frameConcatBuffer[t].live]
  <2>1. age \in [DOMAIN frameConcatBuffer -> 1..LiveLimit]
    BY DEF ConcatInv, TypeOK
  <2>2. IsInjective(age)
    BY DEF ConcatInv, LiveCountsDistinct, IsInjective
  <2>3. age \in Injection(DOMAIN frameConcatBuffer, 1..LiveLimit)
    BY <2>1, <2>2 DEF Injection
  <2>4. IsFiniteSet(1..LiveLimit) /\ Cardinality(1..LiveLimit) = LiveLimit
    BY FS_Interval
  <2>5. Cardinality(DOMAIN frameConcatBuffer) <= Cardinality(1..LiveLimit)
    BY <2>3, <2>4, FS_Injection
  <2> QED
    BY <2>4, <2>5 DEF BufferBounded
<1> QED
  BY <1>1, InvAlways, PTL

(***************************************************************************)
(* A call of the handler hands at most one frame to the decoder, although  *)
(* it looks for complete frames among all tasks.                           *)
(***************************************************************************)
THEOREM OneMergePerCall == Spec => []AtMostOneMerged
<1>1. Init => AtMostOneMerged
  BY DEF Init, AtMostOneMerged
<1>2. ConcatInv /\ AtMostOneMerged /\ [Next]_concatVars => AtMostOneMerged'
  <2> SUFFICES ASSUME ConcatInv, AtMostOneMerged, [Next]_concatVars
               PROVE  AtMostOneMerged'
    OBVIOUS
  <2>1. CASE Next
    BY <2>1, CallKeepsInv DEF Next
  <2>2. CASE UNCHANGED concatVars
    BY <2>2 DEF concatVars, AtMostOneMerged
  <2> QED
    BY <2>1, <2>2
<1> QED
  BY <1>1, <1>2, InvAlways, PTL DEF Spec

(***************************************************************************)
(* The entries that lived through at most a calls hold at most a segments  *)
(* together: a call ages all entries and adds one segment to one of them.  *)
(* For a = LiveLimit these are all segments held.                          *)
(***************************************************************************)
YoungSegments(a) ==
    UNION {{t} \X DOMAIN frameConcatBuffer[t].segments :
              t \in {u \in DOMAIN frameConcatBuffer : frameConcatBuffer[u].live <= a}}

YoungBounded ==
    \A a \in 0..LiveLimit :
        IsFiniteSet(YoungSegments(a)) /\ Cardinality(YoungSegments(a)) <= a

LEMMA CallKeepsYoung ==
    ASSUME TypeOK, YoungBounded, NEW d \in Diagrams, Concat(d)
    PROVE  YoungBounded'
<1>1. PICK s \in Seq(Diagrams) :
        LET b == WithSegments(d.task, s) IN
        /\ Len(s) = Len(Segments(d.task)) + 1
        /\ \A t \in DOMAIN b : b[t] \in Entry /\ b[t].segments # <<>>
        /\ DOMAIN b \subseteq TaskIdsOf(Diagrams)
        /\ DOMAIN merged' = {t \in DOMAIN b : Complete(b[t])}
        /\ \A t \in DOMAIN merged' : merged'[t] = b[t].segments
        /\ DOMAIN frameConcatBuffer' = Remaining(b)
        /\ \A t \in Remaining(b) :
            frameConcatBuffer'[t] = [segments |-> b[t].segments, live |-> b[t].live + 1]
  BY CallEffect
<1> DEFINE b   == WithSegments(d.task, s)
           new == <<d.task, Len(Segments(d.task)) + 1>>
<1>2. /\ DOMAIN b = DOMAIN frameConcatBuffer \cup {d.task}
      /\ \A t \in DOMAIN b :
            /\ b[t].live = LiveCount(t)
            /\ b[t].segments = IF t = d.task THEN s ELSE Segments(t)
  BY DEF WithSegments
<1>3. \A t \in DOMAIN frameConcatBuffer' :
        /\ t \in DOMAIN frameConcatBuffer \cup {d.task}
        /\ frameConcatBuffer'[t].live = LiveCount(t) + 1
        /\ frameConcatBuffer'[t].segments = IF t = d.task THEN s ELSE Segments(t)
  <2>1. \A t \in Remaining(b) : t \in DOMAIN b
    BY DEF Remaining
  <2> QED
    BY <1>1, <1>2, <2>1
<1> HIDE DEF b
<1>4. \A t : Segments(t) \in Seq(Diagrams) /\ LiveCount(t) \in Nat
  BY DEF Segments, LiveCount, TypeOK, Entry
<1>5. \A t \in DOMAIN frameConcatBuffer :
        Segments(t) = frameConcatBuffer[t].segments /\ LiveCount(t) = frameConcatBuffer[t].live
  BY DEF Segments, LiveCount
<1>6. \A t : t \notin DOMAIN frameConcatBuffer => Segments(t) = <<>>
  BY DEF Segments
<1>7. \A a : a = 0 => YoungSegments(a)' = {}
  BY <1>3, <1>4 DEF YoungSegments
<1>8. ASSUME NEW a \in 0..LiveLimit - 1
      PROVE  YoungSegments(a + 1)' \subseteq YoungSegments(a) \cup {new}
  <2> SUFFICES ASSUME NEW t \in DOMAIN frameConcatBuffer',
                      frameConcatBuffer'[t].live <= a + 1,
                      NEW k \in DOMAIN frameConcatBuffer'[t].segments,
                      <<t, k>> # new
               PROVE  <<t, k>> \in YoungSegments(a)
    BY DEF YoungSegments
  <2>1. LiveCount(t) <= a
    BY <1>3, <1>4
  <2>2. k \in 1..Len(Segments(t))
    <3>1. CASE t = d.task
      BY <1>1, <1>3, <1>4, <3>1
    <3>2. CASE t # d.task
      BY <1>3, <1>4, <3>2
    <3> QED
      BY <3>1, <3>2
  <2>3. t \in DOMAIN frameConcatBuffer
    BY <1>6, <2>2
  <2>4. k \in DOMAIN frameConcatBuffer[t].segments /\ frameConcatBuffer[t].live <= a
    BY <1>4, <1>5, <2>1, <2>2, <2>3
  <2> QED
    BY <2>3, <2>4 DEF YoungSegments
<1>9. SUFFICES ASSUME NEW a \in 0..LiveLimit
               PROVE  IsFiniteSet(YoungSegments(a)') /\ Cardinality(YoungSegments(a)') <= a
  BY DEF YoungBounded
<1>10. CASE a = 0
  <2> DEFINE Y == YoungSegments(a)'
  <2>1. Y = {}
    BY <1>7, <1>10
  <2> HIDE DEF Y
  <2>2. IsFiniteSet(Y) /\ Cardinality(Y) = 0
    BY <2>1, FS_EmptySet
  <2>3. IsFiniteSet(Y) /\ Cardinality(Y) <= a
    BY <1>10, <2>2
  <2> QED
    BY <2>3 DEF Y
<1>11. CASE a # 0
  <2>1. a - 1 \in 0..LiveLimit - 1 /\ a - 1 \in 0..LiveLimit /\ (a - 1) + 1 = a
    BY <1>11
  <2> DEFINE held == YoungSegments(a - 1)
  <2>2. IsFiniteSet(held) /\ Cardinality(held) <= a - 1 /\ Cardinality(held) \in Nat
    BY <2>1, FS_CardinalityType DEF YoungBounded
  <2>3. YoungSegments(a)' \subseteq held \cup {new}
    BY <1>8, <2>1
  <2> HIDE DEF held, new
  <2>4. /\ IsFiniteSet(held \cup {new})
        /\ Cardinality(held \cup {new}) \in {Cardinality(held), Cardinality(held) + 1}
    BY <2>2, FS_AddElement
  <2>5. /\ IsFiniteSet(YoungSegments(a)')
        /\ Cardinality(YoungSegments(a)') <= Cardinality(held \cup {new})
    BY <2>3, <2>4, FS_Subset
  <2>6. Cardinality(YoungSegments(a)') \in Nat
    BY <2>5, FS_CardinalityType
  <2> QED
    BY <2>2, <2>4, <2>5, <2>6
<1> QED
  BY <1>10, <1>11

(***************************************************************************)
(* The handler never holds more segments than LiveLimit, for all tasks     *)
(* together and whatever arrives (the cap of lines 74-78 is per entry).    *)
(***************************************************************************)
THEOREM SegmentsHeldBounded == Spec => []MemoryBounded
<1>1. Init => YoungBounded
  <2>1. Init => \A a \in 0..LiveLimit : YoungSegments(a) = {}
    BY DEF Init, YoungSegments
  <2> QED
    BY <2>1, FS_EmptySet DEF YoungBounded
<1>2. TypeOK /\ YoungBounded /\ [Next]_concatVars => YoungBounded'
  <2> SUFFICES ASSUME TypeOK, YoungBounded, [Next]_concatVars PROVE YoungBounded'
    OBVIOUS
  <2>1. CASE Next
    BY <2>1, CallKeepsYoung DEF Next
  <2>2. CASE UNCHANGED concatVars
    BY <2>2 DEF concatVars, YoungBounded, YoungSegments
  <2> QED
    BY <2>1, <2>2
<1>3. TypeOK /\ YoungBounded => MemoryBounded
  <2> SUFFICES ASSUME TypeOK, YoungBounded PROVE MemoryBounded
    OBVIOUS
  <2>1. HeldSegments = YoungSegments(LiveLimit)
    BY DEF HeldSegments, YoungSegments, TypeOK
  <2> QED
    BY <2>1 DEF MemoryBounded, YoungBounded
<1> QED
  BY <1>1, <1>2, <1>3, TypeCorrect, PTL DEF Spec
=============================================================================
