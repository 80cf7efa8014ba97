------------------------ MODULE FrameForwarding_proof ------------------------
(***************************************************************************)
(* Theorems about FrameForwarding, for any frames and sizes, any number of *)
(* threads and any losses: the types; and, when no datagram is duplicated  *)
(* and no two task ids are equal, that only complete frames are merged and *)
(* that the logger's file keeps what FrameTransfer promises.               *)
(***************************************************************************)
EXTENDS FrameForwarding, FiniteSetTheorems, TLAPS

USE FramesAssumption, SentDiagramsAssumption

-----------------------------------------------------------------------------
(* Queues                                                                  *)

Distinct(s) == \A i, j \in DOMAIN s : s[i] = s[j] => i = j

LEMMA TailOfQueue ==
    ASSUME NEW S, NEW s \in Seq(S), s # <<>>
    PROVE  /\ Head(s) \in S /\ Head(s) \in ToSet(s)
           /\ Tail(s) \in Seq(S)
           /\ ToSet(Tail(s)) \subseteq ToSet(s)
           /\ Distinct(s) => Distinct(Tail(s)) /\ Head(s) \notin ToSet(Tail(s))
<1>1. Len(s) \in Nat \ {0} /\ DOMAIN s = 1..Len(s) /\ Head(s) = s[1] /\ 1 \in DOMAIN s
  OBVIOUS
<1>2. /\ Tail(s) \in Seq(S)
      /\ DOMAIN Tail(s) = 1..(Len(s) - 1)
      /\ \A n \in DOMAIN Tail(s) : n + 1 \in DOMAIN s /\ Tail(s)[n] = s[n + 1]
  OBVIOUS
<1>3. Head(s) \in S /\ Head(s) \in ToSet(s)
  BY <1>1 DEF ToSet
<1>4. ToSet(Tail(s)) \subseteq ToSet(s)
  BY <1>2 DEF ToSet
<1>5. ASSUME Distinct(s), NEW m \in DOMAIN Tail(s), NEW n \in DOMAIN Tail(s),
             Tail(s)[m] = Tail(s)[n]
      PROVE  m = n
  BY <1>2, <1>5 DEF Distinct
<1>6. ASSUME Distinct(s), NEW n \in DOMAIN Tail(s) PROVE Tail(s)[n] # Head(s)
  <2>1. n + 1 \in DOMAIN s /\ n + 1 # 1
    BY <1>2
  <2> QED
    BY <1>1, <1>2, <1>6, <2>1 DEF Distinct
<1> QED
  BY <1>2, <1>3, <1>4, <1>5, <1>6 DEF Distinct, ToSet

LEMMA EndOfQueue ==
    ASSUME NEW S, NEW s \in Seq(S), NEW e \in S
    PROVE  /\ Append(s, e) \in Seq(S) /\ s \o <<e>> = Append(s, e)
           /\ ToSet(Append(s, e)) = ToSet(s) \cup {e}
           /\ Distinct(s) /\ e \notin ToSet(s) => Distinct(Append(s, e))
<1>1. /\ DOMAIN s = 1..Len(s) /\ Len(s) \in Nat
      /\ Append(s, e) \in Seq(S)
      /\ DOMAIN Append(s, e) = 1..(Len(s) + 1)
      /\ \A n \in DOMAIN s : Append(s, e)[n] = s[n]
      /\ Append(s, e)[Len(s) + 1] = e
  OBVIOUS
<1>2. \A n \in DOMAIN Append(s, e) : n \in DOMAIN s \/ n = Len(s) + 1
  BY <1>1
<1>3. ToSet(Append(s, e)) = ToSet(s) \cup {e}
  BY <1>1, <1>2 DEF ToSet
<1>4. Distinct(s) /\ e \notin ToSet(s) => Distinct(Append(s, e))
  BY <1>1, <1>2 DEF Distinct, ToSet
<1>5. s \o <<e>> = Append(s, e)
  OBVIOUS
<1> QED
  BY <1>1, <1>3, <1>4, <1>5

LEMMA AtMostOneIsSingle ==
    ASSUME NEW S, NEW s \in Seq(S), Len(s) <= 1
    PROVE  s = <<>> \/ \E e \in S : s = <<e>> /\ ToSet(s) = {e}
<1>1. DOMAIN s = 1..Len(s) /\ Len(s) \in Nat
  OBVIOUS
<1>2. CASE Len(s) = 0
  BY <1>2
<1>3. CASE Len(s) = 1
  <2>0. 1..1 = {1}
    OBVIOUS
  <2>1. s[1] \in S /\ DOMAIN s = {1}
    <3>1. 1 \in 1..Len(s)
      BY <1>3
    <3>2. s[1] \in S
      BY <1>1, <3>1
    <3> QED
      BY <1>1, <1>3, <2>0, <3>2
  <2>2. s = <<s[1]>>
    BY <1>3, <2>1
  <2>3. ToSet(s) = {s[1]}
    BY <2>1 DEF ToSet
  <2> QED
    BY <2>1, <2>2, <2>3
<1> QED
  BY <1>1, <1>2, <1>3

-----------------------------------------------------------------------------
(* The split of rxHandle                                                   *)

\* Where the segments of a frame end.
LEMMA SegmentCount ==
    ASSUME NEW f \in Frames
    PROVE  /\ NumSegments(f) \in Nat \ {0}
           /\ (NumSegments(f) - 1) * MaxDiagramLength < SizeOf[f]
           /\ SizeOf[f] <= NumSegments(f) * MaxDiagramLength
<1> DEFINE a == SizeOf[f] + MaxDiagramLength - 1
           m == MaxDiagramLength
           n == NumSegments(f)
<1>1. SizeOf[f] \in Nat \ {0} /\ m \in Nat \ {0} /\ a \in Nat
  OBVIOUS
<1>2. n = a \div m
  BY DEF NumSegments
<1>3. n \in Int /\ n * m <= a /\ a < n * m + m
  BY <1>1, <1>2
<1>4. (n - 1) * m = n * m - m
  BY <1>1, <1>3
<1>5. n * m >= SizeOf[f] /\ (n - 1) * m < SizeOf[f]
  BY <1>1, <1>3, <1>4
<1>6. n > 0
  BY <1>1, <1>3, <1>5
<1> QED
  BY <1>3, <1>5, <1>6

LEMMA DiagramFields ==
    ASSUME NEW f \in Frames, NEW i \in 0..(NumSegments(f) - 1)
    PROVE  /\ Diagram(f, i) \in AllDiagrams
           /\ Diagram(f, i).id = i /\ i \in Nat
           /\ Diagram(f, i).num = NumSegments(f)
           /\ Diagram(f, i).task = TaskIdOf[f]
           /\ Diagram(f, i).frame = f
           /\ Diagram(f, i).total = SizeOf[f]
BY SegmentCount DEF Diagram, AllDiagrams

LEMMA DiagramOf ==
    ASSUME NEW d \in AllDiagrams
    PROVE  /\ d.frame \in Frames
           /\ d.id \in 0..(NumSegments(d.frame) - 1)
           /\ d = Diagram(d.frame, d.id)
           /\ d.num = NumSegments(d.frame)
           /\ d.task = TaskIdOf[d.frame]
           /\ d.total = SizeOf[d.frame]
           /\ d.id \in Nat /\ d.num \in Nat \ {0}
<1>1. PICK f \in Frames : \E i \in 0..(NumSegments(f) - 1) : d = Diagram(f, i)
  BY DEF AllDiagrams
<1> QED
  BY <1>1, DiagramFields, SegmentCount

(***************************************************************************)
(* The segments of a frame tile it: each starts where the one before it    *)
(* ends, and the last one ends with the frame.                             *)
(***************************************************************************)
LEMMA SegmentsTile ==
    ASSUME NEW f \in Frames, NEW i \in 0..(NumSegments(f) - 1)
    PROVE  /\ i = 0 => Diagram(f, i).from = 0
           /\ i + 1 < NumSegments(f) =>
                 Diagram(f, i + 1).from = Diagram(f, i).from + Diagram(f, i).len
           /\ i + 1 = NumSegments(f) =>
                 Diagram(f, i).from + Diagram(f, i).len = SizeOf[f]
<1> DEFINE m == MaxDiagramLength
           n == NumSegments(f)
<1>1. m \in Nat \ {0} /\ n \in Nat \ {0} /\ i \in Nat /\ SizeOf[f] \in Nat
  BY SegmentCount
<1>2. /\ Diagram(f, i).from = i * m
      /\ Diagram(f, i).len = IF i * m + m < SizeOf[f] THEN m ELSE SizeOf[f] - i * m
      /\ Diagram(f, i + 1).from = (i + 1) * m
  BY DEF Diagram, StepLength
<1>3. (n - 1) * m < SizeOf[f] /\ SizeOf[f] <= n * m
  BY SegmentCount
<1> HIDE DEF m, n
<1>4. (i + 1) * m = i * m + m /\ i * m \in Nat
  BY <1>1
<1>5. CASE i + 1 < n
  <2>1. (i + 1) * m <= (n - 1) * m
    BY <1>1, <1>5
  <2>2. (n - 1) * m \in Int /\ (i + 1) * m \in Int
    BY <1>1
  <2> QED
    BY <1>1, <1>2, <1>3, <1>4, <1>5, <2>1, <2>2 DEF n
<1>6. CASE i + 1 = n
  <2>1. ~(i * m + m < SizeOf[f])
    BY <1>1, <1>3, <1>4, <1>6
  <2> QED
    BY <1>1, <1>2, <1>4, <1>6, <2>1 DEF n
<1>7. i = 0 => i * m = 0
  BY <1>1
<1> QED
  BY <1>1, <1>2, <1>5, <1>6, <1>7 DEF n

LEMMA SegmentationType ==
    ASSUME NEW f \in Frames
    PROVE  /\ Segmentation(f) \in Seq(AllDiagrams)
           /\ ToSet(Segmentation(f)) \subseteq {d \in AllDiagrams : d.frame = f}
           /\ Distinct(Segmentation(f))
<1>1. NumSegments(f) \in Nat \ {0}
  BY SegmentCount
<1>2. \A n \in 1..NumSegments(f) : n - 1 \in 0..(NumSegments(f) - 1)
  BY <1>1
<1>3. \A n \in 1..NumSegments(f) :
        /\ Segmentation(f)[n] \in AllDiagrams
        /\ Segmentation(f)[n].frame = f
        /\ Segmentation(f)[n].id = n - 1
  BY <1>2, DiagramFields DEF Segmentation
<1>4. DOMAIN Segmentation(f) = 1..NumSegments(f)
  BY DEF Segmentation
<1>5. Segmentation(f) \in [1..NumSegments(f) -> AllDiagrams]
  BY <1>3 DEF Segmentation
<1>6. Segmentation(f) \in Seq(AllDiagrams)
  BY <1>1, <1>5
<1>7. ToSet(Segmentation(f)) \subseteq {d \in AllDiagrams : d.frame = f}
  BY <1>3, <1>4 DEF ToSet
<1>8. Distinct(Segmentation(f))
  BY <1>3, <1>4 DEF Distinct
<1> QED
  BY <1>6, <1>7, <1>8

\* All segments of a frame, in order: what fromBuffer can decode.
InOrder(s) ==
    /\ s \in Seq(AllDiagrams)
    /\ Len(s) = s[1].num /\ s # <<>>
    /\ \A i \in DOMAIN s : s[i].frame = s[1].frame /\ s[i].id = i - 1

LEMMA InOrderIsIntact ==
    ASSUME NEW s, InOrder(s)
    PROVE  Decodings(s) = {<<s[1].frame>>} /\ s[1].frame \in Frames
<1> DEFINE f == s[1].frame
           n == NumSegments(f)
<1>1. /\ s \in Seq(AllDiagrams) /\ s # <<>> /\ Len(s) = s[1].num
      /\ Len(s) \in Nat \ {0} /\ DOMAIN s = 1..Len(s)
  BY DEF InOrder
<1>2. s[1] \in AllDiagrams /\ Len(s) \in DOMAIN s /\ 1 \in DOMAIN s
  BY <1>1
<1>3. f \in Frames /\ n = Len(s)
  BY <1>1, <1>2, DiagramOf
<1> HIDE DEF f, n
<1>4. \A i \in 1..n : /\ i - 1 \in 0..(n - 1) /\ s[i] = Diagram(f, i - 1)
  <2> SUFFICES ASSUME NEW i \in 1..n PROVE i - 1 \in 0..(n - 1) /\ s[i] = Diagram(f, i - 1)
    OBVIOUS
  <2>1. s[i] \in AllDiagrams /\ s[i].frame = f /\ s[i].id = i - 1
    <3>1. i \in DOMAIN s
      BY <1>1, <1>3
    <3>2. s[i] \in AllDiagrams
      BY <1>1, <3>1
    <3>3. s[i].frame = s[1].frame /\ s[i].id = i - 1
      BY <3>1 DEF InOrder
    <3> QED
      BY <3>2, <3>3 DEF f
  <2> QED
    BY <1>1, <1>3, <2>1, DiagramOf
<1>5. \A i \in DOMAIN s : s[i].from = IF i = 1 THEN 0 ELSE s[i-1].from + s[i-1].len
  <2> SUFFICES ASSUME NEW i \in 1..n
               PROVE  s[i].from = IF i = 1 THEN 0 ELSE s[i-1].from + s[i-1].len
    BY <1>1, <1>3
  <2>1. CASE i = 1
    <3>1. i - 1 = 0 /\ s[i] = Diagram(f, i - 1) /\ i - 1 \in 0..(NumSegments(f) - 1)
      BY <1>4, <2>1 DEF n
    <3>2. Diagram(f, i - 1).from = 0
      BY <1>3, <3>1, SegmentsTile
    <3> QED
      BY <2>1, <3>1, <3>2
  <2>2. CASE i # 1
    <3>1. i - 1 \in 1..n
      BY <1>1, <1>3, <2>2
    <3>2. s[i - 1] = Diagram(f, i - 2) /\ s[i] = Diagram(f, i - 1)
      BY <1>4, <3>1
    <3>3. i - 2 \in 0..(NumSegments(f) - 1) /\ (i - 2) + 1 = i - 1 /\ i - 1 < NumSegments(f)
      BY <1>1, <1>3, <3>1 DEF n
    <3>4. Diagram(f, i - 1).from = Diagram(f, i - 2).from + Diagram(f, i - 2).len
      BY <1>3, <3>3, SegmentsTile
    <3> QED
      BY <2>2, <3>2, <3>4
  <2> QED
    BY <2>1, <2>2
<1>6. Last(s).from + Last(s).len = s[1].total
  <2>1. Last(s) = Diagram(f, n - 1)
    BY <1>1, <1>3, <1>4 DEF Last
  <2>2. n - 1 \in 0..(NumSegments(f) - 1) /\ (n - 1) + 1 = NumSegments(f)
    BY <1>1, <1>3 DEF n
  <2>3. Diagram(f, n - 1).from + Diagram(f, n - 1).len = SizeOf[f]
    BY <1>3, <2>2, SegmentsTile
  <2>4. s[1].total = SizeOf[f]
    BY <1>2, DiagramOf DEF f
  <2> QED
    BY <2>1, <2>3, <2>4
<1>7. Intact(s)
  BY <1>5, <1>6 DEF Intact, InOrder
<1> QED
  BY <1>3, <1>7 DEF Decodings, f

-----------------------------------------------------------------------------
(* A call of FrameConcat                                                   *)

SortedIds(s) == \A i, j \in DOMAIN s : i < j => s[i].id <= s[j].id

\* What std::sort leaves: the same diagrams, in the order of their ids.
LEMMA SortedContents ==
    ASSUME NEW q \in Seq(SentDiagrams), NEW s \in FrameConcat!SortedById(q)
    PROVE  /\ s \in Seq(SentDiagrams) /\ Len(s) = Len(q)
           /\ ToSet(s) \subseteq ToSet(q)
           /\ SortedIds(s)
           /\ Distinct(q) => Distinct(s)
<1>1. PICK p \in FrameConcat!Injection(DOMAIN q, DOMAIN q) :
        /\ s = [i \in DOMAIN q |-> q[p[i]]]
        /\ \A i, j \in DOMAIN q : i < j => q[p[i]].id <= q[p[j]].id
  BY DEF FrameConcat!SortedById
<1>2. /\ p \in [DOMAIN q -> DOMAIN q]
      /\ \A i, j \in DOMAIN q : p[i] = p[j] => i = j
  BY <1>1 DEF FrameConcat!Injection, FrameConcat!IsInjective
<1>3. DOMAIN q = 1..Len(q) /\ Len(q) \in Nat /\ DOMAIN s = DOMAIN q
  BY <1>1
<1>4. \A i \in DOMAIN q : s[i] = q[p[i]] /\ p[i] \in DOMAIN q /\ s[i] \in SentDiagrams
  BY <1>1, <1>2, <1>3
<1>5. s \in [1..Len(q) -> SentDiagrams]
  BY <1>1, <1>3, <1>4
<1>6. s \in Seq(SentDiagrams) /\ Len(s) = Len(q)
  BY <1>3, <1>5
<1>7. ToSet(s) \subseteq ToSet(q)
  BY <1>3, <1>4 DEF ToSet
<1>8. SortedIds(s)
  BY <1>1, <1>3, <1>4 DEF SortedIds
<1>9. Distinct(q) => Distinct(s)
  BY <1>2, <1>3, <1>4 DEF Distinct
<1> QED
  BY <1>6, <1>7, <1>8, <1>9

\* What the segments s of task t may be after a call with d.
ComeFrom(s, t, d) ==
    LET old == FrameConcat!Segments(t) IN
    /\ s \in Seq(SentDiagrams) /\ s # <<>>
    /\ ToSet(s) \subseteq ToSet(old) \cup {x \in {d} : x.task = t}
    /\ SortedIds(old) => SortedIds(s)
    /\ Distinct(old) /\ d \notin ToSet(old) => Distinct(s)

LEMMA CallEffect ==
    ASSUME FrameConcat!TypeOK, NEW d \in SentDiagrams, FrameConcat!Concat(d)
    PROVE  /\ FrameConcat!TypeOK'
           /\ \A t \in DOMAIN frameConcatBuffer' :
                 ComeFrom(frameConcatBuffer'[t].segments, t, d)
           /\ \A t \in DOMAIN merged' :
                 /\ ComeFrom(merged'[t], t, d)
                 /\ Len(merged'[t]) = merged'[t][1].num
                 /\ t \notin DOMAIN frameConcatBuffer'
<1> DEFINE old == FrameConcat!Segments(d.task)
<1>1. old \in Seq(SentDiagrams) /\ Append(old, d) \in Seq(SentDiagrams)
  BY DEF FrameConcat!TypeOK, FrameConcat!Entry, FrameConcat!Segments
<1>2. PICK s \in FrameConcat!SortedById(Append(old, d)) :
        LET b == FrameConcat!WithSegments(d.task, s) IN
        /\ merged' = [t \in {u \in DOMAIN b : FrameConcat!Complete(b[u])} |-> b[t].segments]
        /\ frameConcatBuffer' = FrameConcat!Age(b, FrameConcat!Remaining(b))
  BY DEF FrameConcat!Concat
<1> DEFINE b == FrameConcat!WithSegments(d.task, s)
<1>3. ComeFrom(s, d.task, d)
  <2>1. /\ s \in Seq(SentDiagrams) /\ Len(s) = Len(Append(old, d))
        /\ ToSet(s) \subseteq ToSet(Append(old, d))
        /\ SortedIds(s)
        /\ Distinct(Append(old, d)) => Distinct(s)
    BY <1>1, SortedContents
  <2>2. /\ ToSet(Append(old, d)) = ToSet(old) \cup {d}
        /\ Distinct(old) /\ d \notin ToSet(old) => Distinct(Append(old, d))
    BY <1>1, EndOfQueue
  <2>3. s # <<>>
    <3>1. Len(Append(old, d)) # 0
      BY <1>1
    <3> QED
      BY <2>1, <3>1
  <2> HIDE DEF old
  <2> QED
    BY <2>1, <2>2, <2>3 DEF ComeFrom, old
<1>4. DOMAIN b = DOMAIN frameConcatBuffer \cup {d.task}
  BY DEF FrameConcat!WithSegments
<1>5. \A t \in DOMAIN b :
        b[t] = [segments |-> IF t = d.task THEN s ELSE FrameConcat!Segments(t),
                live |-> FrameConcat!LiveCount(t)]
  BY DEF FrameConcat!WithSegments
<1>6. DOMAIN b \subseteq FrameConcat!TaskIdsOf(SentDiagrams)
  BY <1>4 DEF FrameConcat!TypeOK, FrameConcat!TaskIdsOf
<1>7. /\ DOMAIN merged' = {t \in DOMAIN b : FrameConcat!Complete(b[t])}
      /\ \A t \in DOMAIN merged' : merged'[t] = b[t].segments
  BY <1>2
<1>8. frameConcatBuffer' = [t \in FrameConcat!Remaining(b) |->
                                [b[t] EXCEPT !.live = @ + 1]]
  BY <1>2 DEF FrameConcat!Age
<1> HIDE DEF b, old
<1>9. \A t \in DOMAIN b : ComeFrom(b[t].segments, t, d) /\ b[t] \in FrameConcat!Entry
  <2> SUFFICES ASSUME NEW t \in DOMAIN b
               PROVE  ComeFrom(b[t].segments, t, d) /\ b[t] \in FrameConcat!Entry
    OBVIOUS
  <2>1. FrameConcat!LiveCount(t) \in Nat
    BY DEF FrameConcat!LiveCount, FrameConcat!TypeOK
  <2>2. b[t] = [segments |-> b[t].segments, live |-> FrameConcat!LiveCount(t)]
    BY <1>5
  <2>3. ComeFrom(b[t].segments, t, d)
    <3>1. CASE t = d.task
      BY <1>3, <1>5, <3>1
    <3>2. CASE t # d.task
      <4>1. t \in DOMAIN frameConcatBuffer
        BY <1>4, <3>2
      <4>2. FrameConcat!Segments(t) \in Seq(SentDiagrams) /\ FrameConcat!Segments(t) # <<>>
        BY <4>1 DEF FrameConcat!Segments, FrameConcat!TypeOK, FrameConcat!Entry
      <4>3. b[t].segments = FrameConcat!Segments(t)
        BY <1>5, <3>2
      <4> QED
        BY <4>2, <4>3 DEF ComeFrom
    <3> QED
      BY <3>1, <3>2
  <2> QED
    BY <2>1, <2>2, <2>3 DEF ComeFrom, FrameConcat!Entry
<1>10. /\ DOMAIN frameConcatBuffer' = FrameConcat!Remaining(b)
       /\ \A t \in FrameConcat!Remaining(b) :
            frameConcatBuffer'[t] = [segments |-> b[t].segments, live |-> b[t].live + 1]
  <2>1. \A t \in FrameConcat!Remaining(b) : b[t] \in FrameConcat!Entry
    BY <1>9 DEF FrameConcat!Remaining
  <2> QED
    BY <1>8, <2>1 DEF FrameConcat!Entry
<1>11. \A t \in FrameConcat!Remaining(b) :
        t \in DOMAIN b /\ ~FrameConcat!Complete(b[t]) /\ b[t].live + 1 \in 1..LiveLimit
  <2> SUFFICES ASSUME NEW t \in FrameConcat!Remaining(b)
               PROVE  /\ t \in DOMAIN b /\ ~FrameConcat!Complete(b[t])
                      /\ b[t].live + 1 \in 1..LiveLimit
    OBVIOUS
  <2>1. t \in DOMAIN b /\ ~FrameConcat!Complete(b[t]) /\ ~(b[t].live + 1 > LiveLimit)
    BY DEF FrameConcat!Remaining, FrameConcat!Expires
  <2>2. b[t].live \in Nat
    BY <1>9, <2>1 DEF FrameConcat!Entry
  <2>3. LiveLimit \in Nat
    BY LoggerAssumption
  <2> QED
    BY <2>1, <2>2, <2>3
<1>12. FrameConcat!TypeOK'
  <2>1. \A t \in DOMAIN frameConcatBuffer' :
          /\ frameConcatBuffer'[t] \in FrameConcat!Entry
          /\ frameConcatBuffer'[t].live \in 1..LiveLimit
          /\ frameConcatBuffer'[t].segments # <<>>
    BY <1>9, <1>10, <1>11 DEF FrameConcat!Entry, ComeFrom
  <2>2. \A t \in DOMAIN merged' : merged'[t] \in Seq(SentDiagrams)
    BY <1>9, <1>7 DEF ComeFrom
  <2> QED
    BY <1>6, <1>10, <1>11, <2>1, <2>2 DEF FrameConcat!TypeOK
<1>13. \A t \in DOMAIN frameConcatBuffer' : ComeFrom(frameConcatBuffer'[t].segments, t, d)
  BY <1>9, <1>10, <1>11
<1>14. \A t \in DOMAIN merged' :
        /\ ComeFrom(merged'[t], t, d)
        /\ Len(merged'[t]) = merged'[t][1].num
        /\ t \notin DOMAIN frameConcatBuffer'
  BY <1>9, <1>7, <1>10, <1>11 DEF FrameConcat!Complete
<1> QED
  BY <1>12, <1>13, <1>14

-----------------------------------------------------------------------------
(* Types                                                                   *)

LogItems == {d.frame : d \in SentDiagrams} \cup {Corrupt}

LEMMA DecodingsType ==
    ASSUME NEW s \in Seq(SentDiagrams), s # <<>>, NEW out \in Decodings(s)
    PROVE  out \in Seq(LogItems)
<1>1. s[1] \in SentDiagrams
  OBVIOUS
<1>2. s[1].frame \in LogItems /\ Corrupt \in LogItems
  BY <1>1 DEF LogItems
<1>3. out = <<s[1].frame>> \/ out = <<>> \/ out = <<Corrupt>>
  BY DEF Decodings
<1>4. <<s[1].frame>> \in Seq(LogItems) /\ <<>> \in Seq(LogItems) /\ <<Corrupt>> \in Seq(LogItems)
  BY <1>2
<1> QED
  BY <1>3, <1>4

LEMMA InitTypes == Init => TypeOK
<1> SUFFICES ASSUME Init PROVE TypeOK
  OBVIOUS
<1>1. losses \in 0..MaxLosses /\ duplicates \in 0..MaxDuplicates /\ network = {}
  BY NetworkAssumption DEF Init, NetworkInit
<1>2. ForwarderTypeOK
  <2>1. Len(Commands) \in Nat
    BY CommandsAssumption
  <2> QED
    BY <2>1 DEF Init, ForwarderInit, ForwarderTypeOK
<1>3. FrameConcat!TypeOK
  <2>1. DOMAIN frameConcatBuffer = {} /\ DOMAIN merged = {}
    BY DEF Init, LoggerInit, FrameConcat!Init
  <2> QED
    BY <2>1 DEF FrameConcat!TypeOK
<1>4. LoggerTypeOK
  <2>1. armed \in BOOLEAN /\ exited \in BOOLEAN
    BY Zenon DEF Init, LoggerInit
  <2>2. errors \in 0..MaxErrors /\ Len(rxTempBuffer) <= 1
    BY LoggerAssumption DEF Init, LoggerInit
  <2> QED
    BY <1>3, <2>1, <2>2 DEF Init, LoggerInit, LoggerTypeOK
<1> QED
  BY <1>1, <1>2, <1>4 DEF TypeOK

LEMMA ForwarderKeepsTypes ==
    ASSUME TypeOK, CommandStep \/ \E t \in RxThreads : RxHandleStep(t)
    PROVE  TypeOK'
<1>1. LoggerTypeOK'
  BY DEF TypeOK, LoggerTypeOK, CommandStep, RxHandleStep, loggerVars, receiverVars,
         FrameConcat!TypeOK
<1>2. /\ Len(Commands) \in Nat /\ DOMAIN Commands = 1..Len(Commands)
  BY CommandsAssumption
<1>3. CASE CommandStep
  <2>1. CASE SetDestinationIP
    <3>1. commandsDone + 1 \in DOMAIN Commands
      BY <1>2, <2>1 DEF TypeOK, ForwarderTypeOK, SetDestinationIP
    <3>2. ForwarderTypeOK'
      BY <2>1, <3>1 DEF TypeOK, ForwarderTypeOK, SetDestinationIP, Command
    <3> QED
      BY <1>1, <2>1, <3>2 DEF TypeOK, SetDestinationIP, networkVars
  <2>2. CASE SetDestinationPort
    <3>1. commandsDone + 1 \in DOMAIN Commands /\ commandsDone + 1 \in 0..Len(Commands)
      BY <1>2, <2>2 DEF TypeOK, ForwarderTypeOK, SetDestinationPort
    <3>2. ForwarderTypeOK'
      BY <2>2, <3>1 DEF TypeOK, ForwarderTypeOK, SetDestinationPort, Command
    <3> QED
      BY <1>1, <2>2, <3>2 DEF TypeOK, SetDestinationPort, networkVars
  <2> QED
    BY <1>3, <2>1, <2>2 DEF CommandStep
<1>4. ASSUME NEW t \in RxThreads, RxHandleStep(t) PROVE TypeOK'
  <2>1. CASE SendDiagram(t)
    <3>1. sending[t] \in Seq(AllDiagrams) /\ sending[t] # <<>>
      BY <2>1 DEF TypeOK, ForwarderTypeOK, SendDiagram
    <3>2. Head(sending[t]) \in AllDiagrams /\ Tail(sending[t]) \in Seq(AllDiagrams)
      BY <3>1, TailOfQueue
    <3>3. ForwarderTypeOK'
      BY <2>1, <3>2 DEF TypeOK, ForwarderTypeOK, SendDiagram
    <3>4. /\ network' = network \cup {[ip |-> destinationIP, port |-> destinationPort,
                                       diagram |-> Head(sending[t])]}
          /\ UNCHANGED <<losses, duplicates>>
      BY <2>1 DEF SendDiagram, SendDatagram
    <3> QED
      BY <1>1, <3>2, <3>3, <3>4 DEF TypeOK
  <2>2. CASE \E f \in Frames : IgnoreFrame(t, f)
    BY <1>1, <2>2 DEF TypeOK, ForwarderTypeOK, IgnoreFrame, networkVars
  <2>3. ASSUME NEW f \in Frames, SplitFrame(t, f) PROVE TypeOK'
    <3>1. Segmentation(f) \in Seq(AllDiagrams)
      BY SegmentationType
    <3> QED
      BY <1>1, <2>3, <3>1 DEF TypeOK, ForwarderTypeOK, SplitFrame, networkVars
  <2> QED
    BY <1>4, <2>1, <2>2, <2>3 DEF RxHandleStep
<1> QED
  BY <1>3, <1>4

LEMMA ReceiverKeepsTypes ==
    ASSUME TypeOK, (\E t \in IoThreads : ReceiverStep(t)) \/ NetworkStep \/ FailureStep
    PROVE  TypeOK'
<1>1. ForwarderTypeOK'
  BY DEF TypeOK, ForwarderTypeOK, ReceiverStep, NetworkStep, FailureStep, forwarderVars
<1>2. FrameConcat!TypeOK /\ LoggerTypeOK
  BY DEF TypeOK, LoggerTypeOK
<1>3. UNCHANGED <<frameConcatBuffer, merged>>
  BY DEF ReceiverStep, NetworkStep, FailureStep, Receive, CopyOut, Rearm, ReceiveError, Exit,
         loggerVars
<1>4. FrameConcat!TypeOK'
  BY <1>2, <1>3 DEF FrameConcat!TypeOK
<1>5. ASSUME NEW t \in IoThreads, ReceiverStep(t) PROVE TypeOK'
  <2>1. CASE Receive(t)
    <3>1. PICK d \in network : Arrive(d) /\ rxTempBuffer' = <<d.diagram>>
      BY <2>1 DEF Receive
    <3>2. d.diagram \in SentDiagrams
      BY DEF TypeOK
    <3>3. rxTempBuffer' \in Seq(SentDiagrams) /\ Len(rxTempBuffer') <= 1
      BY <3>1, <3>2
    <3>4. LoggerTypeOK'
      BY <1>2, <1>4, <2>1, <3>3 DEF LoggerTypeOK, Receive
    <3>5. network' \subseteq network /\ losses' = losses /\ duplicates' \in 0..MaxDuplicates
      BY <3>1, NetworkAssumption DEF Arrive, TypeOK
    <3> QED
      BY <1>1, <3>4, <3>5 DEF TypeOK
  <2>2. CASE CopyOut(t)
    <3>1. decoderQueue' \in Seq(SentDiagrams)
      BY <1>2, <2>2 DEF LoggerTypeOK, CopyOut
    <3>2. LoggerTypeOK'
      BY <1>2, <1>4, <2>2, <3>1 DEF LoggerTypeOK, CopyOut
    <3> QED
      BY <1>1, <2>2, <3>2 DEF TypeOK, CopyOut, networkVars
  <2>3. CASE Rearm(t)
    <3>1. LoggerTypeOK'
      BY <1>2, <1>4, <2>3 DEF LoggerTypeOK, Rearm
    <3> QED
      BY <1>1, <2>3, <3>1 DEF TypeOK, Rearm, networkVars
  <2> QED
    BY <1>5, <2>1, <2>2, <2>3 DEF ReceiverStep
<1>6. CASE NetworkStep
  <2>1. LoggerTypeOK'
    BY <1>2, <1>4, <1>6 DEF LoggerTypeOK, NetworkStep, loggerVars, receiverVars
  <2>2. network' \subseteq network /\ duplicates' = duplicates /\ losses' \in 0..MaxLosses
    BY <1>6, NetworkAssumption DEF NetworkStep, Lose, TypeOK
  <2> QED
    BY <1>1, <2>1, <2>2 DEF TypeOK
<1>7. CASE ReceiveError
  <2>0. armed' \in BOOLEAN
    BY <1>7, Zenon DEF ReceiveError
  <2>1. LoggerTypeOK'
    BY <1>2, <1>4, <1>7, <2>0, LoggerAssumption DEF LoggerTypeOK, ReceiveError
  <2> QED
    BY <1>1, <1>7, <2>1 DEF TypeOK, ReceiveError, networkVars
<1>8. CASE Exit
  <2>0. exited' \in BOOLEAN
    BY <1>8, Zenon DEF Exit
  <2>1. LoggerTypeOK'
    BY <1>2, <1>4, <1>8, <2>0 DEF LoggerTypeOK, Exit
  <2> QED
    BY <1>1, <1>8, <2>1 DEF TypeOK, Exit, networkVars
<1> QED
  BY <1>5, <1>6, <1>7, <1>8 DEF FailureStep

LEMMA PipelinesKeepTypes ==
    ASSUME TypeOK, DecoderStep \/ ConcatStep \/ DumperStep
    PROVE  TypeOK'
<1>1. /\ LoggerTypeOK /\ FrameConcat!TypeOK
      /\ decoderQueue \in Seq(SentDiagrams) /\ concatQueue \in Seq(SentDiagrams)
      /\ dumperQueue \in Seq(LogItems) /\ dumped \in Seq(LogItems)
  BY DEF TypeOK, LoggerTypeOK, LogItems
<1>2. /\ ForwarderTypeOK' /\ UNCHANGED <<networkVars, receiverVars>>
  BY DEF TypeOK, ForwarderTypeOK, DecoderStep, ConcatStep, DumperStep, forwarderVars,
         DecodeWholeFrame, PassToConcat, ConcatFrame, DumpFrame
<1>3. SUFFICES ASSUME TRUE
               PROVE  /\ FrameConcat!TypeOK'
                      /\ decoderQueue' \in Seq(SentDiagrams) /\ concatQueue' \in Seq(SentDiagrams)
                      /\ dumperQueue' \in Seq(LogItems) /\ dumped' \in Seq(LogItems)
  BY <1>1, <1>2 DEF TypeOK, LoggerTypeOK, networkVars, receiverVars, LogItems
<1>4. UNCHANGED <<frameConcatBuffer, merged>> => FrameConcat!TypeOK'
  BY <1>1 DEF FrameConcat!TypeOK
<1>5. CASE DecodeWholeFrame
  <2>1. Head(decoderQueue) \in SentDiagrams /\ Tail(decoderQueue) \in Seq(SentDiagrams)
    BY <1>1, <1>5, TailOfQueue DEF DecodeWholeFrame
  <2>2. PICK out \in Decodings(<<Head(decoderQueue)>>) : dumperQueue' = dumperQueue \o out
    BY <1>5 DEF DecodeWholeFrame
  <2>3. <<Head(decoderQueue)>> \in Seq(SentDiagrams) /\ <<Head(decoderQueue)>> # <<>>
    BY <2>1
  <2>4. out \in Seq(LogItems)
    BY <2>3, DecodingsType
  <2> QED
    BY <1>1, <1>4, <1>5, <2>1, <2>2, <2>4 DEF DecodeWholeFrame
<1>6. CASE PassToConcat
  <2>1. Head(decoderQueue) \in SentDiagrams /\ Tail(decoderQueue) \in Seq(SentDiagrams)
    BY <1>1, <1>6, TailOfQueue DEF PassToConcat
  <2> QED
    BY <1>1, <1>4, <1>6, <2>1 DEF PassToConcat
<1>7. CASE ConcatFrame
  <2>1. Head(concatQueue) \in SentDiagrams /\ Tail(concatQueue) \in Seq(SentDiagrams)
    BY <1>1, <1>7, TailOfQueue DEF ConcatFrame
  <2>2. /\ FrameConcat!TypeOK'
        /\ \A t \in DOMAIN merged' : ComeFrom(merged'[t], t, Head(concatQueue))
    BY <1>1, <1>7, <2>1, CallEffect DEF ConcatFrame
  <2>3. dumperQueue' \in Seq(LogItems)
    <3>1. CASE DOMAIN merged' = {}
      BY <1>1, <1>7, <3>1 DEF ConcatFrame
    <3>2. CASE DOMAIN merged' # {}
      <4>1. PICK t \in DOMAIN merged' : \E out \in Decodings(merged'[t]) :
                dumperQueue' = dumperQueue \o out
        BY <1>7, <3>2 DEF ConcatFrame
      <4>2. PICK out \in Decodings(merged'[t]) : dumperQueue' = dumperQueue \o out
        BY <4>1
      <4>3. merged'[t] \in Seq(SentDiagrams) /\ merged'[t] # <<>>
        BY <2>2 DEF ComeFrom
      <4>4. out \in Seq(LogItems)
        BY <4>3, DecodingsType
      <4> QED
        BY <1>1, <4>2, <4>4
    <3> QED
      BY <3>1, <3>2
  <2> QED
    BY <1>1, <1>7, <2>1, <2>2, <2>3 DEF ConcatFrame
<1>8. CASE DumpFrame
  <2>1. Head(dumperQueue) \in LogItems /\ Tail(dumperQueue) \in Seq(LogItems)
    BY <1>1, <1>8, TailOfQueue DEF DumpFrame
  <2> QED
    BY <1>1, <1>4, <1>8, <2>1 DEF DumpFrame
<1> QED
  BY <1>5, <1>6, <1>7, <1>8 DEF DecoderStep, ConcatStep, DumperStep

(***************************************************************************)
(* The variables of the forwarder, the network and the logger keep their   *)
(* types, whatever is lost, duplicated or interleaved.                     *)
(***************************************************************************)
THEOREM TypeCorrect == Spec => []TypeOK
<1>1. TypeOK /\ [Next]_vars => TypeOK'
  <2> SUFFICES ASSUME TypeOK, [Next]_vars PROVE TypeOK'
    OBVIOUS
  <2>1. CASE CommandStep \/ \E t \in RxThreads : RxHandleStep(t)
    BY <2>1, ForwarderKeepsTypes
  <2>2. CASE (\E t \in IoThreads : ReceiverStep(t)) \/ NetworkStep \/ FailureStep
    BY <2>2, ReceiverKeepsTypes
  <2>3. CASE DecoderStep \/ ConcatStep \/ DumperStep
    BY <2>3, PipelinesKeepTypes
  <2>4. CASE UNCHANGED vars
    BY <2>4 DEF vars, networkVars, forwarderVars, loggerVars, receiverVars, TypeOK,
                ForwarderTypeOK, LoggerTypeOK, FrameConcat!TypeOK
  <2> QED
    BY <2>1, <2>2, <2>3, <2>4 DEF Next, Finished
<1> QED
  BY <1>1, InitTypes, PTL DEF Spec

-----------------------------------------------------------------------------
(* What is merged                                                          *)

\* The network repeats nothing, and frames are told apart by their task ids.
NoCollision ==
    /\ MaxDuplicates = 0
    /\ \A f, g \in Frames : TaskIdOf[f] = TaskIdOf[g] => f = g

\* Segments of one task, none twice, in the order of their ids.
Collected(t, s) ==
    /\ s \in Seq(AllDiagrams) /\ s # <<>>
    /\ Distinct(s) /\ SortedIds(s)
    /\ \A x \in ToSet(s) : x.task = t

\* Distinct values of an interval need an interval at least as long.
LEMMA IntervalsFit ==
    ASSUME NEW a \in Int, NEW b \in Int, a <= b, NEW c \in Int, NEW d \in Int, c <= d,
           NEW g \in Injection(a..b, c..d)
    PROVE  b - a <= d - c
<1>1. Cardinality(a..b) = b - a + 1
  BY FS_Interval
<1>2. IsFiniteSet(c..d) /\ Cardinality(c..d) = d - c + 1
  BY FS_Interval
<1>3. Cardinality(a..b) <= Cardinality(c..d)
  BY <1>2, FS_Injection
<1> QED
  BY <1>1, <1>2, <1>3

(***************************************************************************)
(* As many segments as the frame has are all its segments: their ids are   *)
(* distinct and below their number, so that i - 1 of them precede the i-th *)
(* and as many follow it as are left.                                      *)
(***************************************************************************)
LEMMA FullIsInOrder ==
    ASSUME NoCollision, NEW t, NEW s, Collected(t, s), Len(s) = s[1].num
    PROVE  InOrder(s)
<1> DEFINE f == s[1].frame
           n == Len(s)
<1>1. /\ n \in Nat \ {0} /\ DOMAIN s = 1..n /\ 1 \in DOMAIN s
      /\ \A i \in DOMAIN s : s[i] \in AllDiagrams
  BY DEF Collected
<1>2. f \in Frames /\ n = NumSegments(f)
  BY <1>1, DiagramOf
<1> HIDE DEF n, f
<1>3. \A i \in 1..n : s[i].frame = f
  <2> SUFFICES ASSUME NEW i \in 1..n PROVE s[i].frame = f
    OBVIOUS
  <2>1. s[i].task = t /\ s[1].task = t
    BY <1>1 DEF Collected, ToSet
  <2>2. /\ s[i].frame \in Frames /\ s[i].task = TaskIdOf[s[i].frame]
        /\ s[1].frame \in Frames /\ s[1].task = TaskIdOf[s[1].frame]
    BY <1>1, DiagramOf
  <2> QED
    BY <2>1, <2>2 DEF NoCollision, f
<1>4. \A i \in 1..n : s[i].id \in 0..(n - 1) /\ s[i] = Diagram(f, s[i].id)
  BY <1>1, <1>2, <1>3, DiagramOf
<1>5. \A i, j \in 1..n : s[i].id = s[j].id => i = j
  <2>1. \A i, j \in 1..n : s[i].id = s[j].id => s[i] = s[j]
    BY <1>4
  <2> QED
    BY <1>1, <2>1 DEF Collected, Distinct
<1>6. \A i, j \in 1..n : i <= j => s[i].id <= s[j].id
  <2> SUFFICES ASSUME NEW i \in 1..n, NEW j \in 1..n, i <= j PROVE s[i].id <= s[j].id
    OBVIOUS
  <2>1. CASE i = j
    BY <1>4, <2>1
  <2>2. CASE i < j
    BY <1>1, <2>2 DEF Collected, SortedIds
  <2> QED
    BY <1>1, <2>1, <2>2
<1>7. ASSUME NEW i \in 1..n PROVE s[i].id = i - 1
  <2>1. s[i].id \in 0..(n - 1) /\ s[i].id \in Nat /\ i \in Nat
    BY <1>1, <1>4
  <2>2. i <= s[i].id + 1
    <3> DEFINE g == [k \in 1..i |-> s[k].id]
    <3>1. \A k \in 1..i : k \in 1..n /\ s[k].id \in 0..s[i].id
      <4> SUFFICES ASSUME NEW k \in 1..i PROVE k \in 1..n /\ s[k].id \in 0..s[i].id
        OBVIOUS
      <4>1. k \in 1..n /\ k <= i
        BY <1>1
      <4>2. s[k].id <= s[i].id /\ s[k].id \in 0..(n - 1)
        BY <1>4, <1>6, <4>1
      <4> QED
        BY <2>1, <4>1, <4>2
    <3>2. g \in Injection(1..i, 0..s[i].id)
      BY <1>5, <3>1 DEF Injection, IsInjective
    <3> HIDE DEF g
    <3>3. i - 1 <= s[i].id - 0
      BY <2>1, <3>2, IntervalsFit
    <3> QED
      BY <2>1, <3>3
  <2>3. n - i + 1 <= n - s[i].id
    <3> DEFINE g == [k \in i..n |-> s[k].id]
    <3>1. \A k \in i..n : k \in 1..n /\ s[k].id \in s[i].id..(n - 1)
      <4> SUFFICES ASSUME NEW k \in i..n PROVE k \in 1..n /\ s[k].id \in s[i].id..(n - 1)
        OBVIOUS
      <4>1. k \in 1..n /\ i <= k
        BY <1>1
      <4>2. s[i].id <= s[k].id /\ s[k].id \in 0..(n - 1)
        BY <1>4, <1>6, <4>1
      <4> QED
        BY <2>1, <4>1, <4>2
    <3>2. g \in Injection(i..n, s[i].id..(n - 1))
      BY <1>5, <3>1 DEF Injection, IsInjective
    <3> HIDE DEF g
    <3>3. n - i <= (n - 1) - s[i].id
      BY <1>1, <2>1, <3>2, IntervalsFit
    <3> QED
      BY <1>1, <2>1, <3>3
  <2> QED
    BY <1>1, <2>1, <2>2, <2>3
<1> QED
  BY <1>1, <1>3, <1>7 DEF InOrder, Collected, n, f

\* Nothing of the frame is missing from its segments in order.
LEMMA InOrderIsAll ==
    ASSUME NEW s, InOrder(s)
    PROVE  /\ ToSet(s) = {d \in AllDiagrams : d.frame = s[1].frame}
           /\ s[1] \in ToSet(s)
           /\ {s[i].id : i \in DOMAIN s} = 0..(s[1].num - 1)
<1> DEFINE f == s[1].frame
           n == Len(s)
<1>1. /\ n \in Nat \ {0} /\ DOMAIN s = 1..n /\ 1 \in DOMAIN s /\ n = s[1].num
      /\ \A i \in DOMAIN s : s[i] \in AllDiagrams /\ s[i].frame = f /\ s[i].id = i - 1
  BY DEF InOrder
<1>2. n = NumSegments(f)
  BY <1>1, DiagramOf
<1> HIDE DEF n, f
<1>3. ASSUME NEW d \in AllDiagrams, d.frame = f PROVE d \in ToSet(s)
  <2>1. d.id \in 0..(n - 1) /\ d = Diagram(f, d.id) /\ d.id \in Nat
    BY <1>2, <1>3, DiagramOf
  <2>2. d.id + 1 \in DOMAIN s /\ (d.id + 1) - 1 = d.id
    BY <1>1, <2>1
  <2>3. s[d.id + 1] \in AllDiagrams /\ s[d.id + 1].frame = f /\ s[d.id + 1].id = d.id
    BY <1>1, <2>2
  <2>4. s[d.id + 1] = Diagram(f, d.id)
    BY <2>3, DiagramOf
  <2> QED
    BY <2>1, <2>2, <2>4 DEF ToSet
<1>4. \A k \in 0..(n - 1) : k + 1 \in DOMAIN s /\ s[k + 1].id = k
  BY <1>1
<1>5. \A i \in DOMAIN s : i - 1 \in 0..(n - 1)
  BY <1>1
<1>6. ToSet(s) = {d \in AllDiagrams : d.frame = f} /\ s[1] \in ToSet(s)
  BY <1>1, <1>3 DEF ToSet
<1>7. {s[i].id : i \in DOMAIN s} = 0..(n - 1)
  <2>1. \A i \in DOMAIN s : s[i].id \in 0..(n - 1)
    BY <1>1, <1>5
  <2> QED
    BY <1>4, <2>1
<1> QED
  BY <1>1, <1>6, <1>7 DEF f

-----------------------------------------------------------------------------
(* Where a diagram is                                                      *)

AtPending == {d \in AllDiagrams : d.frame \in pending}
AtSending == UNION {ToSet(sending[t]) : t \in RxThreads}
AtNetwork == {x.diagram : x \in network}
AtBuffer == {d \in ToSet(rxTempBuffer) : \E t \in IoThreads : rxPc[t] = "copy"}
AtDecoder == ToSet(decoderQueue)
AtConcat == ToSet(concatQueue)
AtCollector ==
    UNION {ToSet(frameConcatBuffer[t].segments) : t \in DOMAIN frameConcatBuffer}
AtLog == {d \in AllDiagrams : d.frame \in ToSet(dumperQueue) \cup ToSet(dumped)}

\* A diagram is in one place of the path from rxHandle to the file.
OnePlace ==
    /\ AtPending \cap (AtSending \cup AtNetwork \cup AtBuffer \cup AtDecoder
                        \cup AtConcat \cup AtCollector \cup AtLog) = {}
    /\ AtSending \cap (AtNetwork \cup AtBuffer \cup AtDecoder
                        \cup AtConcat \cup AtCollector \cup AtLog) = {}
    /\ AtNetwork \cap (AtBuffer \cup AtDecoder \cup AtConcat \cup AtCollector \cup AtLog) = {}
    /\ AtBuffer \cap (AtDecoder \cup AtConcat \cup AtCollector \cup AtLog) = {}
    /\ AtDecoder \cap (AtConcat \cup AtCollector \cup AtLog) = {}
    /\ AtConcat \cap (AtCollector \cup AtLog) = {}
    /\ AtCollector \cap AtLog = {}

\* And it is there once: on the side of the forwarder,
SentOnce ==
    /\ \A t \in RxThreads : Distinct(sending[t])
    /\ \A t, u \in RxThreads : t # u => ToSet(sending[t]) \cap ToSet(sending[u]) = {}
    /\ \A x, y \in network : x.diagram = y.diagram => x = y

\* in the receiver, where one thread at a time is in the handler,
ReceivedOnce ==
    /\ armed => \A t \in IoThreads : rxPc[t] = "run"
    /\ \A t, u \in IoThreads : rxPc[t] # "run" /\ rxPc[u] # "run" => t = u
    /\ Distinct(decoderQueue) /\ Distinct(concatQueue)

\* in the buffer of incomplete frames,
CollectedOnce ==
    /\ \A t \in DOMAIN frameConcatBuffer : Collected(t, frameConcatBuffer[t].segments)
    /\ \A t \in DOMAIN merged : InOrder(merged[t])

\* and each frame is in the log.
LoggedOnce ==
    /\ Distinct(dumperQueue)
    /\ ToSet(dumperQueue) \cap ToSet(dumped) = {}
    /\ ToSet(dumperQueue) \cup ToSet(dumped) \subseteq Frames

ForwardInv ==
    TypeOK /\ OnePlace /\ SentOnce /\ ReceivedOnce /\ CollectedOnce /\ LoggedOnce

LEMMA InitForward == Init => ForwardInv
<1> SUFFICES ASSUME Init PROVE ForwardInv
  OBVIOUS
<1>1. /\ ToSet(<<>>) = {} /\ Distinct(<<>>)
  BY DEF ToSet, Distinct
<1>2. /\ network = {} /\ rxTempBuffer = <<>> /\ decoderQueue = <<>> /\ concatQueue = <<>>
      /\ dumperQueue = <<>> /\ dumped = <<>>
      /\ DOMAIN frameConcatBuffer = {} /\ DOMAIN merged = {}
      /\ \A t \in RxThreads : sending[t] = <<>>
      /\ \A t \in IoThreads : rxPc[t] = "run"
  BY DEF Init, NetworkInit, ForwarderInit, LoggerInit, FrameConcat!Init
<1>3. OnePlace
  <2>1. /\ AtSending = {} /\ AtNetwork = {} /\ AtBuffer = {} /\ AtDecoder = {}
        /\ AtConcat = {} /\ AtCollector = {} /\ AtLog = {}
    BY <1>1, <1>2 DEF AtSending, AtNetwork, AtBuffer, AtDecoder, AtConcat, AtCollector, AtLog
  <2> QED
    BY <2>1 DEF OnePlace
<1>4. SentOnce /\ ReceivedOnce /\ CollectedOnce /\ LoggedOnce
  BY <1>1, <1>2 DEF SentOnce, ReceivedOnce, CollectedOnce, LoggedOnce
<1> QED
  BY <1>3, <1>4, InitTypes DEF ForwardInv

-----------------------------------------------------------------------------
(* The forwarder                                                           *)

\* The steps of the forwarder leave what the logger has alone.
LEMMA LoggerAlone ==
    ASSUME ForwardInv, UNCHANGED loggerVars
    PROVE  /\ ReceivedOnce' /\ CollectedOnce' /\ LoggedOnce'
           /\ AtBuffer' = AtBuffer /\ AtDecoder' = AtDecoder /\ AtConcat' = AtConcat
           /\ AtCollector' = AtCollector /\ AtLog' = AtLog
BY DEF ForwardInv, ReceivedOnce, CollectedOnce, LoggedOnce, loggerVars, receiverVars,
       AtBuffer, AtDecoder, AtConcat, AtCollector, AtLog

LEMMA CommandKeeps ==
    ASSUME ForwardInv, CommandStep
    PROVE  ForwardInv'
<1>1. UNCHANGED loggerVars /\ UNCHANGED <<network, pending, sending>>
  BY DEF CommandStep, SetDestinationIP, SetDestinationPort, networkVars
<1>2. SentOnce' /\ AtPending' = AtPending /\ AtSending' = AtSending /\ AtNetwork' = AtNetwork
  BY <1>1 DEF ForwardInv, SentOnce, AtPending, AtSending, AtNetwork
<1>3. OnePlace'
  BY <1>1, <1>2, LoggerAlone DEF ForwardInv, OnePlace
<1> QED
  BY <1>1, <1>2, <1>3, LoggerAlone, ForwarderKeepsTypes DEF ForwardInv

LEMMA SendKeeps ==
    ASSUME ForwardInv, NEW t \in RxThreads, SendDiagram(t), UNCHANGED loggerVars
    PROVE  ForwardInv'
<1> DEFINE d == Head(sending[t])
           x == [ip |-> destinationIP, port |-> destinationPort, diagram |-> d]
<1>1. /\ sending \in [RxThreads -> Seq(AllDiagrams)] /\ sending[t] # <<>>
      /\ sending' = [sending EXCEPT ![t] = Tail(sending[t])]
      /\ network' = network \cup {x} /\ pending' = pending
  BY DEF ForwardInv, TypeOK, ForwarderTypeOK, SendDiagram, SendDatagram
<1>2. /\ d \in AllDiagrams /\ d \in ToSet(sending[t])
      /\ ToSet(Tail(sending[t])) \subseteq ToSet(sending[t])
      /\ Distinct(Tail(sending[t])) /\ d \notin ToSet(Tail(sending[t]))
  BY <1>1, TailOfQueue DEF ForwardInv, SentOnce
<1>3. x.diagram = d
  OBVIOUS
<1> HIDE DEF d, x
<1>4. \A u \in RxThreads : /\ ToSet(sending'[u]) \subseteq ToSet(sending[u])
                          /\ d \notin ToSet(sending'[u])
                          /\ Distinct(sending'[u])
  BY <1>1, <1>2 DEF ForwardInv, SentOnce
<1>5. d \in AtSending /\ AtSending' \subseteq AtSending \ {d}
  BY <1>2, <1>4 DEF AtSending
<1>6. AtNetwork' = AtNetwork \cup {d}
  BY <1>1, <1>3 DEF AtNetwork
<1>7. AtPending' = AtPending
  BY <1>1 DEF AtPending
<1>8. OnePlace'
  BY <1>5, <1>6, <1>7, LoggerAlone DEF ForwardInv, OnePlace
<1>9. SentOnce'
  <2>1. \A y \in network : y.diagram # d
    BY <1>5 DEF ForwardInv, OnePlace, AtNetwork
  <2>2. \A y, z \in network' : y.diagram = z.diagram => y = z
    BY <1>1, <1>3, <2>1 DEF ForwardInv, SentOnce
  <2> QED
    BY <1>4, <2>2 DEF ForwardInv, SentOnce
<1>10. TypeOK'
  <2>1. RxHandleStep(t)
    BY DEF RxHandleStep
  <2> QED
    BY <2>1, ForwarderKeepsTypes DEF ForwardInv
<1> QED
  BY <1>8, <1>9, <1>10, LoggerAlone DEF ForwardInv

LEMMA TakeFrameKeeps ==
    ASSUME ForwardInv, NEW t \in RxThreads, NEW f \in Frames,
           IgnoreFrame(t, f) \/ SplitFrame(t, f), UNCHANGED loggerVars
    PROVE  ForwardInv'
<1>1. /\ sending \in [RxThreads -> Seq(AllDiagrams)]
      /\ sending[t] = <<>> /\ f \in pending
      /\ pending' = pending \ {f} /\ network' = network
      /\ sending' \in {sending, [sending EXCEPT ![t] = Segmentation(f)]}
  BY DEF ForwardInv, TypeOK, ForwarderTypeOK, IgnoreFrame, SplitFrame, networkVars
<1> DEFINE segments == {d \in AllDiagrams : d.frame = f}
<1>2. /\ segments \subseteq AtPending
      /\ AtPending' \subseteq AtPending \ segments
  BY <1>1 DEF AtPending
<1>3. ToSet(Segmentation(f)) \subseteq segments /\ Distinct(Segmentation(f))
  BY SegmentationType
<1>4. \A u \in RxThreads :
        /\ Distinct(sending'[u])
        /\ u # t => sending'[u] = sending[u]
        /\ sending'[u] = sending[u] \/ ToSet(sending'[u]) \subseteq segments
  BY <1>1, <1>3 DEF ForwardInv, SentOnce
<1>5. \A u \in RxThreads : ToSet(sending[u]) \subseteq AtSending
  BY DEF AtSending
<1>6. \A u \in RxThreads : ToSet(sending[u]) \cap segments = {}
  BY <1>2, <1>5 DEF ForwardInv, OnePlace
<1> HIDE DEF segments
<1>7. AtSending' \subseteq AtSending \cup segments
  BY <1>4 DEF AtSending
<1>8. AtNetwork' = AtNetwork
  BY <1>1 DEF AtNetwork
<1>9. OnePlace'
  BY <1>2, <1>7, <1>8, LoggerAlone DEF ForwardInv, OnePlace
<1>10. SentOnce'
  <2>1. \A u, v \in RxThreads : u # v => ToSet(sending'[u]) \cap ToSet(sending'[v]) = {}
    BY <1>4, <1>6 DEF ForwardInv, SentOnce
  <2> QED
    BY <1>1, <1>4, <2>1 DEF ForwardInv, SentOnce
<1>11. TypeOK'
  <2>1. RxHandleStep(t)
    BY DEF RxHandleStep
  <2> QED
    BY <2>1, ForwarderKeepsTypes DEF ForwardInv
<1> QED
  BY <1>9, <1>10, <1>11, LoggerAlone DEF ForwardInv

-----------------------------------------------------------------------------
(* The network and the receiver                                            *)

LEMMA ForwarderAlone ==
    ASSUME UNCHANGED forwarderVars
    PROVE  AtPending' = AtPending /\ AtSending' = AtSending
BY DEF forwarderVars, AtPending, AtSending

LEMMA PipelinesAlone ==
    ASSUME ForwardInv,
           UNCHANGED <<concatQueue, frameConcatBuffer, merged, dumperQueue, dumped>>
    PROVE  /\ CollectedOnce' /\ LoggedOnce' /\ AtConcat' = AtConcat
           /\ AtCollector' = AtCollector /\ AtLog' = AtLog
BY DEF ForwardInv, CollectedOnce, LoggedOnce, AtConcat, AtCollector, AtLog

LEMMA ReceiveKeeps ==
    ASSUME NoCollision, ForwardInv, NEW t \in IoThreads, Receive(t), UNCHANGED forwarderVars
    PROVE  ForwardInv'
<1>1. PICK x \in network : Arrive(x) /\ rxTempBuffer' = <<x.diagram>>
  BY DEF Receive
<1>2. network' = network \ {x}
  BY <1>1 DEF NoCollision, Arrive, ForwardInv, TypeOK
<1>3. /\ armed /\ ~armed' /\ rxPc \in [IoThreads -> {"run", "copy", "rearm"}]
      /\ rxPc' = [rxPc EXCEPT ![t] = "copy"]
      /\ UNCHANGED <<concatQueue, frameConcatBuffer, merged, dumperQueue, dumped, decoderQueue>>
  BY DEF Receive, ForwardInv, TypeOK, LoggerTypeOK
<1>4. AtBuffer' \subseteq {x.diagram}
  BY <1>1 DEF AtBuffer, ToSet
<1>5. x.diagram \in AtNetwork /\ AtNetwork' \subseteq AtNetwork \ {x.diagram}
  BY <1>2 DEF AtNetwork, ForwardInv, SentOnce
<1>6. AtDecoder' = AtDecoder
  BY <1>3 DEF AtDecoder
<1>7. OnePlace'
  BY <1>3, <1>4, <1>5, <1>6, ForwarderAlone, PipelinesAlone DEF ForwardInv, OnePlace
<1>8. SentOnce'
  BY <1>2 DEF ForwardInv, SentOnce, forwarderVars
<1>9. ReceivedOnce'
  BY <1>3 DEF ForwardInv, ReceivedOnce
<1>10. TypeOK'
  <2>1. ReceiverStep(t)
    BY DEF ReceiverStep
  <2> QED
    BY <2>1, ReceiverKeepsTypes DEF ForwardInv
<1> QED
  BY <1>3, <1>7, <1>8, <1>9, <1>10, PipelinesAlone DEF ForwardInv

LEMMA CopyOutKeeps ==
    ASSUME ForwardInv, NEW t \in IoThreads, CopyOut(t), UNCHANGED forwarderVars
    PROVE  ForwardInv'
<1>1. /\ rxPc[t] = "copy" /\ rxPc \in [IoThreads -> {"run", "copy", "rearm"}]
      /\ rxPc' = [rxPc EXCEPT ![t] = "rearm"] /\ armed' = armed
      /\ decoderQueue' = decoderQueue \o rxTempBuffer
      /\ UNCHANGED <<network, concatQueue, frameConcatBuffer, merged, dumperQueue, dumped>>
  BY DEF CopyOut, ForwardInv, TypeOK, LoggerTypeOK, networkVars
<1>2. /\ decoderQueue \in Seq(SentDiagrams) /\ rxTempBuffer \in Seq(SentDiagrams)
      /\ Len(rxTempBuffer) <= 1
  BY DEF ForwardInv, TypeOK, LoggerTypeOK
<1>3. AtBuffer = ToSet(rxTempBuffer)
  BY <1>1 DEF AtBuffer
<1>4. AtBuffer' = {}
  BY <1>1 DEF AtBuffer, ForwardInv, ReceivedOnce
<1>5. AtDecoder' \subseteq AtDecoder \cup AtBuffer /\ Distinct(decoderQueue')
  <2>1. CASE rxTempBuffer = <<>>
    <3>1. decoderQueue' = decoderQueue
      BY <1>1, <1>2, <2>1
    <3> QED
      BY <3>1 DEF AtDecoder, ForwardInv, ReceivedOnce
  <2>2. ASSUME NEW e \in SentDiagrams, rxTempBuffer = <<e>>, ToSet(rxTempBuffer) = {e}
        PROVE  AtDecoder' \subseteq AtDecoder \cup AtBuffer /\ Distinct(decoderQueue')
    <3>1. e \notin ToSet(decoderQueue)
      BY <1>3, <2>2 DEF ForwardInv, OnePlace, AtDecoder
    <3>2. decoderQueue' = Append(decoderQueue, e)
      BY <1>1, <1>2, <2>2, EndOfQueue
    <3>3. ToSet(decoderQueue') = ToSet(decoderQueue) \cup {e} /\ Distinct(decoderQueue')
      BY <1>2, <3>1, <3>2, EndOfQueue DEF ForwardInv, ReceivedOnce
    <3> QED
      BY <1>3, <2>2, <3>3 DEF AtDecoder
  <2> QED
    BY <1>2, <2>1, <2>2, AtMostOneIsSingle
<1>6. AtNetwork' = AtNetwork
  BY <1>1 DEF AtNetwork
<1>7. OnePlace'
  BY <1>1, <1>4, <1>5, <1>6, ForwarderAlone, PipelinesAlone DEF ForwardInv, OnePlace
<1>8. SentOnce'
  BY <1>1 DEF ForwardInv, SentOnce, forwarderVars
<1>9. ReceivedOnce'
  BY <1>1, <1>5 DEF ForwardInv, ReceivedOnce
<1>10. TypeOK'
  <2>1. ReceiverStep(t)
    BY DEF ReceiverStep
  <2> QED
    BY <2>1, ReceiverKeepsTypes DEF ForwardInv
<1> QED
  BY <1>1, <1>7, <1>8, <1>9, <1>10, PipelinesAlone DEF ForwardInv

\* Nothing reaches the decoder: a datagram may vanish, receiving may stop.
LEMMA QuietKeeps ==
    ASSUME ForwardInv, UNCHANGED forwarderVars,
           (\E t \in IoThreads : Rearm(t)) \/ NetworkStep \/ FailureStep
    PROVE  ForwardInv'
<1>1. /\ network' \subseteq network
      /\ UNCHANGED <<rxTempBuffer, decoderQueue, concatQueue, frameConcatBuffer, merged,
                     dumperQueue, dumped>>
  BY DEF Rearm, NetworkStep, Lose, FailureStep, ReceiveError, Exit, networkVars, loggerVars,
         receiverVars
<1>2. rxPc \in [IoThreads -> {"run", "copy", "rearm"}]
  BY DEF ForwardInv, TypeOK, LoggerTypeOK
<1>3. \/ rxPc' = rxPc /\ (armed' => armed)
      \/ \E t \in IoThreads : rxPc[t] = "rearm" /\ rxPc' = [rxPc EXCEPT ![t] = "run"]
  BY DEF Rearm, NetworkStep, FailureStep, ReceiveError, Exit, loggerVars, receiverVars
<1>4. AtBuffer' \subseteq AtBuffer
  BY <1>1, <1>2, <1>3 DEF AtBuffer
<1>5. AtNetwork' \subseteq AtNetwork /\ AtDecoder' = AtDecoder
  BY <1>1 DEF AtNetwork, AtDecoder
<1>6. OnePlace'
  BY <1>1, <1>4, <1>5, ForwarderAlone, PipelinesAlone DEF ForwardInv, OnePlace
<1>7. SentOnce'
  BY <1>1 DEF ForwardInv, SentOnce, forwarderVars
<1>8. ReceivedOnce'
  BY <1>1, <1>2, <1>3 DEF ForwardInv, ReceivedOnce
<1>9. TypeOK'
  BY ReceiverKeepsTypes DEF ForwardInv, ReceiverStep, Rearm
<1> QED
  BY <1>1, <1>6, <1>7, <1>8, <1>9, PipelinesAlone DEF ForwardInv

-----------------------------------------------------------------------------
(* The pipelines                                                           *)

\* The steps of the pipelines leave what is not there yet alone.
LEMMA SourceAlone ==
    ASSUME ForwardInv, UNCHANGED forwarderVars, UNCHANGED <<networkVars, receiverVars>>
    PROVE  /\ SentOnce' /\ AtPending' = AtPending /\ AtSending' = AtSending
           /\ AtNetwork' = AtNetwork /\ AtBuffer' = AtBuffer
           /\ UNCHANGED <<armed, rxPc>>
BY DEF ForwardInv, SentOnce, forwarderVars, networkVars, receiverVars,
       AtPending, AtSending, AtNetwork, AtBuffer

\* A frame whose segments are nowhere in the log can be appended to it.
LEMMA AppendToLog ==
    ASSUME ForwardInv, NEW s, InOrder(s), s[1] \notin AtLog,
           dumperQueue' = dumperQueue \o <<s[1].frame>>, dumped' = dumped
    PROVE  AtLog' \subseteq AtLog \cup ToSet(s) /\ LoggedOnce'
<1> DEFINE f == s[1].frame
<1>1. f \in Frames /\ s[1] \in AllDiagrams /\ ToSet(s) = {d \in AllDiagrams : d.frame = f}
  BY InOrderIsIntact, InOrderIsAll
<1>2. f \notin ToSet(dumperQueue) \cup ToSet(dumped)
  BY <1>1 DEF AtLog
<1> DEFINE items == LogItems \cup Frames
<1>3. dumperQueue \in Seq(items) /\ f \in items
  BY <1>1 DEF ForwardInv, TypeOK, LoggerTypeOK, LogItems
<1> HIDE DEF f, items
<1>4. dumperQueue' = Append(dumperQueue, f)
  BY <1>3, EndOfQueue DEF f
<1>5. /\ ToSet(dumperQueue') = ToSet(dumperQueue) \cup {f}
      /\ Distinct(dumperQueue')
  <2>1. f \notin ToSet(dumperQueue) /\ Distinct(dumperQueue)
    BY <1>2 DEF ForwardInv, LoggedOnce, f
  <2>2. /\ ToSet(Append(dumperQueue, f)) = ToSet(dumperQueue) \cup {f}
        /\ Distinct(Append(dumperQueue, f))
    BY <1>3, <2>1, EndOfQueue
  <2> QED
    BY <1>4, <2>2
<1>6. AtLog' \subseteq AtLog \cup ToSet(s)
  BY <1>1, <1>5 DEF AtLog
<1>7. LoggedOnce'
  BY <1>1, <1>2, <1>5 DEF ForwardInv, LoggedOnce
<1> QED
  BY <1>6, <1>7

LEMMA DecodeKeeps ==
    ASSUME ForwardInv, DecodeWholeFrame, UNCHANGED forwarderVars
    PROVE  ForwardInv'
<1> DEFINE d == Head(decoderQueue)
<1>1. /\ decoderQueue \in Seq(AllDiagrams) /\ decoderQueue # <<>>
      /\ decoderQueue' = Tail(decoderQueue) /\ d.num = 1 /\ d.id = 0
      /\ UNCHANGED <<networkVars, receiverVars, concatQueue, frameConcatBuffer, merged, dumped>>
  BY DEF ForwardInv, TypeOK, LoggerTypeOK, DecodeWholeFrame, IsWholeFrame
<1>2. /\ d \in AllDiagrams /\ d \in AtDecoder
      /\ AtDecoder' \subseteq AtDecoder \ {d} /\ Distinct(decoderQueue')
  BY <1>1, TailOfQueue DEF AtDecoder, ForwardInv, ReceivedOnce
<1>3. PICK out \in Decodings(<<d>>) : dumperQueue' = dumperQueue \o out
  BY DEF DecodeWholeFrame
<1> HIDE DEF d
<1>4. InOrder(<<d>>) /\ <<d>>[1] = d /\ ToSet(<<d>>) = {d}
  <2>1. <<d>> \in Seq(AllDiagrams) /\ <<d>> # <<>> /\ <<d>>[1] = d /\ Len(<<d>>) = 1
    BY <1>2
  <2>2. DOMAIN <<d>> = {1}
    OBVIOUS
  <2>3. InOrder(<<d>>)
    BY <1>1, <2>1, <2>2 DEF InOrder
  <2> QED
    BY <2>1, <2>2, <2>3 DEF ToSet
<1>5. dumperQueue' = dumperQueue \o <<d.frame>>
  <2> DEFINE s == <<d>>
  <2>1. InOrder(s) /\ s[1].frame = d.frame /\ out \in Decodings(s)
    BY <1>3, <1>4
  <2> HIDE DEF s
  <2>2. Decodings(s) = {<<s[1].frame>>}
    BY <2>1, InOrderIsIntact
  <2>3. out = <<d.frame>>
    BY <2>1, <2>2
  <2> QED
    BY <1>3, <2>3
<1>6. d \notin AtLog
  BY <1>2 DEF ForwardInv, OnePlace
<1>7. AtLog' \subseteq AtLog \cup {d} /\ LoggedOnce'
  BY <1>1, <1>4, <1>5, <1>6, AppendToLog
<1>8. AtConcat' = AtConcat /\ AtCollector' = AtCollector /\ CollectedOnce'
  BY <1>1 DEF AtConcat, AtCollector, CollectedOnce, ForwardInv
<1>9. OnePlace'
  BY <1>1, <1>2, <1>7, <1>8, SourceAlone DEF ForwardInv, OnePlace
<1>10. ReceivedOnce'
  BY <1>1, <1>2, SourceAlone DEF ForwardInv, ReceivedOnce
<1>11. TypeOK'
  BY PipelinesKeepTypes DEF ForwardInv, DecoderStep
<1> QED
  BY <1>1, <1>7, <1>8, <1>9, <1>10, <1>11, SourceAlone DEF ForwardInv

LEMMA PassKeeps ==
    ASSUME ForwardInv, PassToConcat, UNCHANGED forwarderVars
    PROVE  ForwardInv'
<1> DEFINE d == Head(decoderQueue)
<1>1. /\ decoderQueue \in Seq(AllDiagrams) /\ decoderQueue # <<>>
      /\ concatQueue \in Seq(AllDiagrams)
      /\ decoderQueue' = Tail(decoderQueue) /\ concatQueue' = Append(concatQueue, d)
      /\ UNCHANGED <<networkVars, receiverVars, frameConcatBuffer, merged, dumperQueue, dumped>>
  BY DEF ForwardInv, TypeOK, LoggerTypeOK, PassToConcat
<1>2. /\ d \in AllDiagrams /\ d \in AtDecoder
      /\ AtDecoder' \subseteq AtDecoder \ {d} /\ Distinct(decoderQueue')
  BY <1>1, TailOfQueue DEF AtDecoder, ForwardInv, ReceivedOnce
<1> HIDE DEF d
<1>3. d \notin AtConcat
  BY <1>2 DEF ForwardInv, OnePlace
<1>4. AtConcat' = AtConcat \cup {d} /\ Distinct(concatQueue')
  BY <1>1, <1>2, <1>3, EndOfQueue DEF AtConcat, ForwardInv, ReceivedOnce
<1>5. /\ AtLog' = AtLog /\ AtCollector' = AtCollector /\ CollectedOnce' /\ LoggedOnce'
  BY <1>1 DEF AtLog, AtCollector, CollectedOnce, LoggedOnce, ForwardInv
<1>6. OnePlace'
  BY <1>1, <1>2, <1>4, <1>5, SourceAlone DEF ForwardInv, OnePlace
<1>7. ReceivedOnce'
  BY <1>1, <1>2, <1>4, SourceAlone DEF ForwardInv, ReceivedOnce
<1>8. TypeOK'
  BY PipelinesKeepTypes DEF ForwardInv, DecoderStep
<1> QED
  BY <1>1, <1>5, <1>6, <1>7, <1>8, SourceAlone DEF ForwardInv

\* What a call with a diagram that is not in the buffer yet collects.
LEMMA CallCollects ==
    ASSUME ForwardInv, NEW d \in AllDiagrams, d \notin AtCollector, NEW t, NEW s,
           ComeFrom(s, t, d)
    PROVE  Collected(t, s) /\ ToSet(s) \subseteq AtCollector \cup {d}
<1> DEFINE old == FrameConcat!Segments(t)
<1>1. CASE t \in DOMAIN frameConcatBuffer
  <2>1. old = frameConcatBuffer[t].segments
    BY <1>1 DEF FrameConcat!Segments
  <2>2. Collected(t, old) /\ ToSet(old) \subseteq AtCollector
    BY <1>1, <2>1 DEF ForwardInv, CollectedOnce, AtCollector
  <2> HIDE DEF old
  <2> QED
    BY <2>2 DEF Collected, ComeFrom, old
<1>2. CASE t \notin DOMAIN frameConcatBuffer
  <2>1. old = <<>>
    BY <1>2 DEF FrameConcat!Segments
  <2>2. ToSet(old) = {} /\ Distinct(old) /\ SortedIds(old)
    BY <2>1 DEF ToSet, Distinct, SortedIds
  <2> HIDE DEF old
  <2> QED
    BY <2>2 DEF Collected, ComeFrom, old
<1> QED
  BY <1>1, <1>2

LEMMA ConcatKeeps ==
    ASSUME NoCollision, ForwardInv, ConcatFrame, UNCHANGED forwarderVars
    PROVE  ForwardInv'
<1> DEFINE d == Head(concatQueue)
<1>1. /\ concatQueue \in Seq(AllDiagrams) /\ concatQueue # <<>>
      /\ concatQueue' = Tail(concatQueue)
      /\ FrameConcat!TypeOK /\ FrameConcat!Concat(d)
      /\ UNCHANGED <<networkVars, receiverVars, decoderQueue, dumped>>
  BY DEF ForwardInv, TypeOK, LoggerTypeOK, ConcatFrame
<1>2. /\ d \in AllDiagrams /\ d \in AtConcat
      /\ AtConcat' \subseteq AtConcat \ {d} /\ Distinct(concatQueue')
  BY <1>1, TailOfQueue DEF AtConcat, ForwardInv, ReceivedOnce
<1>3. d \in SentDiagrams
  BY <1>2
<1> HIDE DEF d
<1>4. d \notin AtCollector /\ d \notin AtLog /\ AtCollector \cap AtLog = {}
  BY <1>2 DEF ForwardInv, OnePlace
<1>5. /\ \A t \in DOMAIN frameConcatBuffer' :
            ComeFrom(frameConcatBuffer'[t].segments, t, d)
      /\ \A t \in DOMAIN merged' :
            /\ ComeFrom(merged'[t], t, d)
            /\ Len(merged'[t]) = merged'[t][1].num
            /\ t \notin DOMAIN frameConcatBuffer'
  BY <1>1, <1>3, CallEffect
<1>6. \A t \in DOMAIN frameConcatBuffer' :
        LET s == frameConcatBuffer'[t].segments IN
        Collected(t, s) /\ ToSet(s) \subseteq AtCollector \cup {d}
  BY <1>2, <1>4, <1>5, CallCollects
<1>7. \A t \in DOMAIN merged' :
        /\ Collected(t, merged'[t]) /\ ToSet(merged'[t]) \subseteq AtCollector \cup {d}
        /\ InOrder(merged'[t])
  BY <1>2, <1>4, <1>5, CallCollects, FullIsInOrder
<1>8. CollectedOnce'
  BY <1>6, <1>7 DEF CollectedOnce
<1>9. AtCollector' \subseteq AtCollector \cup {d}
  BY <1>6 DEF AtCollector
<1>10. \A t \in DOMAIN merged' : ToSet(merged'[t]) \cap AtCollector' = {}
  <2> SUFFICES ASSUME NEW t \in DOMAIN merged', NEW u \in DOMAIN frameConcatBuffer',
                      NEW x \in ToSet(merged'[t]), x \in ToSet(frameConcatBuffer'[u].segments)
               PROVE  FALSE
    BY DEF AtCollector
  <2>1. x.task = t /\ x.task = u
    BY <1>6, <1>7 DEF Collected
  <2> QED
    BY <1>5, <2>1
<1>11. /\ LoggedOnce'
       /\ \/ AtLog' = AtLog
          \/ \E t \in DOMAIN merged' : AtLog' \subseteq AtLog \cup ToSet(merged'[t])
  <2>1. CASE DOMAIN merged' = {}
    BY <1>1, <2>1 DEF ConcatFrame, AtLog, ForwardInv, LoggedOnce
  <2>2. CASE DOMAIN merged' # {}
    <3>1. PICK t \in DOMAIN merged' : \E out \in Decodings(merged'[t]) :
              dumperQueue' = dumperQueue \o out
      BY <2>2 DEF ConcatFrame
    <3>2. PICK out \in Decodings(merged'[t]) : dumperQueue' = dumperQueue \o out
      BY <3>1
    <3>3. InOrder(merged'[t])
      BY <1>7
    <3>4. dumperQueue' = dumperQueue \o <<merged'[t][1].frame>>
      BY <3>2, <3>3, InOrderIsIntact
    <3>5. merged'[t][1] \in AtCollector \cup {d}
      BY <1>7, <3>3, InOrderIsAll
    <3>6. merged'[t][1] \notin AtLog
      BY <1>4, <3>5
    <3> QED
      BY <1>1, <3>3, <3>4, <3>6, AppendToLog
  <2> QED
    BY <2>1, <2>2
<1>12. AtDecoder' = AtDecoder
  BY <1>1 DEF AtDecoder
<1>13. OnePlace'
  <2>1. CASE AtLog' = AtLog
    BY <1>1, <1>2, <1>9, <1>12, <2>1, SourceAlone DEF ForwardInv, OnePlace
  <2>2. ASSUME NEW t \in DOMAIN merged', AtLog' \subseteq AtLog \cup ToSet(merged'[t])
        PROVE  OnePlace'
    <3> DEFINE m == ToSet(merged'[t])
    <3>1. m \subseteq AtCollector \cup {d} /\ m \cap AtCollector' = {} /\ AtLog' \subseteq AtLog \cup m
      BY <1>7, <1>10, <2>2
    <3> HIDE DEF m
    <3> QED
      BY <1>1, <1>2, <1>9, <1>12, <3>1, SourceAlone DEF ForwardInv, OnePlace
  <2> QED
    BY <1>11, <2>1, <2>2
<1>14. ReceivedOnce'
  BY <1>1, <1>2, SourceAlone DEF ForwardInv, ReceivedOnce
<1>15. TypeOK'
  BY PipelinesKeepTypes DEF ForwardInv, ConcatStep
<1> QED
  BY <1>1, <1>8, <1>11, <1>13, <1>14, <1>15, SourceAlone DEF ForwardInv

LEMMA DumpKeeps ==
    ASSUME ForwardInv, DumpFrame, UNCHANGED forwarderVars
    PROVE  /\ ForwardInv'
           /\ dumped' = Append(dumped, Head(dumperQueue))
           /\ Head(dumperQueue) \in Frames \ pending
           /\ Head(dumperQueue) \notin ToSet(dumped)
<1> DEFINE f == Head(dumperQueue)
<1>1. /\ dumperQueue \in Seq(LogItems) /\ dumperQueue # <<>> /\ dumped \in Seq(LogItems)
      /\ dumperQueue' = Tail(dumperQueue) /\ dumped' = Append(dumped, f)
      /\ UNCHANGED <<networkVars, receiverVars, decoderQueue, concatQueue,
                     frameConcatBuffer, merged>>
  BY DEF ForwardInv, TypeOK, LoggerTypeOK, LogItems, DumpFrame
<1>2. /\ f \in LogItems /\ f \in ToSet(dumperQueue)
      /\ ToSet(dumperQueue') \subseteq ToSet(dumperQueue) \ {f} /\ Distinct(dumperQueue')
  BY <1>1, TailOfQueue DEF ForwardInv, LoggedOnce
<1> HIDE DEF f
<1>3. ToSet(dumped') = ToSet(dumped) \cup {f}
  BY <1>1, <1>2, EndOfQueue
<1>4. f \in Frames /\ f \notin ToSet(dumped) /\ LoggedOnce'
  BY <1>2, <1>3 DEF ForwardInv, LoggedOnce
<1>5. f \notin pending
  <2>1. Diagram(f, 0) \in AllDiagrams /\ Diagram(f, 0).frame = f
    BY <1>4, SegmentCount, DiagramFields
  <2>2. Diagram(f, 0) \in AtLog
    BY <1>2, <2>1 DEF AtLog
  <2>3. Diagram(f, 0) \notin AtPending
    BY <2>2 DEF ForwardInv, OnePlace
  <2> QED
    BY <2>1, <2>3 DEF AtPending
<1>6. AtLog' \subseteq AtLog
  BY <1>2, <1>3 DEF AtLog
<1>7. /\ AtDecoder' = AtDecoder /\ AtConcat' = AtConcat /\ AtCollector' = AtCollector
      /\ CollectedOnce' /\ ReceivedOnce'
  BY <1>1, SourceAlone DEF AtDecoder, AtConcat, AtCollector, CollectedOnce, ReceivedOnce,
                           ForwardInv
<1>8. OnePlace'
  BY <1>1, <1>6, <1>7, SourceAlone DEF ForwardInv, OnePlace
<1>9. TypeOK'
  BY PipelinesKeepTypes DEF ForwardInv, DumperStep
<1> QED
  BY <1>1, <1>4, <1>5, <1>7, <1>8, <1>9, SourceAlone DEF ForwardInv, f

-----------------------------------------------------------------------------
LEMMA InvAlways == ASSUME NoCollision PROVE Spec => []ForwardInv
<1>1. ForwardInv /\ [Next]_vars => ForwardInv'
  <2> SUFFICES ASSUME ForwardInv, [Next]_vars PROVE ForwardInv'
    OBVIOUS
  <2>1. CASE CommandStep
    BY <2>1, CommandKeeps
  <2>2. ASSUME NEW t \in RxThreads, RxHandleStep(t) PROVE ForwardInv'
    BY <2>2, SendKeeps, TakeFrameKeeps DEF RxHandleStep
  <2>3. ASSUME NEW t \in IoThreads, ReceiverStep(t) PROVE ForwardInv'
    <3>1. CASE Rearm(t)
      BY <2>3, <3>1, QuietKeeps DEF ReceiverStep
    <3> QED
      BY <2>3, <3>1, ReceiveKeeps, CopyOutKeeps DEF ReceiverStep
  <2>4. CASE NetworkStep \/ FailureStep
    <3>1. UNCHANGED forwarderVars
      BY <2>4 DEF NetworkStep, FailureStep
    <3> QED
      BY <2>4, <3>1, QuietKeeps
  <2>5. CASE DecoderStep
    BY <2>5, DecodeKeeps, PassKeeps DEF DecoderStep
  <2>6. CASE ConcatStep
    BY <2>6, ConcatKeeps DEF ConcatStep
  <2>7. CASE DumperStep
    BY <2>7, DumpKeeps DEF DumperStep
  <2>8. CASE UNCHANGED vars
    <3>1. UNCHANGED loggerVars /\ UNCHANGED <<network, pending, sending>>
      BY <2>8 DEF vars, networkVars, forwarderVars
    <3>2. SentOnce' /\ AtPending' = AtPending /\ AtSending' = AtSending
          /\ AtNetwork' = AtNetwork
      BY <3>1 DEF ForwardInv, SentOnce, AtPending, AtSending, AtNetwork
    <3>3. OnePlace'
      BY <3>1, <3>2, LoggerAlone DEF ForwardInv, OnePlace
    <3>4. TypeOK'
      BY <2>8 DEF vars, networkVars, forwarderVars, loggerVars, receiverVars, ForwardInv,
                  TypeOK, ForwarderTypeOK, LoggerTypeOK, FrameConcat!TypeOK
    <3> QED
      BY <3>1, <3>2, <3>3, <3>4, LoggerAlone DEF ForwardInv
  <2> QED
    BY <2>1, <2>2, <2>3, <2>4, <2>5, <2>6, <2>7, <2>8 DEF Next, Finished
<1> QED
  BY <1>1, InitForward, PTL DEF Spec

(***************************************************************************)
(* Only complete frames reach the decoder through the collector, for any   *)
(* frames, any number of threads, any losses and any LiveLimit, provided   *)
(* that nothing is duplicated and no two frames have the same task id.     *)
(***************************************************************************)
THEOREM MergedComplete == ASSUME NoCollision PROVE Spec => []MergedOnlyWhenCollected
<1>1. ForwardInv => MergedOnlyWhenCollected
  <2> SUFFICES ASSUME ForwardInv, NEW t \in DOMAIN merged
               PROVE  /\ Len(merged[t]) = merged[t][1].num
                      /\ {merged[t][i].id : i \in DOMAIN merged[t]} = 0..(merged[t][1].num - 1)
    BY DEF MergedOnlyWhenCollected
  <2>1. InOrder(merged[t])
    BY DEF ForwardInv, CollectedOnce
  <2> QED
    BY <2>1, InOrderIsAll DEF InOrder
<1> QED
  BY <1>1, InvAlways, PTL

(***************************************************************************)
(* Under the same provisions the file of the logger holds frames that the  *)
(* forwarding host received, whole and each at most once: forwarding       *)
(* implements FrameTransfer.                                               *)
(***************************************************************************)
THEOREM TransferImplemented == ASSUME NoCollision PROVE Spec => ImplementsTransfer
<1>1. Init => Transfer!Init
  BY DEF Init, ForwarderInit, LoggerInit, Transfer!Init
<1>2. ForwardInv /\ [Next]_vars => [Transfer!Next]_(Transfer!transferVars)
  <2> SUFFICES ASSUME ForwardInv, [Next]_vars
               PROVE  Transfer!Next \/ UNCHANGED <<Frames \ pending, dumped>>
    BY DEF Transfer!transferVars
  <2>1. pending \subseteq Frames
    BY DEF ForwardInv, TypeOK, ForwarderTypeOK
  <2>2. ASSUME NEW t \in RxThreads, NEW f \in Frames,
               IgnoreFrame(t, f) \/ SplitFrame(t, f), UNCHANGED loggerVars
        PROVE  Transfer!ReceiveFrame(f)
    <3>1. f \in pending /\ pending' = pending \ {f}
      BY <2>2 DEF IgnoreFrame, SplitFrame
    <3>2. dumped' = dumped
      BY <2>2 DEF loggerVars
    <3> QED
      BY <2>1, <3>1, <3>2 DEF Transfer!ReceiveFrame
  <2>3. ASSUME DumperStep PROVE \E f \in Frames : Transfer!LogFrame(f)
    <3>1. /\ dumped' = Append(dumped, Head(dumperQueue))
          /\ Head(dumperQueue) \in Frames \ pending
          /\ Head(dumperQueue) \notin ToSet(dumped)
      BY <2>3, DumpKeeps DEF DumperStep
    <3>2. pending' = pending
      BY <2>3 DEF DumperStep, forwarderVars
    <3> QED
      BY <3>1, <3>2 DEF Transfer!LogFrame, Transfer!ToSet, ToSet
  <2>4. CASE UNCHANGED <<pending, dumped>>
    BY <2>4
  <2>5. ASSUME NEW t \in RxThreads, SendDiagram(t), UNCHANGED loggerVars
        PROVE  UNCHANGED <<pending, dumped>>
    BY <2>5 DEF SendDiagram, loggerVars
  <2>6. ASSUME CommandStep \/ (\E t \in IoThreads : ReceiverStep(t)) \/ NetworkStep \/ FailureStep
               \/ DecoderStep \/ ConcatStep \/ UNCHANGED vars
        PROVE  UNCHANGED <<pending, dumped>>
    BY <2>6 DEF CommandStep, SetDestinationIP, SetDestinationPort, ReceiverStep, Receive, CopyOut,
                Rearm, NetworkStep, FailureStep, ReceiveError, Exit, DecoderStep, DecodeWholeFrame,
                PassToConcat, ConcatStep, ConcatFrame, vars, forwarderVars, loggerVars
  <2> QED
    BY <2>2, <2>3, <2>4, <2>5, <2>6 DEF Next, RxHandleStep, Finished, Transfer!Next
<1> QED
  BY <1>1, <1>2, InvAlways, PTL DEF Spec, ImplementsTransfer, Transfer!Spec

-----------------------------------------------------------------------------
(* Destinations                                                            *)

\* Where the two parts of the destination come from: the address from the
\* last command that began, the port from a command that is done, the last one
\* if it has a port.  A thread sends only when both parts are set.
DestinationInv ==
    /\ cpc = "port" => destinationIP = Commands[commandsDone + 1].ip
    /\ cpc = "idle" /\ commandsDone # 0 => destinationIP = LastCommand.ip
    /\ cpc = "idle" /\ commandsDone = 0 => destinationIP = NoIP
    /\ commandsDone # 0 /\ LastCommand.port # NoPort => destinationPort = LastCommand.port
    /\ destinationPort # NoPort =>
           \E i \in 1..commandsDone : destinationPort = Commands[i].port
    /\ \A t \in RxThreads : sending[t] # <<>> => HasDestination

LEMMA CommandInRange ==
    ASSUME TypeOK
    PROVE  /\ Len(Commands) \in Nat /\ DOMAIN Commands = 1..Len(Commands)
           /\ commandsDone \in 0..Len(Commands)
           /\ cpc = "port" => commandsDone + 1 \in DOMAIN Commands
  BY CommandsAssumption DEF TypeOK, ForwarderTypeOK

LEMMA DestinationStep == TypeOK /\ DestinationInv /\ [Next]_vars => DestinationInv'
<1> SUFFICES ASSUME TypeOK, DestinationInv, [Next]_vars PROVE DestinationInv'
  OBVIOUS
<1>1. CASE SetDestinationIP
  <2>1. /\ commandsDone + 1 \in DOMAIN Commands
        /\ cpc' = "port" /\ destinationIP' = Commands[commandsDone + 1].ip
        /\ UNCHANGED <<destinationPort, commandsDone, sending>>
    BY <1>1, CommandInRange DEF SetDestinationIP, Command
  <2>2. destinationIP' # NoIP
    BY <2>1, CommandsAssumption
  <2> QED
    BY <2>1, <2>2 DEF DestinationInv, HasDestination, LastCommand
<1>2. CASE SetDestinationPort
  <2> DEFINE c == Commands[commandsDone + 1]
  <2>1. /\ commandsDone' = commandsDone + 1 /\ commandsDone \in Nat
        /\ cpc = "port" /\ cpc' = "idle"
        /\ destinationPort' = IF c.port = NoPort THEN destinationPort ELSE c.port
        /\ UNCHANGED <<destinationIP, sending>>
    BY <1>2, CommandInRange DEF SetDestinationPort, Command
  <2>2. LastCommand' = c
    BY <2>1 DEF LastCommand
  <2>3. destinationPort' # NoPort =>
            \E i \in 1..commandsDone' : destinationPort' = Commands[i].port
    <3>1. CASE c.port = NoPort
      <4>1. destinationPort' # NoPort =>
                \E i \in 1..commandsDone : destinationPort' = Commands[i].port
        BY <2>1, <3>1 DEF DestinationInv
      <4>2. 1..commandsDone \subseteq 1..commandsDone'
        BY <2>1
      <4> QED
        BY <4>1, <4>2
    <3>2. CASE c.port # NoPort
      <4>1. commandsDone + 1 \in 1..commandsDone'
        BY <2>1
      <4> QED
        BY <2>1, <3>2, <4>1
    <3> QED
      BY <3>1, <3>2
  <2>4. \A t \in RxThreads : sending'[t] # <<>> => HasDestination'
    BY <2>1 DEF DestinationInv, HasDestination
  <2>5. commandsDone' # 0 /\ destinationIP' = c.ip /\ (c.port # NoPort => destinationPort' = c.port)
    BY <2>1 DEF DestinationInv
  <2> QED
    BY <2>1, <2>2, <2>3, <2>4, <2>5 DEF DestinationInv
<1>3. ASSUME NEW t \in RxThreads, SendDiagram(t) PROVE DestinationInv'
  <2>1. /\ sending' = [sending EXCEPT ![t] = Tail(@)] /\ sending[t] # <<>>
        /\ UNCHANGED <<destinationIP, destinationPort, commandsDone, cpc>>
    BY <1>3 DEF SendDiagram
  <2>2. \A u \in RxThreads : sending'[u] # <<>> => sending[u] # <<>>
    BY <2>1 DEF TypeOK, ForwarderTypeOK
  <2> QED
    BY <2>1, <2>2 DEF DestinationInv, HasDestination, LastCommand
<1>4. ASSUME NEW t \in RxThreads, NEW f \in Frames, IgnoreFrame(t, f) \/ SplitFrame(t, f)
      PROVE  DestinationInv'
  <2>1. UNCHANGED <<destinationIP, destinationPort, commandsDone, cpc>>
    BY <1>4 DEF IgnoreFrame, SplitFrame
  <2>2. CASE IgnoreFrame(t, f)
    BY <2>1, <2>2 DEF IgnoreFrame, DestinationInv, HasDestination, LastCommand
  <2>3. CASE SplitFrame(t, f)
    <3>1. sending' = [sending EXCEPT ![t] = Segmentation(f)] /\ HasDestination
      BY <2>3 DEF SplitFrame
    <3> QED
      BY <2>1, <3>1 DEF DestinationInv, HasDestination, LastCommand
  <2> QED
    BY <1>4, <2>2, <2>3
<1>5. CASE UNCHANGED forwarderVars
  BY <1>5 DEF forwarderVars, DestinationInv, HasDestination, LastCommand
<1> QED
  BY <1>1, <1>2, <1>3, <1>4, <1>5
     DEF Next, CommandStep, RxHandleStep, ReceiverStep, DecoderStep, ConcatStep, DumperStep,
         NetworkStep, FailureStep, Finished, vars

(***************************************************************************)
(* Whatever the commands, malformed ports among them, and whenever they    *)
(* come: a diagram goes to an address and a port that commands gave, and   *)
(* to those of the last command once it is done, if it was complete.       *)
(***************************************************************************)
THEOREM DestinationsCommanded == Spec => SentAsCommanded
<1> DEFINE AsCommanded ==
        \A d \in network' \ network :
            /\ \E i \in 1..CommandsBegun : d.ip = Commands[i].ip
            /\ \E i \in 1..commandsDone : d.port = Commands[i].port /\ d.port # NoPort
            /\ cpc = "idle" /\ LastCommand.port # NoPort =>
                  d.ip = LastCommand.ip /\ d.port = LastCommand.port
<1>1. Init => DestinationInv
  BY DEF Init, ForwarderInit, DestinationInv
<1>2. TypeOK /\ DestinationInv /\ [Next]_vars => [AsCommanded]_vars
  <2> SUFFICES ASSUME TypeOK, DestinationInv, Next, NEW d \in network' \ network
               PROVE  /\ \E i \in 1..CommandsBegun : d.ip = Commands[i].ip
                      /\ \E i \in 1..commandsDone : d.port = Commands[i].port /\ d.port # NoPort
                      /\ cpc = "idle" /\ LastCommand.port # NoPort =>
                            d.ip = LastCommand.ip /\ d.port = LastCommand.port
    OBVIOUS
  <2>1. \E t \in RxThreads : SendDiagram(t)
    BY DEF Next, CommandStep, SetDestinationIP, SetDestinationPort, RxHandleStep, IgnoreFrame,
           SplitFrame, ReceiverStep, Receive, CopyOut, Rearm, Arrive, DecoderStep,
           DecodeWholeFrame, PassToConcat, ConcatStep, ConcatFrame, DumperStep, DumpFrame,
           NetworkStep, Lose, FailureStep, ReceiveError, Exit, Finished, vars, networkVars
  <2>2. HasDestination /\ d.ip = destinationIP /\ d.port = destinationPort
    BY <2>1 DEF SendDiagram, SendDatagram, DestinationInv
  <2>3. \E i \in 1..commandsDone : d.port = Commands[i].port /\ d.port # NoPort
    BY <2>2 DEF HasDestination, DestinationInv
  <2>4. commandsDone \in Nat /\ commandsDone # 0 /\ cpc \in {"idle", "port"}
    BY <2>3, CommandInRange DEF TypeOK, ForwarderTypeOK
  <2>5. \E i \in 1..CommandsBegun : d.ip = Commands[i].ip
    <3>1. CASE cpc = "idle"
      <4>1. CommandsBegun = commandsDone /\ commandsDone \in 1..commandsDone
        BY <2>4, <3>1 DEF CommandsBegun
      <4>2. d.ip = Commands[commandsDone].ip
        BY <2>2, <2>4, <3>1 DEF DestinationInv, LastCommand
      <4> QED
        BY <4>1, <4>2
    <3>2. CASE cpc = "port"
      <4>1. CommandsBegun = commandsDone + 1 /\ commandsDone + 1 \in 1..commandsDone + 1
        BY <2>4, <3>2 DEF CommandsBegun
      <4>2. d.ip = Commands[commandsDone + 1].ip
        BY <2>2, <3>2 DEF DestinationInv
      <4> QED
        BY <4>1, <4>2
    <3> QED
      BY <2>4, <3>1, <3>2
  <2>6. cpc = "idle" /\ LastCommand.port # NoPort =>
            d.ip = LastCommand.ip /\ d.port = LastCommand.port
    BY <2>2, <2>4 DEF DestinationInv
  <2> QED
    BY <2>3, <2>5, <2>6
<1> HIDE DEF AsCommanded
<1>3. Spec => [][AsCommanded]_vars
  BY <1>1, <1>2, DestinationStep, TypeCorrect, PTL DEF Spec
<1> QED
  BY <1>3 DEF AsCommanded, SentAsCommanded
=============================================================================
