----------------------------- MODULE FrameConcat -----------------------------
(***************************************************************************)
(* The "FrameConcat" handler of the UDP remote logger: it collects the     *)
(* diagrams a forwarder split a frame into and merges them.  The handler   *)
(* runs on the one worker of frameConcatPipeline, a call per diagram, and  *)
(* believes whatever the header of the diagram says.                       *)
(*                                                                         *)
(* An entry of frameConcatBuffer lives for at most LiveLimit calls, those  *)
(* for other tasks included (100 in the code).                             *)
(***************************************************************************)
EXTENDS Integers, Sequences, FiniteSets, Functions

CONSTANTS
    Diagrams,    \* headers (task, id, num) and contents that may arrive
    LiveLimit    \* calls an incomplete entry survives

ASSUME DiagramsAssumption ==
    \A d \in Diagrams : d.id \in Nat /\ d.num \in Nat
ASSUME LiveLimitAssumption == LiveLimit \in Nat \ {0}

VARIABLES
    frameConcatBuffer,   \* diagramTaskId -> collected segments and live count
    merged               \* what the latest call handed to the frame decoder

concatVars == <<frameConcatBuffer, merged>>

TaskIdsOf(diagrams) == {d.task : d \in diagrams}

Entry == [segments : Seq(Diagrams), live : Nat]

Init ==
    /\ frameConcatBuffer = [t \in {} |-> [segments |-> <<>>, live |-> 0]]
    /\ merged = [t \in {} |-> <<>>]

\* The results std::sort may have: diagrams with equal ids in any order.
SortedById(s) ==
    {[i \in DOMAIN s |-> s[p[i]]] : p \in
        {q \in Injection(DOMAIN s, DOMAIN s) :
            \A i, j \in DOMAIN s : i < j => s[q[i]].id <= s[q[j]].id}}

Segments(t) ==
    IF t \in DOMAIN frameConcatBuffer THEN frameConcatBuffer[t].segments ELSE <<>>

LiveCount(t) ==
    IF t \in DOMAIN frameConcatBuffer THEN frameConcatBuffer[t].live ELSE 0

\* The buffer once the segments of task t are s.
WithSegments(t, s) ==
    [u \in DOMAIN frameConcatBuffer \cup {t} |->
        [segments |-> IF u = t THEN s ELSE Segments(u), live |-> LiveCount(u)]]

\* Mutant: the last diagram is taken for the end of the frame.
CompleteOnLast(entry) ==
    entry.segments[Len(entry.segments)].id + 1 = entry.segments[1].num

\* The first header's numDiagrams equals the number of segments.
Complete(entry) == entry.segments[1].num = Len(entry.segments)

\* Mutants: an entry expires one call later, one call earlier.
ExpiresLate(entry) == entry.live > LiveLimit
ExpiresEarly(entry) == entry.live + 1 >= LiveLimit

\* ++live > LiveLimit
Expires(entry) == entry.live + 1 > LiveLimit

\* Mutants: the live counts, or those of the other tasks, are not incremented.
AgeNothing(buffer, kept) == [t \in kept |-> buffer[t]]

Age(buffer, kept) == [t \in kept |-> [buffer[t] EXCEPT !.live = @ + 1]]

\* Mutant: complete entries are merged but not removed.
RemainingMerged(buffer) == {t \in DOMAIN buffer : ~Expires(buffer[t])}

\* Neither merged by this call nor too old.
Remaining(buffer) ==
    {t \in DOMAIN buffer : ~Complete(buffer[t]) /\ ~Expires(buffer[t])}

(***************************************************************************)
(* One call: insert and sort, merge the complete entries, age all entries, *)
(* remove the merged and the expired ones.                                 *)
(***************************************************************************)
Concat(d) ==
    \E s \in SortedById(Append(Segments(d.task), d)) :
        LET buffer == WithSegments(d.task, s) IN
        /\ merged' = [t \in {u \in DOMAIN buffer : Complete(buffer[u])} |->
                        buffer[t].segments]
        /\ frameConcatBuffer' = Age(buffer, Remaining(buffer))

Next == \E d \in Diagrams : Concat(d)

Spec == Init /\ [][Next]_concatVars

-----------------------------------------------------------------------------
\* Types; an entry has at least one segment, and is removed at the limit.
TypeOK ==
    /\ DOMAIN frameConcatBuffer \subseteq TaskIdsOf(Diagrams)
    /\ \A t \in DOMAIN frameConcatBuffer :
        /\ frameConcatBuffer[t] \in Entry
        /\ frameConcatBuffer[t].live \in 1..LiveLimit
        /\ frameConcatBuffer[t].segments # <<>>
    /\ \A t \in DOMAIN merged : merged[t] \in Seq(Diagrams)

(***************************************************************************)
(* No two entries have the same age: a call creates at most one entry and  *)
(* ages all the others (lines 74-78 run for every task on every call).     *)
(***************************************************************************)
LiveCountsDistinct ==
    \A t, u \in DOMAIN frameConcatBuffer :
        frameConcatBuffer[t].live = frameConcatBuffer[u].live => t = u

(***************************************************************************)
(* Whatever arrives - losses, duplicates, colliding task ids - the buffer  *)
(* never holds more than LiveLimit incomplete frames.                      *)
(***************************************************************************)
BufferBounded == Cardinality(DOMAIN frameConcatBuffer) <= LiveLimit

\* An entry holds at most one segment for each call it has lived through.
SegmentsWithinLive ==
    \A t \in DOMAIN frameConcatBuffer :
        Len(frameConcatBuffer[t].segments) <= frameConcatBuffer[t].live

\* What the buffer holds never passes the completion test.
NoneComplete ==
    \A t \in DOMAIN frameConcatBuffer : ~Complete(frameConcatBuffer[t])

\* The segments held for all tasks, each with its task and place.
HeldSegments ==
    UNION {{t} \X DOMAIN frameConcatBuffer[t].segments : t \in DOMAIN frameConcatBuffer}

(***************************************************************************)
(* The memory the handler holds is bounded by the segments of LiveLimit    *)
(* calls, not of LiveLimit calls per task: incomplete frames that keep     *)
(* receiving segments cannot grow it beyond that.                          *)
(***************************************************************************)
MemoryBounded == Cardinality(HeldSegments) <= LiveLimit

(***************************************************************************)
(* The loop over all tasks (lines 58-72) merges at most one frame per call *)
(* so the order in which it visits the tasks never shows in the log.       *)
(***************************************************************************)
AtMostOneMerged == \A t, u \in DOMAIN merged : t = u
=============================================================================
