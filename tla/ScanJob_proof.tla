---------------------------- MODULE ScanJob_proof ----------------------------
(***************************************************************************)
(* Theorems about ScanJob, for all jobs, lists of channels and devices:    *)
(* the plan is the range asked for, and an injection follows it.           *)
(***************************************************************************)
EXTENDS ScanJob, EchoProbeWork_proof

-----------------------------------------------------------------------------
(* What is enumerated is the range                                         *)

LEMMA EnumerateIsScan ==
    ASSUME NEW r, LimitsOK(r), Enumerable(r)
    PROVE  IsScanOf(Enumerate(r), r)
<1> DEFINE s    == Distance(r.step, 0)
           d    == Distance(r.begin, r.end)
           low  == IF r.begin < r.end THEN r.begin ELSE r.end
           list == Enumerate(r)
           N    == Length(r, r.begin)
           up   == r.step > 0
<1>1. /\ r.begin \in Int /\ r.end \in Int /\ r.step \in Int /\ r.step # 0
      /\ s \in Nat \ {0} /\ d \in Nat /\ low \in Int
  BY DEF LimitsOK, Enumerable, Distance
<1>2. /\ up => r.step = s /\ low = r.begin /\ r.end = r.begin + d
      /\ ~up => r.step = -s /\ low = r.end /\ r.end = r.begin - d
  BY <1>1 DEF Enumerable, Distance
<1>3. N = (d \div s) + 1
  BY <1>1, <1>2 DEF Length, Goes, Gap, Distance
<1>4. list = Progression(r, r.begin) /\ list \in Seq(Int) /\ Len(list) = N /\ N \in Nat
  BY <1>1, EnumerateIsProgression
<1>5. \A k \in 1..N : list[k] = r.begin + (k - 1) * r.step
  BY <1>4 DEF Progression
<1>6. DOMAIN list = 1..N
  BY <1>4
<1> HIDE DEF s, d, low, list, N
<1>7. \A k \in 1..N : list[k] = IF up THEN r.begin + (k - 1) * s ELSE r.begin - (k - 1) * s
  <2> SUFFICES ASSUME NEW k \in 1..N
               PROVE  list[k] = IF up THEN r.begin + (k - 1) * s ELSE r.begin - (k - 1) * s
    OBVIOUS
  <2>1. k \in Int /\ (k - 1) * (-s) = -((k - 1) * s)
    BY <1>1, <1>4
  <2> QED
    BY <1>1, <1>2, <1>5, <2>1
<1> HIDE DEF up
<1> DEFINE q == d \div s
<1>8. q \in Nat
  BY <1>1
<1> HIDE DEF q
<1>9. ASSUME NEW k \in 1..N
      PROVE  list[k] \in {v \in low..low + d : Distance(v, r.begin) % s = 0}
  <2> DEFINE j == k - 1
  <2>1. j \in Nat /\ j <= d \div s
    <3>1. N = q + 1
      BY <1>3 DEF q
    <3> QED
      BY <1>8, <3>1 DEF q
  <2>2. j * s \in Nat /\ j * s <= d
    BY <1>1, <2>1, MultipleFits
  <2>3. list[k] = IF up THEN r.begin + j * s ELSE r.begin - j * s
    BY <1>7
  <2> HIDE DEF j
  <2>4. (j * s + 0) % s = 0
    <3>1. 0 \in 0..s - 1 /\ j \in Int
      BY <1>1, <2>1
    <3> QED
      BY <1>1, <3>1, QuotientIs
  <2>5. Distance(list[k], r.begin) = j * s
    BY <1>1, <2>2, <2>3 DEF Distance
  <2>6. list[k] \in low..low + d
    BY <1>1, <1>2, <2>2, <2>3
  <2> QED
    BY <2>2, <2>4, <2>5, <2>6
<1>10. ASSUME NEW v \in low..low + d, Distance(v, r.begin) % s = 0
      PROVE  v \in Values(list)
  <2> DEFINE a == Distance(v, r.begin)
             j == a \div s
  <2>1. /\ v \in Int /\ a \in Nat /\ a <= d
        /\ v = IF up THEN r.begin + a ELSE r.begin - a
    BY <1>1, <1>2 DEF Distance
  <2>2. a % s = 0
    BY <1>10
  <2> HIDE DEF a
  <2>3. j \in Int /\ a = j * s + (a % s) /\ a % s = 0
    BY <1>1, <2>1, <2>2, Division
  <2>4. j \in Nat
    BY <1>1, <2>1
  <2> HIDE DEF j
  <2>5. j * s = a
    BY <1>1, <2>1, <2>3
  <2>6. j <= d \div s
    BY <1>1, <2>1, <2>4, <2>5, MultipleFits
  <2>7. j + 1 \in 1..N /\ (j + 1) - 1 = j
    <3>1. N = q + 1 /\ j <= q
      BY <1>3, <2>6 DEF q
    <3> QED
      BY <1>8, <2>4, <3>1
  <2>8. list[j + 1] = v
    BY <1>7, <2>1, <2>5, <2>7
  <2> QED
    BY <1>6, <2>7, <2>8 DEF Values
<1>11. Values(list) = {v \in low..low + d : Distance(v, r.begin) % s = 0}
  BY <1>6, <1>9, <1>10 DEF Values
<1>12. ASSUME NEW i \in 1..N, NEW j \in 1..N
       PROVE  i < j <=> (IF up THEN list[i] < list[j] ELSE list[i] > list[j])
  <2>1. i - 1 \in Int /\ j - 1 \in Int /\ (i < j <=> i - 1 < j - 1)
    BY <1>4
  <2>2. /\ (i - 1) * s \in Int /\ (j - 1) * s \in Int
        /\ i - 1 < j - 1 <=> (i - 1) * s < (j - 1) * s
    BY <1>1, <2>1, Multiples
  <2>3. /\ list[i] = IF up THEN r.begin + (i - 1) * s ELSE r.begin - (i - 1) * s
        /\ list[j] = IF up THEN r.begin + (j - 1) * s ELSE r.begin - (j - 1) * s
    BY <1>7
  <2> QED
    BY <1>1, <2>1, <2>2, <2>3
<1> QED
  BY <1>6, <1>11, <1>12 DEF IsScanOf, s, d, low, list, up

-----------------------------------------------------------------------------
(* Types, and where the lists come from                                    *)

LEMMA JobsOK == \A p \in Jobs \cup {Parameters} : JobOK(p)
  BY JobsAssumption, ParametersAreOK DEF JobOK, Positive

(***************************************************************************)
(* The lists of a job are what its ranges gave when it began.              *)
(***************************************************************************)
PlanInv ==
    /\ WorkTyped
    /\ job \in Jobs \cup {Parameters}
    /\ origin \in Tuning
    /\ jpc \notin {"idle", "threw"} =>
        /\ job \in Jobs
        /\ Enumerable(Completed(job.cf, origin.cf))
        /\ cfList = Enumerate(Completed(job.cf, origin.cf))
        /\ ArbitraryRates => Enumerable(Completed(job.sf, origin.sf))
        /\ sfList = IF ArbitraryRates THEN Enumerate(Completed(job.sf, origin.sf))
                    ELSE <<origin.sf>>

LEMMA PlanTypes == PlanInv => TypeOK
<1> SUFFICES ASSUME PlanInv PROVE TypeOK
  OBVIOUS
<1>1. jpc \notin {"hop"} => sent \in 0..job.cf_repeat - 1
  <2>1. job.cf_repeat \in Positive
    BY DEF PlanInv, WorkTyped, JobOK
  <2> QED
    BY <2>1 DEF PlanInv, WorkTyped, InJob, InLoops, Positive
<1>2. InLoops => at \in Positions
  BY DEF PlanInv, WorkTyped, InJob
<1> QED
  BY <1>1, <1>2 DEF PlanInv, WorkTyped, TypeOK, InLoops, Positions

LEMMA ListsType ==
    ASSUME PlanInv, jpc \notin {"idle", "threw"}
    PROVE  /\ cfList \in Seq(Int) /\ Len(cfList) \in Positive /\ DOMAIN cfList = 1..Len(cfList)
           /\ sfList \in Seq(Int) /\ Len(sfList) \in Positive /\ DOMAIN sfList = 1..Len(sfList)
<1>1. JobOK(job) /\ origin.cf \in Int /\ origin.sf \in Int
  BY DEF PlanInv, WorkTyped, Tuning
<1>2. /\ cfList \in Seq(Int) /\ Len(cfList) \in Positive /\ DOMAIN cfList = 1..Len(cfList)
  BY <1>1, EnumerateType DEF PlanInv, JobOK
<1>3. CASE ArbitraryRates
  <2>1. sfList \in Seq(Int) /\ Len(sfList) \in Positive /\ DOMAIN sfList = 1..Len(sfList)
    BY <1>1, <1>3, EnumerateType DEF PlanInv, JobOK
  <2> QED
    BY <1>2, <2>1
<1>4. CASE ~ArbitraryRates
  <2>1. sfList = <<origin.sf>>
    BY <1>4 DEF PlanInv
  <2> QED
    BY <1>1, <1>2, <2>1 DEF Positive
<1> QED
  BY <1>3, <1>4

LEMMA PlanInitially == Init => PlanInv
<1> SUFFICES ASSUME Init PROVE PlanInv
  OBVIOUS
<1>1. WorkTyped /\ jpc = "idle" /\ job = Parameters
  BY WorkTypedInitially DEF Init, WorkInit
<1>2. origin \in Tuning
  BY WorkAssumption DEF Init
<1> QED
  BY <1>1, <1>2 DEF PlanInv

\* A job begins, or its ranges are impossible.
LEMMA StartKeepsPlan == PlanInv /\ Start => PlanInv'
<1> SUFFICES ASSUME PlanInv, Start PROVE PlanInv'
  OBVIOUS
<1>1. PICK p \in Jobs : StartJob(p) \/ FailToStart(p)
  BY DEF Start
<1>2. /\ JobOK(p) /\ origin' = tuned /\ tuned \in Tuning /\ job' = p
      /\ tuned' = tuned
  BY <1>1, JobsOK DEF Start, StartJob, FailToStart, PlanInv, WorkTyped
<1>3. CASE FailToStart(p)
  <2>1. WorkTyped'
    BY <1>2, <1>3 DEF Start, FailToStart, PlanInv, WorkTyped, WorkPcs, InJob, InLoops
  <2>2. jpc' = "threw"
    BY <1>3 DEF FailToStart
  <2> QED
    BY <1>1, <1>2, <2>1, <2>2 DEF PlanInv
<1>4. CASE StartJob(p)
  <2>1. WorkTyped'
    BY <1>2, <1>4, StartTyped
  <2>2. /\ sfList' = SamplingRates(p) /\ cfList' = Enumerate(Completed(p.cf, tuned.cf))
        /\ Enumerable(Completed(p.cf, tuned.cf))
        /\ ArbitraryRates => Enumerable(Completed(p.sf, tuned.sf))
    BY <1>4 DEF StartJob, Plannable, CarrierRange, RateRange
  <2>3. sfList' = IF ArbitraryRates THEN Enumerate(Completed(p.sf, tuned.sf)) ELSE <<tuned.sf>>
    BY <2>2 DEF SamplingRates, RateRange
  <2> QED
    BY <1>1, <1>2, <2>1, <2>2, <2>3 DEF PlanInv
<1> QED
  BY <1>1, <1>3, <1>4

LEMMA StepKeepsPlan == PlanInv /\ Step => PlanInv'
<1> SUFFICES ASSUME PlanInv, Step PROVE PlanInv'
  OBVIOUS
<1>1. WorkTyped' /\ UNCHANGED <<job, sfList, cfList, origin>>
  BY WorkStepTyped DEF PlanInv, Step
<1>2. jpc \notin {"idle", "threw"}
  BY DEF Step, WorkStep, ShiftRate, ShiftCarrier, InjectFrame, InjectBatch, PassPoint,
         MeasurePoint, HopChannel
<1> QED
  BY <1>1, <1>2 DEF PlanInv

LEMMA PlanStep == PlanInv /\ [Next]_vars => PlanInv'
<1>1. PlanInv /\ UNCHANGED vars => PlanInv'
  BY DEF vars, workVars, PlanInv, WorkTyped, Channels, InJob, InLoops, Positions
<1> QED
  BY <1>1, StartKeepsPlan, StepKeepsPlan DEF Next

LEMMA PlanAlways == Spec => []PlanInv
BY PlanInitially, PlanStep, PTL DEF Spec

(***************************************************************************)
(* The types of the variables of a job, for all jobs: the indices stay     *)
(* within the lists, the counters below their limits.                      *)
(***************************************************************************)
THEOREM TypeCorrect == Spec => []TypeOK
BY PlanAlways, PlanTypes, PTL

LEMMA PlanGivesRange == PlanInv => ScanIsRange
<1> SUFFICES ASSUME PlanInv, jpc \notin {"idle", "threw"}
             PROVE  /\ IsScanOf(cfList, Completed(job.cf, origin.cf))
                    /\ IF ArbitraryRates THEN IsScanOf(sfList, Completed(job.sf, origin.sf))
                                         ELSE sfList = <<origin.sf>>
  BY DEF ScanIsRange
<1>1. /\ job.cf \in ScanRange /\ job.sf \in ScanRange
      /\ origin.cf \in Int /\ origin.sf \in Int
  BY DEF PlanInv, WorkTyped, InJob, JobOK, Tuning, InLoops
<1>2. LimitsOK(Completed(job.cf, origin.cf)) /\ LimitsOK(Completed(job.sf, origin.sf))
  BY <1>1, CompletedLimits
<1>3. IsScanOf(cfList, Completed(job.cf, origin.cf))
  BY <1>2, EnumerateIsScan DEF PlanInv
<1>4. ArbitraryRates => IsScanOf(sfList, Completed(job.sf, origin.sf))
  BY <1>2, EnumerateIsScan DEF PlanInv
<1> QED
  BY <1>3, <1>4 DEF PlanInv

(***************************************************************************)
(* The loops of every job visit the frequencies of its range, also         *)
(* downwards, over one point, and from where the job before left off.      *)
(***************************************************************************)
THEOREM PlanIsRange == Spec => []ScanIsRange
BY PlanGivesRange, PlanAlways, PTL

-----------------------------------------------------------------------------
(* An injection follows the plan                                           *)

Rates == Len(sfList)

Carriers == Len(cfList)

\* The place of the current point among all the points of the job, from 0.
VisitNumber == ((at.round - 1) * Rates + (at.sf - 1)) * Carriers + (at.cf - 1)

\* The visits that are over.
Visits == IF jpc = "returned" THEN job.round_repeat * Rates * Carriers ELSE VisitNumber

\* The repetitions of a batch, rounded up.
Repeats(p) == CeilingOfFloat(Float(p.cf_repeat), Float(Len(BatchFrames(p))))

\* The frames of one visit.
Each(p) == IF p.useBatchAPI THEN Repeats(p) * Len(BatchFrames(p))
                            ELSE p.cf_repeat * Len(InjectedFrames(p))

InPlan == jpc \notin {"idle", "threw", "hop"} /\ job.workingMode \in Injecting

(***************************************************************************)
(* The frames on the air are those of the visits that are over, and of the *)
(* injections of the current one; the front end has been tuned to it.      *)
(***************************************************************************)
AirInv ==
    /\ PlanInv
    /\ IsSeq(air)
    /\ InPlan =>
        /\ job.useBatchAPI => prebuilt = BatchFrames(job) /\ sent = 0
        /\ Len(air) = Visits * Each(job) + sent * Len(InjectedFrames(job))
        /\ \A n \in DOMAIN air : air[n].at = PlanPoint((n - 1) \div Each(job))
    /\ jpc \in {"shiftCF", "inject"} => job.workingMode \in Injecting
    /\ jpc = "shiftCF" => tuned.sf = Point.sf
    /\ jpc = "inject" => tuned = Point

\* The number of a visit gives its point.
LEMMA VisitPoint ==
    ASSUME NEW R \in Nat, NEW M \in Positive, NEW L \in Positive,
           NEW j \in 1..M, NEW i \in 1..L
    PROVE  LET k == (R * M + (j - 1)) * L + (i - 1) IN
           /\ k \in Nat
           /\ (k % L) + 1 = i
           /\ ((k \div L) % M) + 1 = j
<1> DEFINE h == R * M + (j - 1)
           k == h * L + (i - 1)
<1>1. /\ M \in Nat \ {0} /\ L \in Nat \ {0}
      /\ j - 1 \in 0..M - 1 /\ i - 1 \in 0..L - 1
  BY DEF Positive
<1>2. h % M = j - 1
  <2> DEFINE m == j - 1
  <2>1. m \in 0..M - 1
    BY <1>1
  <2> HIDE DEF m
  <2>2. (R * M + m) % M = m
    BY <1>1, <2>1, QuotientIs
  <2> QED
    BY <2>2 DEF m
<1>3. h \in Nat
  <2>1. R * M \in Nat
    BY <1>1
  <2> QED
    BY <1>1, <2>1
<1> HIDE DEF h
<1>4. k \div L = h /\ k % L = i - 1
  <2> DEFINE m == i - 1
  <2>1. m \in 0..L - 1 /\ h \in Int
    BY <1>1, <1>3
  <2>2. k = h * L + m
    OBVIOUS
  <2> HIDE DEF m, k
  <2>3. (h * L + m) \div L = h /\ (h * L + m) % L = m
    BY <1>1, <2>1, QuotientIs
  <2> QED
    BY <2>2, <2>3 DEF m
<1>5. k \in Nat
  <2>1. h * L \in Nat
    BY <1>1, <1>3
  <2> QED
    BY <1>1, <2>1
<1> QED
  BY <1>2, <1>4, <1>5 DEF h

\* The loops in this order go from a visit to the next.
LEMMA NextVisit ==
    ASSUME NEW r \in Positive, NEW R \in Positive, NEW M \in Positive, NEW L \in Positive,
           NEW j \in 1..M, NEW i \in 1..L
    PROVE  LET k == ((r - 1) * M + (j - 1)) * L + (i - 1) IN
           /\ k + 1 = ((r - 1) * M + (j - 1)) * L + ((i + 1) - 1)
           /\ i = L => k + 1 = ((r - 1) * M + ((j + 1) - 1)) * L + (1 - 1)
           /\ i = L /\ j = M => k + 1 = (((r + 1) - 1) * M + (1 - 1)) * L + (1 - 1)
           /\ i = L /\ j = M /\ r = R => k + 1 = R * M * L
<1>1. r \in Int /\ R \in Int /\ M \in Int /\ L \in Int /\ i \in Int /\ j \in Int
  BY DEF Positive
<1> QED
  BY <1>1

LEMMA LeaveIsNextVisit ==
    ASSUME PlanInv, InLoops, LeaveScanPoint, UNCHANGED <<job, sfList, cfList>>
    PROVE  Visits' = VisitNumber + 1
<1>1. at \in Positions /\ JobOK(job)
  BY DEF PlanInv, WorkTyped, InJob, InLoops, Positions
<1>2. /\ DOMAIN cfList = 1..Carriers /\ DOMAIN sfList = 1..Rates
      /\ Carriers \in Positive /\ Rates \in Positive
      /\ Carriers' = Carriers /\ Rates' = Rates
  BY ListsType DEF InLoops, Carriers, Rates
<1>3. at = [round |-> at.round, sf |-> at.sf, cf |-> at.cf]
      /\ at.round \in 1..job.round_repeat /\ at.sf \in 1..Rates /\ at.cf \in 1..Carriers
  BY <1>1, <1>2 DEF Positions
<1>4. at.round \in Positive /\ job.round_repeat \in Positive
  BY <1>1, <1>3 DEF JobOK, Positive
<1> DEFINE r == at.round
           j == at.sf
           i == at.cf
           R == job.round_repeat
           k == ((r - 1) * Rates + (j - 1)) * Carriers + (i - 1)
<1>5. /\ k + 1 = ((r - 1) * Rates + (j - 1)) * Carriers + ((i + 1) - 1)
      /\ i = Carriers => k + 1 = ((r - 1) * Rates + ((j + 1) - 1)) * Carriers + (1 - 1)
      /\ i = Carriers /\ j = Rates =>
            k + 1 = (((r + 1) - 1) * Rates + (1 - 1)) * Carriers + (1 - 1)
      /\ i = Carriers /\ j = Rates /\ r = R => k + 1 = R * Rates * Carriers
  BY <1>2, <1>3, <1>4, NextVisit
<1>6. VisitNumber = k
  BY DEF VisitNumber
<1>7. CASE at.cf < Carriers
  <2>1. at' = [round |-> at.round, sf |-> at.sf, cf |-> at.cf + 1] /\ jpc' = "visit"
    BY <1>3, <1>7 DEF LeaveScanPoint, Carriers
  <2>2. Visits' = ((r - 1) * Rates + (j - 1)) * Carriers + ((i + 1) - 1)
    BY <1>2, <2>1 DEF Visits, VisitNumber
  <2> QED
    BY <1>5, <1>6, <2>2
<1>8. CASE ~(at.cf < Carriers) /\ at.sf < Rates
  <2>1. at' = [round |-> at.round, sf |-> at.sf + 1, cf |-> 1] /\ jpc' = "visit"
    BY <1>3, <1>8 DEF LeaveScanPoint, Carriers, Rates
  <2>2. Visits' = ((r - 1) * Rates + ((j + 1) - 1)) * Carriers + (1 - 1)
    BY <1>2, <2>1 DEF Visits, VisitNumber
  <2>3. i = Carriers
    BY <1>2, <1>3, <1>8 DEF Positive
  <2> QED
    BY <1>5, <1>6, <2>2, <2>3
<1>9. CASE ~(at.cf < Carriers) /\ ~(at.sf < Rates)
  <2>1. i = Carriers /\ j = Rates
    BY <1>2, <1>3, <1>9 DEF Positive
  <2>2. NextRound
    BY <1>9 DEF LeaveScanPoint, Carriers, Rates
  <2>3. CASE at.round < job.round_repeat
    <3>1. at' = [round |-> at.round + 1, sf |-> 1, cf |-> 1] /\ jpc' = "visit"
      BY <2>2, <2>3 DEF NextRound
    <3>2. Visits' = (((r + 1) - 1) * Rates + (1 - 1)) * Carriers + (1 - 1)
      BY <1>2, <3>1 DEF Visits, VisitNumber
    <3> QED
      BY <1>5, <1>6, <2>1, <3>2
  <2>4. CASE ~(at.round < job.round_repeat)
    <3>1. jpc' = "returned" /\ at.round = job.round_repeat
      BY <1>3, <1>4, <2>2, <2>4 DEF NextRound, Positive
    <3>2. Visits' = R * Rates * Carriers
      BY <1>2, <3>1 DEF Visits
    <3> QED
      BY <1>5, <1>6, <2>1, <3>1, <3>2
  <2> QED
    BY <2>3, <2>4
<1> QED
  BY <1>7, <1>8, <1>9

\* ceil(c / n) whole groups of n are enough for c, and the last one is needed.
LEMMA CeilingIs ==
    ASSUME NEW c \in Nat \ {0}, NEW n \in Nat \ {0}
    PROVE  LET q == CeilingOf(c, n) IN
           /\ q \in Nat \ {0}
           /\ q * n - c \in 0..n - 1
<1>1. PICK k \in Nat : k * n < c /\ c <= (k + 1) * n
  BY CeilingParts
<1>2. CeilingOf(c, n) = k + 1
  BY <1>1, CeilingBetween
<1>3. (k + 1) * n = k * n + n /\ k * n \in Nat
  OBVIOUS
<1> QED
  BY <1>1, <1>2, <1>3

LEMMA EachType ==
    ASSUME NEW p, JobOK(p)
    PROVE  /\ Each(p) \in Positive
           /\ Len(InjectedFrames(p)) \in Positive
           /\ IsSeq(BatchFrames(p)) /\ Len(BatchFrames(p)) \in Positive
           /\ Repeats(p) \in Nat /\ Repeats(p) * Len(BatchFrames(p)) \in Positive
<1>1. p.cf_repeat \in Nat \ {0} /\ p.batchLength \in Nat \ {0}
  BY DEF JobOK, Positive
<1>2. Len(InjectedFrames(p)) \in Nat \ {0}
  BY InjectionIsSeq
<1>3. IsSeq(BatchFrames(p)) /\ Len(BatchFrames(p)) \in Nat \ {0}
  BY <1>1, BatchIsSeq
<1>4. Repeats(p) \in Nat \ {0}
  BY <1>1, <1>3, FloatIs, CeilingOfFloatType DEF Repeats
<1> DEFINE n == Len(BatchFrames(p))
           f == Len(InjectedFrames(p))
<1>5. n \in Nat \ {0} /\ f \in Nat \ {0}
  BY <1>2, <1>3
<1>6. Each(p) = IF p.useBatchAPI THEN Repeats(p) * n ELSE p.cf_repeat * f
  BY DEF Each
<1> HIDE DEF n, f
<1>7. Repeats(p) * n \in Nat \ {0} /\ p.cf_repeat * f \in Nat \ {0}
  BY <1>1, <1>4, <1>5
<1> QED
  BY <1>2, <1>3, <1>4, <1>6, <1>7 DEF Positive, n

\* Below 2^24 a batch is repeated until there are enough frames, and not longer.
LEMMA RepeatsAreEnough ==
    ASSUME NEW p, JobOK(p), p.cf_repeat < Digits24
    PROVE  Repeats(p) * Len(BatchFrames(p)) - p.cf_repeat \in 0..Len(BatchFrames(p)) - 1
<1>1. p.cf_repeat \in Nat \ {0} /\ Len(BatchFrames(p)) \in Nat \ {0}
  BY EachType DEF JobOK, Positive
<1>2. Repeats(p) = CeilingOf(p.cf_repeat, Len(BatchFrames(p)))
  BY <1>1, FloatCeilingIsExact DEF Repeats
<1> QED
  BY <1>1, <1>2, CeilingIs

\* Frames that follow m others of visit v, and fit into it, belong to it.
LEMMA FrameOfVisit ==
    ASSUME NEW e \in Positive, NEW v \in Nat, NEW m \in Nat, NEW f \in Nat, m + f <= e,
           NEW n \in v * e + m + 1..v * e + m + f
    PROVE  (n - 1) \div e = v
<1> DEFINE ve == v * e
           r  == n - 1 - ve
<1>1. e \in Nat \ {0} /\ v \in Int /\ ve \in Int
  BY DEF Positive
<1>2. n \in ve + m + 1..ve + m + f
  OBVIOUS
<1> HIDE DEF ve
<1>3. r \in 0..e - 1 /\ n - 1 = ve + r
  BY <1>1, <1>2
<1> HIDE DEF r
<1>4. (v * e + r) \div e = v
  BY <1>1, <1>3, QuotientIs
<1> QED
  BY <1>3, <1>4 DEF ve

\* The point of the current visit, as the plan has it.
LEMMA CurrentPoint ==
    ASSUME PlanInv, InLoops
    PROVE  VisitNumber \in Nat /\ PlanPoint(VisitNumber) = Point
<1>1. at \in Positions /\ JobOK(job)
  BY DEF PlanInv, WorkTyped, InJob, InLoops, Positions
<1>2. /\ DOMAIN cfList = 1..Carriers /\ DOMAIN sfList = 1..Rates
      /\ Carriers \in Positive /\ Rates \in Positive
  BY ListsType DEF InLoops, Carriers, Rates
<1>3. /\ at.round - 1 \in Nat /\ at.sf \in 1..Rates /\ at.cf \in 1..Carriers
  BY <1>1, <1>2 DEF Positions, JobOK, Positive
<1> DEFINE R == at.round - 1
           j == at.sf
           i == at.cf
           k == (R * Rates + (j - 1)) * Carriers + (i - 1)
<1>4. VisitNumber = k
  BY DEF VisitNumber
<1>5. R \in Nat /\ j \in 1..Rates /\ i \in 1..Carriers
  BY <1>3
<1> HIDE DEF R, i, j
<1>6. k \in Nat /\ (k % Carriers) + 1 = i /\ ((k \div Carriers) % Rates) + 1 = j
  <2> DEFINE M == Rates
             L == Carriers
  <2>1. M \in Positive /\ L \in Positive /\ j \in 1..M /\ i \in 1..L
    BY <1>2, <1>5
  <2>2. k = (R * M + (j - 1)) * L + (i - 1)
    OBVIOUS
  <2> HIDE DEF k, M, L
  <2>3. /\ (R * M + (j - 1)) * L + (i - 1) \in Nat
        /\ (((R * M + (j - 1)) * L + (i - 1)) % L) + 1 = i
        /\ (((((R * M + (j - 1)) * L + (i - 1)) \div L) % M)) + 1 = j
    BY <1>5, <2>1, VisitPoint
  <2> QED
    BY <2>2, <2>3 DEF M, L
<1> HIDE DEF k
<1>7. PlanPoint(k) = [cf |-> cfList[i], sf |-> sfList[j]]
  BY <1>6 DEF PlanPoint, Carriers, Rates
<1> QED
  BY <1>4, <1>6, <1>7 DEF Point, i, j

\* What is injected during a visit goes out at its point.
LEMMA EmitKeepsPlan ==
    ASSUME AirInv, jpc = "inject", NEW frames, IsSeq(frames), Emit(frames),
           sent * Len(InjectedFrames(job)) + Len(frames) <= Each(job)
    PROVE  /\ IsSeq(air')
           /\ Len(air') =
                VisitNumber * Each(job) + sent * Len(InjectedFrames(job)) + Len(frames)
           /\ \A n \in DOMAIN air' : air'[n].at = PlanPoint((n - 1) \div Each(job))
<1> DEFINE e == Each(job)
           v == VisitNumber
           f == Len(frames)
           m == sent * Len(InjectedFrames(job))
<1>1. /\ JobOK(job) /\ sent \in Nat /\ InLoops /\ PlanInv /\ IsSeq(air)
      /\ tuned = Point /\ Visits = v
      /\ Len(air) = Visits * e + m
      /\ \A n \in DOMAIN air : air[n].at = PlanPoint((n - 1) \div e)
  BY DEF AirInv, PlanInv, WorkTyped, InJob, InLoops, InPlan, Visits
<1>2. e \in Positive /\ Len(InjectedFrames(job)) \in Positive
  BY <1>1, EachType
<1>3. v \in Nat /\ PlanPoint(v) = tuned
  BY <1>1, CurrentPoint
<1>4. m \in Nat
  BY <1>1, <1>2 DEF Positive
<1>5. /\ IsSeq(air')
      /\ Len(air) \in Nat /\ f \in Nat
      /\ Len(air') = Len(air) + f
      /\ \A n \in 1..Len(air) : air'[n] = air[n]
      /\ \A n \in Len(air) + 1..Len(air') : air'[n].at = tuned
  BY <1>1, EmitAtTuning
<1>6. DOMAIN air = 1..Len(air) /\ DOMAIN air' = 1..Len(air')
  BY <1>1, <1>5, SeqDomain
<1>7. Len(air) = v * e + m /\ m + f <= e
  BY <1>1
<1> HIDE DEF e, v, m, f
<1>8. ASSUME NEW n \in DOMAIN air'
      PROVE  air'[n].at = PlanPoint((n - 1) \div e)
  <2>1. CASE n \in 1..Len(air)
    BY <1>1, <1>5, <1>6, <2>1
  <2>2. CASE n \in Len(air) + 1..Len(air')
    <3>1. n \in v * e + m + 1..v * e + m + f
      <4>1. Len(air) + 1 = v * e + m + 1 /\ Len(air') = v * e + m + f
        BY <1>5, <1>7
      <4> QED
        BY <2>2, <4>1
    <3>2. (n - 1) \div e = v
      BY <1>2, <1>3, <1>4, <1>5, <1>7, <3>1, FrameOfVisit
    <3> QED
      BY <1>3, <1>5, <2>2, <3>2
  <2> QED
    BY <1>5, <1>6, <2>1, <2>2
<1> QED
  BY <1>5, <1>7, <1>8 DEF e, v, m, f

LEMMA AirInitially == Init => AirInv
<1>1. Init => PlanInv
  BY PlanInitially
<1>2. Init => IsSeq(air) /\ jpc = "idle"
  BY EmptyIsSeq DEF Init, WorkInit
<1> QED
  BY <1>1, <1>2 DEF AirInv, InPlan

LEMMA StartKeepsAir == AirInv /\ Start => AirInv'
<1> SUFFICES ASSUME AirInv, Start PROVE AirInv'
  OBVIOUS
<1>1. PICK p \in Jobs : StartJob(p) \/ FailToStart(p)
  BY DEF Start
<1>2. PlanInv' /\ job' = p
  BY <1>1, StartKeepsPlan DEF AirInv, StartJob, FailToStart
<1>3. CASE FailToStart(p)
  BY <1>2, <1>3 DEF FailToStart, AirInv, InPlan
<1>4. CASE StartJob(p)
  <2>1. /\ air' = <<>> /\ sent' = 0 /\ jpc' \in {"hop", "visit"}
        /\ at' = [round |-> 1, sf |-> 1, cf |-> 1]
        /\ prebuilt' = IF p.useBatchAPI THEN BatchFrames(p) ELSE <<>>
    BY <1>4 DEF StartJob
  <2>2. IsSeq(air') /\ Len(air') = 0 /\ DOMAIN air' = {}
    BY <2>1, EmptyIsSeq
  <2>3. JobOK(p)
    BY <1>1, JobsOK
  <2>4. Each(p) \in Nat /\ Len(InjectedFrames(p)) \in Nat
    BY <2>3, EachType DEF Positive
  <2>5. Rates' \in Nat /\ Carriers' \in Nat
    <3>1. cfList' \in Seq(Int) /\ sfList' \in Seq(Int)
      BY <1>2 DEF PlanInv, WorkTyped, InJob, InLoops
    <3> QED
      BY <3>1 DEF Rates, Carriers
  <2>6. jpc' # "returned" /\ Visits' = 0
    <3>1. jpc' # "returned"
      BY <2>1
    <3>2. Visits' = ((1 - 1) * Rates' + (1 - 1)) * Carriers' + (1 - 1)
      BY <2>1, <3>1 DEF Visits, VisitNumber
    <3>3. \A M, L \in Nat : ((1 - 1) * M + (1 - 1)) * L + (1 - 1) = 0
      OBVIOUS
    <3> QED
      BY <2>5, <3>1, <3>2, <3>3
  <2>7. Len(air') = Visits' * Each(p) + sent' * Len(InjectedFrames(p))
    BY <2>1, <2>2, <2>4, <2>6
  <2> QED
    BY <1>2, <2>1, <2>2, <2>7 DEF AirInv, InPlan
<1> QED
  BY <1>1, <1>3, <1>4

\* A step of the loops that injects nothing.
LEMMA QuietStepKeepsAir ==
    ASSUME AirInv, PlanInv', UNCHANGED <<job, sfList, cfList, prebuilt, air>>,
           InPlan' => InPlan /\ UNCHANGED <<at, sent>> /\ jpc # "returned" /\ jpc' # "returned",
           jpc' \in {"shiftCF", "inject"} => job.workingMode \in Injecting,
           jpc' = "shiftCF" => tuned'.sf = Point'.sf,
           jpc' = "inject" => tuned' = Point'
    PROVE  AirInv'
<1>1. InPlan' => Visits' = Visits
  BY DEF Visits, VisitNumber, Rates, Carriers
<1>2. InPlan' =>
        /\ job.useBatchAPI => prebuilt' = BatchFrames(job) /\ sent' = 0
        /\ Len(air') = Visits' * Each(job) + sent' * Len(InjectedFrames(job))
  BY <1>1 DEF AirInv
<1>3. InPlan' => (\A n \in DOMAIN air : air[n].at = PlanPoint((n - 1) \div Each(job)))'
  BY DEF AirInv, PlanPoint
<1> QED
  BY <1>2, <1>3 DEF AirInv

\* An injection, after which the loops go on.
LEMMA InjectionKeepsAir ==
    ASSUME AirInv, PlanInv', jpc = "inject", NEW frames, IsSeq(frames), Emit(frames),
           UNCHANGED <<job, sfList, cfList, prebuilt, tuned>>,
           \/ /\ UNCHANGED <<at, jpc>> /\ sent' = sent + 1 /\ ~job.useBatchAPI
              /\ sent + 1 < job.cf_repeat
              /\ Len(frames) = Len(InjectedFrames(job))
           \/ /\ LeaveScanPoint /\ sent' = 0
              /\ sent * Len(InjectedFrames(job)) + Len(frames) = Each(job)
    PROVE  AirInv'
<1> DEFINE e == Each(job)
           v == VisitNumber
           f == Len(InjectedFrames(job))
<1>1. /\ JobOK(job) /\ sent \in Nat /\ PlanInv /\ InLoops /\ InPlan
      /\ job.useBatchAPI => prebuilt = BatchFrames(job)
      /\ tuned = Point /\ job.workingMode \in Injecting
  BY DEF AirInv, PlanInv, WorkTyped, InJob, InLoops, InPlan
<1>2. e \in Nat \ {0} /\ f \in Nat \ {0}
  BY <1>1, EachType DEF Positive
<1>3. v \in Nat
  BY <1>1, CurrentPoint
<1>4. sent * f + Len(frames) <= e
  <2>1. CASE ~job.useBatchAPI /\ sent + 1 < job.cf_repeat /\ Len(frames) = f
    <3>1. e = job.cf_repeat * f /\ job.cf_repeat \in Int
      BY <1>1, <2>1 DEF Each, JobOK, Positive
    <3>2. (sent + 1) * f <= job.cf_repeat * f /\ (sent + 1) * f = sent * f + f
      BY <1>1, <1>2, <2>1, <3>1, Multiples
    <3> QED
      BY <2>1, <3>1, <3>2
  <2>2. CASE sent * f + Len(frames) = e
    BY <1>2, <2>2
  <2> QED
    BY <2>1, <2>2
<1>5. /\ IsSeq(air')
      /\ Len(air') = v * e + sent * f + Len(frames)
      /\ \A n \in DOMAIN air' : air'[n].at = PlanPoint((n - 1) \div e)
  BY <1>4, EmitKeepsPlan
<1>6. Len(air') = Visits' * e + sent' * f
  <2>1. CASE UNCHANGED <<at, jpc>> /\ sent' = sent + 1 /\ Len(frames) = f
    <3>1. Visits' = v
      BY <2>1 DEF Visits, VisitNumber, Rates, Carriers
    <3>2. (sent + 1) * f = sent * f + f
      BY <1>1, <1>2
    <3>3. v * e \in Nat /\ sent * f \in Nat
      BY <1>1, <1>2, <1>3
    <3> HIDE DEF v, e, f
    <3> QED
      BY <1>1, <1>2, <1>5, <2>1, <3>1, <3>2, <3>3
  <2>2. CASE LeaveScanPoint /\ sent' = 0 /\ sent * f + Len(frames) = e
    <3>1. Visits' = v + 1
      BY <1>1, <2>2, LeaveIsNextVisit
    <3>2. (v + 1) * e = v * e + e /\ 0 * f = 0 /\ v * e \in Nat
      BY <1>2, <1>3
    <3>3. Len(frames) \in Nat /\ sent * f \in Nat
      BY <1>1, <1>2, SeqDomain
    <3> HIDE DEF v, e, f
    <3> QED
      BY <1>2, <1>5, <2>2, <3>1, <3>2, <3>3
  <2> QED
    BY <2>1, <2>2
<1>7. jpc' \in {"inject", "visit", "returned"}
      /\ (jpc' = "inject" => Point' = Point /\ ~job.useBatchAPI)
  <2>1. CASE UNCHANGED <<at, jpc>> /\ ~job.useBatchAPI
    BY <2>1 DEF Point
  <2>2. CASE LeaveScanPoint
    BY <1>1, <2>2, LeaveType DEF PlanInv
  <2> QED
    BY <2>1, <2>2
<1>8. (\A n \in DOMAIN air : air[n].at = PlanPoint((n - 1) \div Each(job)))'
  BY <1>5 DEF PlanPoint
<1>9. job'.useBatchAPI => prebuilt' = BatchFrames(job') /\ sent' = 0
  BY <1>1
<1> QED
  BY <1>1, <1>5, <1>6, <1>7, <1>8, <1>9 DEF AirInv

LEMMA StepKeepsAir == AirInv /\ Step => AirInv'
<1> SUFFICES ASSUME AirInv, Step PROVE AirInv'
  OBVIOUS
<1>1. PlanInv' /\ PlanInv
  BY StepKeepsPlan DEF AirInv
<1>2. JobOK(job) /\ tuned \in Tuning
  BY <1>1 DEF PlanInv, WorkTyped, InJob, InLoops
<1>3. CASE ShiftRate
  <2>1. /\ jpc = "visit" /\ jpc' = "shiftCF" /\ job.workingMode \in Injecting
        /\ tuned' = [tuned EXCEPT !.sf = Point.sf]
        /\ UNCHANGED <<job, sfList, cfList, at, sent, prebuilt, air>>
    BY <1>3 DEF ShiftRate
  <2>2. tuned'.sf = Point'.sf /\ InPlan
    BY <1>2, <2>1 DEF Point, Tuning, InPlan
  <2> QED
    BY <1>1, <2>1, <2>2, QuietStepKeepsAir
<1>4. CASE ShiftCarrier
  <2>1. /\ jpc = "shiftCF" /\ jpc' = "inject" /\ job.workingMode \in Injecting
        /\ tuned' = [tuned EXCEPT !.cf = Point.cf] /\ tuned.sf = Point.sf
        /\ UNCHANGED <<job, sfList, cfList, at, sent, prebuilt, air>>
    BY <1>4 DEF ShiftCarrier, AirInv
  <2>2. tuned' = Point' /\ InPlan
    BY <1>2, <2>1 DEF Point, Tuning, InPlan
  <2> QED
    BY <1>1, <2>1, <2>2, QuietStepKeepsAir
<1>5. CASE InjectFrame
  <2> DEFINE frames == InjectedFrames(job)
  <2>1. /\ jpc = "inject" /\ ~job.useBatchAPI /\ Emit(frames)
        /\ UNCHANGED <<job, sfList, cfList, prebuilt, tuned>>
        /\ IF sent + 1 < job.cf_repeat THEN sent' = sent + 1 /\ UNCHANGED <<at, jpc>>
                                       ELSE LeaveScanPoint
    BY <1>5 DEF InjectFrame
  <2>2. IsSeq(frames) /\ Len(frames) \in Nat
    BY InjectionIsSeq
  <2>3. CASE sent + 1 < job.cf_repeat
    BY <1>1, <2>1, <2>2, <2>3, InjectionKeepsAir
  <2>4. CASE ~(sent + 1 < job.cf_repeat)
    <3>1. LeaveScanPoint /\ sent' = 0
      BY <2>1, <2>4 DEF LeaveScanPoint
    <3>2. sent + 1 = job.cf_repeat /\ sent \in Nat
      <4>1. sent \in 0..job.cf_repeat - 1
        BY <1>1, <2>1 DEF PlanInv, WorkTyped, InJob, InLoops
      <4>2. job.cf_repeat \in Nat
        BY <1>2 DEF JobOK, Positive
      <4> QED
        BY <2>4, <4>1, <4>2
    <3>3. sent * Len(frames) + Len(frames) = Each(job)
      <4>1. Each(job) = (sent + 1) * Len(frames)
        BY <2>1, <3>2 DEF Each
      <4> HIDE DEF frames
      <4> QED
        BY <2>2, <3>2, <4>1
    <3> QED
      BY <1>1, <2>1, <2>2, <3>1, <3>3, InjectionKeepsAir
  <2> QED
    BY <2>3, <2>4
<1>6. CASE InjectBatch
  <2> DEFINE frames == Times(BatchRepeats, prebuilt)
  <2>1. /\ jpc = "inject" /\ job.useBatchAPI /\ Emit(frames) /\ LeaveScanPoint
        /\ sent' = 0 /\ sent = 0 /\ prebuilt = BatchFrames(job)
        /\ UNCHANGED <<job, sfList, cfList, prebuilt, tuned>>
    BY <1>6 DEF InjectBatch, LeaveScanPoint, AirInv, InPlan
  <2>2. /\ IsSeq(prebuilt) /\ Len(prebuilt) \in Nat \ {0}
        /\ BatchRepeats = Repeats(job) /\ Repeats(job) \in Nat
        /\ Len(InjectedFrames(job)) \in Nat
        /\ Repeats(job) * Len(BatchFrames(job)) \in Nat
    BY <1>2, <2>1, EachType DEF Positive, BatchRepeats, Repeats
  <2>3. IsSeq(frames) /\ Len(frames) = BatchRepeats * Len(prebuilt)
    BY <2>2, TimesIsSeq
  <2>4. sent * Len(InjectedFrames(job)) + Len(frames) = Each(job)
    <3>1. Each(job) = Repeats(job) * Len(BatchFrames(job))
      BY <2>1 DEF Each
    <3>2. Len(frames) = Each(job)
      BY <2>1, <2>2, <2>3, <3>1
    <3> HIDE DEF frames
    <3> QED
      BY <2>1, <2>2, <3>1, <3>2
  <2> HIDE DEF frames
  <2> QED
    BY <1>1, <2>1, <2>3, <2>4, InjectionKeepsAir
<1>7. CASE PassPoint \/ MeasurePoint
  <2>1. /\ jpc = "visit" /\ job.workingMode \notin Injecting
        /\ UNCHANGED <<job, sfList, cfList, prebuilt, air>>
        /\ \/ LeaveScanPoint
           \/ NextRound
    BY <1>7 DEF PassPoint, MeasurePoint, Injecting
  <2>2. jpc' \in {"visit", "returned"}
    BY <1>1, <2>1, LeaveType, NextRoundType DEF InLoops, PlanInv
  <2>3. ~InPlan'
    BY <2>1 DEF InPlan
  <2> QED
    BY <1>1, <2>1, <2>2, <2>3, QuietStepKeepsAir
<1>8. CASE HopChannel
  <2>1. jpc' = "hop" /\ UNCHANGED <<job, sfList, cfList, prebuilt, air>>
    BY <1>8 DEF HopChannel
  <2> QED
    BY <1>1, <2>1, QuietStepKeepsAir DEF InPlan
<1> QED
  BY <1>3, <1>4, <1>5, <1>6, <1>7, <1>8 DEF Step, WorkStep

LEMMA AirStep == AirInv /\ [Next]_vars => AirInv'
<1>1. AirInv /\ UNCHANGED vars => AirInv'
  <2> SUFFICES ASSUME AirInv, UNCHANGED vars PROVE AirInv'
    OBVIOUS
  <2>1. PlanInv'
    BY PlanStep DEF AirInv
  <2>2. UNCHANGED workVars
    BY DEF vars
  <2> QED
    BY <2>1, <2>2 DEF workVars, AirInv, InPlan, PlanPoint, Visits, VisitNumber, Rates,
                      Carriers, Point
<1> QED
  BY <1>1, StartKeepsAir, StepKeepsAir DEF Next

LEMMA AirAlways == Spec => []AirInv
BY AirInitially, AirStep, PTL DEF Spec

(***************************************************************************)
(* Every injection of any job, frame by frame or in batches, puts the same *)
(* number of frames on the air at every visit, in the order of the plan.   *)
(***************************************************************************)
THEOREM InjectionFollowsPlan == Spec => []InjectsThePlan
<1>1. AirInv => InjectsThePlan
  <2> SUFFICES ASSUME AirInv, InjectionDone PROVE InjectsThePlan
    BY DEF InjectsThePlan
  <2> DEFINE visits == job.round_repeat * Len(sfList) * Len(cfList)
             e      == Each(job)
  <2>1. PlanInv /\ InPlan /\ JobOK(job) /\ jpc = "returned"
    BY DEF AirInv, PlanInv, WorkTyped, InJob, InPlan, InjectionDone, InLoops
  <2>2. /\ Len(cfList) \in Positive /\ Len(sfList) \in Positive
        /\ job.round_repeat \in Positive /\ e \in Positive
        /\ Len(InjectedFrames(job)) \in Positive
    BY <2>1, ListsType, EachType DEF JobOK
  <2>3. visits \in Nat \ {0} /\ e \in Nat \ {0}
    <3>1. \A a, b, c \in Nat \ {0} : a * b * c \in Nat \ {0}
      OBVIOUS
    <3> QED
      BY <2>2, <3>1 DEF Positive
  <2>4. /\ Len(air) = visits * e + sent * Len(InjectedFrames(job))
        /\ sent = 0
        /\ \A n \in DOMAIN air : air[n].at = PlanPoint((n - 1) \div e)
    BY <2>1 DEF AirInv, PlanInv, WorkTyped, Visits, Rates, Carriers
  <2> HIDE DEF visits, e
  <2>5. Len(air) = visits * e
    BY <2>2, <2>3, <2>4 DEF Positive
  <2>6. Len(air) \div visits = e
    <3>1. (e * visits + 0) \div visits = e /\ e * visits + 0 = visits * e
      BY <2>3, QuotientIs
    <3> QED
      BY <2>5, <3>1
  <2> QED
    BY <2>4, <2>5, <2>6 DEF InjectsThePlan, visits
<1> QED
  BY <1>1, AirAlways, PTL

-----------------------------------------------------------------------------
(* As many injections as asked                                             *)

\* The places of frames of other kinds than X, in a sequence and at a tuning.
PlacesIn(frames, X) == {k \in 1..Len(frames) : frames[k] \notin X}

PlacesAt(sequence, t, X) ==
    {n \in 1..Len(sequence) : sequence[n].at = t /\ sequence[n].kind \notin X}

CountIn(frames, X) == Cardinality(PlacesIn(frames, X))

CountAt(t, X) == Cardinality(PlacesAt(air, t, X))

LEMMA ShiftedSet ==
    ASSUME NEW S \in SUBSET Int, IsFiniteSet(S), NEW d \in Int
    PROVE  IsFiniteSet({k + d : k \in S}) /\ Cardinality({k + d : k \in S}) = Cardinality(S)
<1> DEFINE T == {k + d : k \in S}
           f == [k \in S |-> k + d]
<1>1. f \in [S -> T]
  OBVIOUS
<1>2. \A a, b \in S : f[a] = f[b] => a = b
  OBVIOUS
<1>3. \A t \in T : \E k \in S : f[k] = t
  OBVIOUS
<1> HIDE DEF f, T
<1>4. f \in Bijection(S, T)
  <2>1. DOMAIN f = S
    BY <1>1
  <2>2. f \in Injection(S, T)
    BY <1>1, <1>2, <2>1 DEF Injection, IsInjective
  <2>3. f \in Surjection(S, T)
    BY <1>1, <1>3 DEF Surjection
  <2> QED
    BY <2>2, <2>3 DEF Bijection
<1>5. ExistsBijection(S, T)
  BY <1>4 DEF ExistsBijection
<1>6. IsFiniteSet(T) /\ Cardinality(T) = Cardinality(S)
  BY <1>5, FS_Bijection
<1> QED
  BY <1>6 DEF T

LEMMA PlacesInFinite ==
    ASSUME NEW frames, IsSeq(frames), NEW X
    PROVE  IsFiniteSet(PlacesIn(frames, X)) /\ CountIn(frames, X) \in Nat
<1>1. Len(frames) \in Nat
  BY SeqDomain
<1>2. IsFiniteSet(1..Len(frames))
  BY <1>1, FS_Interval
<1>3. PlacesIn(frames, X) \in SUBSET (1..Len(frames))
  BY DEF PlacesIn
<1>4. IsFiniteSet(PlacesIn(frames, X))
  BY <1>2, <1>3, FS_Subset
<1> QED
  BY <1>4, FS_CardinalityType DEF CountIn

\* Frames that go out at one tuning are counted there and nowhere else.
GoesOutAt(frames, u, a, b) ==
    /\ Len(b) = Len(a) + Len(frames)
    /\ \A n \in 1..Len(a) : b[n] = a[n]
    /\ \A n \in Len(a) + 1..Len(b) : b[n].at = u /\ b[n].kind = frames[n - Len(a)]

LEMMA PlacesAtGrow ==
    ASSUME NEW a, IsSeq(a), NEW b, IsSeq(b), NEW frames, IsSeq(frames), NEW u,
           GoesOutAt(frames, u, a, b), NEW t, NEW X
    PROVE  /\ Cardinality(PlacesAt(b, t, X)) \in Nat
           /\ Cardinality(PlacesAt(b, t, X)) =
                Cardinality(PlacesAt(a, t, X)) +
                (IF t = u THEN Cardinality(PlacesIn(frames, X)) ELSE 0)
<1>0. /\ Len(b) = Len(a) + Len(frames)
      /\ \A n \in 1..Len(a) : b[n] = a[n]
      /\ \A n \in Len(a) + 1..Len(b) : b[n].at = u /\ b[n].kind = frames[n - Len(a)]
  BY DEF GoesOutAt
<1> DEFINE more == {n \in Len(a) + 1..Len(b) : b[n].at = t /\ b[n].kind \notin X}
<1>1. Len(a) \in Nat /\ Len(b) \in Nat /\ Len(frames) \in Nat
  BY SeqDomain
<1>2. /\ IsFiniteSet(PlacesAt(a, t, X)) /\ IsFiniteSet(PlacesAt(b, t, X)) /\ IsFiniteSet(more)
  <2>1. IsFiniteSet(1..Len(a)) /\ IsFiniteSet(1..Len(b)) /\ IsFiniteSet(Len(a) + 1..Len(b))
    BY <1>1, FS_Interval
  <2>2. /\ PlacesAt(a, t, X) \in SUBSET (1..Len(a)) /\ PlacesAt(b, t, X) \in SUBSET (1..Len(b))
        /\ more \in SUBSET (Len(a) + 1..Len(b))
    BY DEF PlacesAt
  <2> QED
    BY <2>1, <2>2, FS_Subset
<1>3. PlacesAt(b, t, X) = PlacesAt(a, t, X) \cup more
  <2>1. 1..Len(b) = (1..Len(a)) \cup (Len(a) + 1..Len(b))
    BY <1>0, <1>1
  <2> QED
    BY <1>0, <2>1 DEF PlacesAt
<1>4. PlacesAt(a, t, X) \cap more = {}
  BY <1>1 DEF PlacesAt
<1>5. Cardinality(more) = IF t = u THEN Cardinality(PlacesIn(frames, X)) ELSE 0
  <2>1. CASE t = u
    <3>1. more = {k + Len(a) : k \in PlacesIn(frames, X)}
      <4>1. ASSUME NEW n \in more PROVE n - Len(a) \in PlacesIn(frames, X) /\ (n - Len(a)) + Len(a) = n
        BY <1>0, <1>1, <2>1 DEF PlacesIn
      <4>2. ASSUME NEW k \in PlacesIn(frames, X) PROVE k + Len(a) \in more
        <5>1. k \in 1..Len(frames) /\ frames[k] \notin X
          BY DEF PlacesIn
        <5>2. k + Len(a) \in Len(a) + 1..Len(b) /\ (k + Len(a)) - Len(a) = k
          BY <1>0, <1>1, <5>1
        <5> QED
          BY <1>0, <1>1, <2>1, <5>1, <5>2
      <4> HIDE DEF more
      <4> QED
        BY <4>1, <4>2
    <3>2. PlacesIn(frames, X) \in SUBSET Int /\ IsFiniteSet(PlacesIn(frames, X))
      <4>1. IsFiniteSet(PlacesIn(frames, X))
        BY PlacesInFinite
      <4>2. PlacesIn(frames, X) \in SUBSET Int
        BY DEF PlacesIn
      <4> QED
        BY <4>1, <4>2
    <3>3. Cardinality({k + Len(a) : k \in PlacesIn(frames, X)}) = Cardinality(PlacesIn(frames, X))
      <4> DEFINE S == PlacesIn(frames, X)
                 d == Len(a)
      <4>1. S \in SUBSET Int /\ IsFiniteSet(S) /\ d \in Int
        BY <1>1, <3>2
      <4> HIDE DEF S, d
      <4>2. Cardinality({k + d : k \in S}) = Cardinality(S)
        BY <4>1, ShiftedSet
      <4> QED
        BY <4>2 DEF S, d
    <3> HIDE DEF more
    <3> QED
      BY <2>1, <3>1, <3>3
  <2>2. CASE t # u
    <3>1. more = {}
      BY <1>0, <2>2
    <3> QED
      BY <2>2, <3>1, FS_EmptySet
  <2> QED
    BY <2>1, <2>2
<1> HIDE DEF more
<1>6. /\ Cardinality(PlacesAt(a, t, X)) \in Nat /\ Cardinality(PlacesAt(b, t, X)) \in Nat
      /\ Cardinality(more) \in Nat
  BY <1>2, FS_CardinalityType
<1>7. Cardinality(PlacesAt(a, t, X) \cup more) =
        Cardinality(PlacesAt(a, t, X)) + Cardinality(more) - Cardinality(PlacesAt(a, t, X) \cap more)
  BY <1>2, FS_Union
<1>8. Cardinality(PlacesAt(a, t, X) \cap more) = 0
  BY <1>4, FS_EmptySet
<1>9. Cardinality(PlacesAt(b, t, X)) = Cardinality(PlacesAt(a, t, X)) + Cardinality(more)
  BY <1>3, <1>6, <1>7, <1>8
<1> QED
  BY <1>5, <1>6, <1>9

\* One injection is one frame of data, with its announcement or without.
LEMMA OneOfData ==
    ASSUME NEW p
    PROVE  CountIn(InjectedFrames(p), {"NDPA"}) = 1
<1> DEFINE X == {"NDPA"}
<1>1. DataFrame(p) \notin X /\ "NDPA" \in X
  BY DEF DataFrame
<1> HIDE DEF X
<1>2. \E k \in Nat : PlacesIn(InjectedFrames(p), X) = {k}
  <2>1. CASE p.napa
    <3>1. InjectedFrames(p) = <<"NDPA", DataFrame(p)>>
      BY <2>1 DEF InjectedFrames
    <3>2. PlacesIn(InjectedFrames(p), X) = {2}
      BY <1>1, <3>1 DEF PlacesIn
    <3> QED
      BY <3>2
  <2>2. CASE ~p.napa
    <3>1. InjectedFrames(p) = <<DataFrame(p)>>
      BY <2>2 DEF InjectedFrames
    <3>2. PlacesIn(InjectedFrames(p), X) = {1}
      BY <1>1, <3>1 DEF PlacesIn
    <3> QED
      BY <3>2
  <2> QED
    BY <2>1, <2>2
<1>3. \A k \in Nat : Cardinality({k}) = 1
  BY FS_Singleton
<1> QED
  BY <1>2, <1>3 DEF CountIn, X

\* If none of the frames is of the kinds X, all of them are counted.
LEMMA AllCounted ==
    ASSUME NEW r, IsSeq(r), NEW X, \A k \in 1..Len(r) : r[k] \notin X
    PROVE  CountIn(r, X) = Len(r)
<1>1. Len(r) \in Nat
  BY SeqDomain
<1>2. PlacesIn(r, X) = 1..Len(r)
  BY DEF PlacesIn
<1>3. Cardinality(1..Len(r)) = Len(r)
  <2> DEFINE n == Len(r)
  <2>1. n \in Nat
    BY <1>1
  <2> HIDE DEF n
  <2>2. Cardinality(1..n) = n
    BY <2>1, FS_Interval
  <2> QED
    BY <2>2 DEF n
<1> QED
  BY <1>2, <1>3 DEF CountIn

LEMMA AllOfBatch ==
    ASSUME NEW p, JobOK(p), NEW X,
           \A k \in 1..Len(BatchFrames(p)) : BatchFrames(p)[k] \notin X
    PROVE  CountIn(Times(Repeats(p), BatchFrames(p)), X) = Repeats(p) * Len(BatchFrames(p))
<1> DEFINE s == BatchFrames(p)
           r == Times(Repeats(p), s)
<1>1. /\ IsSeq(s) /\ Len(s) \in Nat \ {0} /\ Repeats(p) \in Nat
      /\ \A k \in 1..Len(s) : s[k] \notin X
  BY EachType DEF Positive
<1> HIDE DEF s
<1>2. /\ IsSeq(r) /\ Len(r) = Repeats(p) * Len(s)
      /\ \A k \in 1..Len(r) : \E i \in 1..Len(s) : r[k] = s[i]
  <2> DEFINE m == Repeats(p)
  <2>1. m \in Nat /\ r = Times(m, s)
    BY <1>1 DEF r
  <2> HIDE DEF m
  <2>2. /\ IsSeq(Times(m, s)) /\ Len(Times(m, s)) = m * Len(s)
        /\ \A k \in 1..Len(Times(m, s)) : \E i \in 1..Len(s) : Times(m, s)[k] = s[i]
    BY <1>1, <2>1, TimesIsSeq
  <2>3. /\ IsSeq(r) /\ Len(r) = m * Len(s)
        /\ \A k \in 1..Len(r) : \E i \in 1..Len(s) : r[k] = s[i]
    <3> HIDE DEF r
    <3> QED
      BY <2>1, <2>2
  <2> QED
    BY <2>3 DEF m
<1> HIDE DEF r
<1>3. CountIn(r, X) = Len(r)
  BY <1>1, <1>2, AllCounted
<1> QED
  BY <1>2, <1>3 DEF r, s

\* The frames of one visit that are not of the kinds X.
CountEach(p, X) ==
    IF p.useBatchAPI THEN CountIn(Times(Repeats(p), BatchFrames(p)), X)
    ELSE p.cf_repeat * CountIn(InjectedFrames(p), X)

\* The visits of a point that are over, and the injections of the one that is not.
Finished(j, i) ==
    IF jpc = "returned" THEN job.round_repeat
    ELSE (at.round - 1) + (IF j < at.sf \/ (j = at.sf /\ i < at.cf) THEN 1 ELSE 0)

Begun(j, i) == IF jpc # "returned" /\ j = at.sf /\ i = at.cf THEN sent ELSE 0

(***************************************************************************)
(* What has been counted at a point comes from the visits of this point:   *)
(* the points of a plan are different, so no other visit adds to it.       *)
(***************************************************************************)
CountInv(X) ==
    /\ AirInv
    /\ InPlan =>
        \A j \in DOMAIN sfList, i \in DOMAIN cfList, t \in Tuning :
            t = [cf |-> cfList[i], sf |-> sfList[j]] =>
                CountAt(t, X) = CountEach(job, X) * Finished(j, i)
                                + Begun(j, i) * CountIn(InjectedFrames(job), X)

LEMMA CountEachType ==
    ASSUME NEW p, JobOK(p), NEW X
    PROVE  CountEach(p, X) \in Nat /\ CountIn(InjectedFrames(p), X) \in Nat
<1>1. IsSeq(InjectedFrames(p)) /\ p.cf_repeat \in Nat
  BY InjectionIsSeq DEF JobOK, Positive
<1>2. CountIn(InjectedFrames(p), X) \in Nat
  BY <1>1, PlacesInFinite
<1>3. IsSeq(Times(Repeats(p), BatchFrames(p)))
  <2> DEFINE s == BatchFrames(p)
  <2>1. IsSeq(s) /\ Len(s) \in Nat \ {0} /\ Repeats(p) \in Nat
    BY EachType DEF Positive
  <2> HIDE DEF s
  <2>2. IsSeq(Times(Repeats(p), s))
    BY <2>1, TimesIsSeq
  <2> QED
    BY <2>2 DEF s
<1>4. CountIn(Times(Repeats(p), BatchFrames(p)), X) \in Nat
  BY <1>3, PlacesInFinite
<1> QED
  BY <1>1, <1>2, <1>4 DEF CountEach

LEMMA ScanDistinct ==
    ASSUME NEW list \in Seq(Int), NEW r, IsScanOf(list, r),
           NEW i \in DOMAIN list, NEW k \in DOMAIN list, list[i] = list[k]
    PROVE  i = k
<1>1. i \in Int /\ k \in Int /\ list[i] \in Int
  OBVIOUS
<1>2. /\ i < k <=> (IF r.step > 0 THEN list[i] < list[k] ELSE list[i] > list[k])
      /\ k < i <=> (IF r.step > 0 THEN list[k] < list[i] ELSE list[k] > list[i])
  BY DEF IsScanOf
<1>3. ~(i < k) /\ ~(k < i)
  BY <1>1, <1>2
<1> QED
  BY <1>1, <1>3

LEMMA PointsDistinct ==
    ASSUME PlanInv, InLoops,
           NEW j \in DOMAIN sfList, NEW i \in DOMAIN cfList,
           [cf |-> cfList[i], sf |-> sfList[j]] = Point
    PROVE  j = at.sf /\ i = at.cf
<1>1. at.sf \in DOMAIN sfList /\ at.cf \in DOMAIN cfList
  BY DEF PlanInv, WorkTyped, InJob, InLoops, Positions
<1>2. cfList[i] = cfList[at.cf] /\ sfList[j] = sfList[at.sf]
  BY DEF Point
<1>3. ScanIsRange /\ jpc \notin {"idle", "threw"}
  BY PlanGivesRange DEF InLoops
<1>4. cfList \in Seq(Int) /\ sfList \in Seq(Int)
  BY DEF PlanInv, WorkTyped, InJob, InLoops
<1>5. i = at.cf
  BY <1>1, <1>2, <1>3, <1>4, ScanDistinct DEF ScanIsRange
<1>6. CASE ArbitraryRates
  BY <1>1, <1>2, <1>3, <1>4, <1>5, <1>6, ScanDistinct DEF ScanIsRange
<1>7. CASE ~ArbitraryRates
  <2>1. sfList = <<origin.sf>>
    BY <1>3, <1>7 DEF ScanIsRange
  <2> QED
    BY <1>1, <1>5, <2>1
<1> QED
  BY <1>6, <1>7

LEMMA EmitIsCounted ==
    ASSUME IsSeq(air), NEW frames, IsSeq(frames), Emit(frames), NEW t, NEW X
    PROVE  /\ CountAt(t, X) \in Nat
           /\ CountAt(t, X)' = CountAt(t, X) +
                                 (IF t = tuned THEN CountIn(frames, X) ELSE 0)
<1>1. /\ IsSeq(air') /\ Len(air) \in Nat
      /\ Len(air') = Len(air) + Len(frames)
      /\ \A n \in 1..Len(air) : air'[n] = air[n]
      /\ \A n \in Len(air) + 1..Len(air') :
            air'[n].at = tuned /\ air'[n].kind = frames[n - Len(air)]
  BY EmitAtTuning
<1>2. DOMAIN air = 1..Len(air) /\ DOMAIN air' = 1..Len(air')
  BY <1>1, SeqDomain
<1>3. /\ CountAt(t, X) = Cardinality(PlacesAt(air, t, X))
      /\ CountAt(t, X)' = Cardinality(PlacesAt(air', t, X))
  BY <1>2 DEF CountAt
<1>4. Cardinality(PlacesAt(air', t, X)) =
        Cardinality(PlacesAt(air, t, X)) + (IF t = tuned THEN CountIn(frames, X) ELSE 0)
  <2>1. IsSeq(air') /\ GoesOutAt(frames, tuned, air, air')
    BY <1>1 DEF GoesOutAt
  <2>2. Cardinality(PlacesAt(air', t, X)) =
          Cardinality(PlacesAt(air, t, X)) +
          (IF t = tuned THEN Cardinality(PlacesIn(frames, X)) ELSE 0)
    BY <2>1, PlacesAtGrow
  <2> QED
    BY <2>2 DEF CountIn
<1>5. Cardinality(PlacesAt(air, t, X)) \in Nat
  <2>1. IsFiniteSet(1..Len(air)) /\ PlacesAt(air, t, X) \in SUBSET (1..Len(air))
    BY <1>1, FS_Interval DEF PlacesAt
  <2> QED
    BY <2>1, FS_Subset, FS_CardinalityType
<1> QED
  BY <1>3, <1>4, <1>5

\* The visit that is over is one more of its point.
LEMMA LeaveFinishes ==
    ASSUME PlanInv, InLoops, LeaveScanPoint, UNCHANGED <<job, sfList, cfList>>,
           NEW j \in DOMAIN sfList, NEW i \in DOMAIN cfList
    PROVE  Finished(j, i)' = Finished(j, i) + (IF j = at.sf /\ i = at.cf THEN 1 ELSE 0)
<1>1. at \in Positions /\ JobOK(job)
  BY DEF PlanInv, WorkTyped, InJob, InLoops, Positions
<1>2. /\ DOMAIN cfList = 1..Carriers /\ DOMAIN sfList = 1..Rates
      /\ Carriers \in Nat /\ Rates \in Nat
  BY ListsType DEF InLoops, Carriers, Rates, Positive
<1>3. at = [round |-> at.round, sf |-> at.sf, cf |-> at.cf]
      /\ at.round \in 1..job.round_repeat /\ at.sf \in 1..Rates /\ at.cf \in 1..Carriers
  BY <1>1, <1>2 DEF Positions
<1>4. job.round_repeat \in Nat /\ jpc # "returned"
  BY <1>1 DEF JobOK, Positive, InLoops
<1>5. i \in 1..Carriers /\ j \in 1..Rates
  BY <1>2
<1>6. Finished(j, i) =
        (at.round - 1) + (IF j < at.sf \/ (j = at.sf /\ i < at.cf) THEN 1 ELSE 0)
  BY <1>4 DEF Finished
<1>7. CASE at.cf < Carriers
  <2>1. at' = [round |-> at.round, sf |-> at.sf, cf |-> at.cf + 1] /\ jpc' = "visit"
    BY <1>3, <1>7 DEF LeaveScanPoint, Carriers
  <2>2. Finished(j, i)' =
          (at.round - 1) + (IF j < at.sf \/ (j = at.sf /\ i < at.cf + 1) THEN 1 ELSE 0)
    BY <2>1 DEF Finished
  <2> QED
    BY <1>2, <1>3, <1>5, <1>6, <2>2
<1>8. CASE ~(at.cf < Carriers) /\ at.sf < Rates
  <2>1. at' = [round |-> at.round, sf |-> at.sf + 1, cf |-> 1] /\ jpc' = "visit"
    BY <1>3, <1>8 DEF LeaveScanPoint, Carriers, Rates
  <2>2. Finished(j, i)' =
          (at.round - 1) + (IF j < at.sf + 1 \/ (j = at.sf + 1 /\ i < 1) THEN 1 ELSE 0)
    BY <2>1 DEF Finished
  <2>3. at.cf = Carriers
    BY <1>2, <1>3, <1>8
  <2> QED
    BY <1>2, <1>3, <1>5, <1>6, <2>2, <2>3
<1>9. CASE ~(at.cf < Carriers) /\ ~(at.sf < Rates)
  <2>1. at.cf = Carriers /\ at.sf = Rates
    BY <1>2, <1>3, <1>9
  <2>2. NextRound
    BY <1>9 DEF LeaveScanPoint, Carriers, Rates
  <2>3. Finished(j, i)' = at.round
    <3>1. CASE at.round < job.round_repeat
      <4>1. at' = [round |-> at.round + 1, sf |-> 1, cf |-> 1] /\ jpc' = "visit"
        BY <2>2, <3>1 DEF NextRound
      <4>2. Finished(j, i)' =
              ((at.round + 1) - 1) + (IF j < 1 \/ (j = 1 /\ i < 1) THEN 1 ELSE 0)
        BY <4>1 DEF Finished
      <4> QED
        BY <1>3, <1>4, <1>5, <4>2
    <3>2. CASE ~(at.round < job.round_repeat)
      <4>1. jpc' = "returned" /\ at.round = job.round_repeat
        BY <1>3, <1>4, <2>2, <3>2 DEF NextRound
      <4> QED
        BY <4>1 DEF Finished
    <3> QED
      BY <3>1, <3>2
  <2>4. Finished(j, i) + (IF j = at.sf /\ i = at.cf THEN 1 ELSE 0) = at.round
    BY <1>2, <1>3, <1>5, <1>6, <2>1
  <2> QED
    BY <2>3, <2>4
<1> QED
  BY <1>7, <1>8, <1>9

LEMMA CountInitially == ASSUME NEW X PROVE Init => CountInv(X)
<1>1. Init => jpc = "idle"
  BY DEF Init, WorkInit
<1> QED
  BY <1>1, AirInitially DEF CountInv, InPlan

LEMMA StartKeepsCount == ASSUME NEW X PROVE CountInv(X) /\ Start => CountInv(X)'
<1> SUFFICES ASSUME CountInv(X), Start, InPlan'
             PROVE  (\A j \in DOMAIN sfList, i \in DOMAIN cfList, t \in Tuning :
                        t = [cf |-> cfList[i], sf |-> sfList[j]] =>
                            CountAt(t, X) = CountEach(job, X) * Finished(j, i)
                                            + Begun(j, i) * CountIn(InjectedFrames(job), X))'
  BY StartKeepsAir DEF CountInv
<1>1. PICK p \in Jobs : StartJob(p) \/ FailToStart(p)
  BY DEF Start
<1>2. StartJob(p)
  BY <1>1 DEF FailToStart, InPlan
<1>3. /\ air' = <<>> /\ sent' = 0 /\ jpc' # "returned" /\ job' = p
      /\ at' = [round |-> 1, sf |-> 1, cf |-> 1]
  BY <1>2 DEF StartJob
<1>4. CountEach(p, X) \in Nat /\ CountIn(InjectedFrames(p), X) \in Nat
  BY <1>1, JobsOK, CountEachType
<1>5. cfList' \in Seq(Int) /\ sfList' \in Seq(Int)
  BY StartKeepsPlan DEF CountInv, AirInv, PlanInv, WorkTyped, InJob, InLoops
<1>6. ASSUME NEW j \in DOMAIN sfList', NEW i \in DOMAIN cfList', NEW t \in Tuning
      PROVE  CountAt(t, X)' = 0 /\ Finished(j, i)' = 0 /\ Begun(j, i)' = 0
  <2>1. CountAt(t, X)' = 0
    <3>1. PlacesAt(air', t, X) = {}
      BY <1>3 DEF PlacesAt
    <3> QED
      BY <3>1, FS_EmptySet DEF CountAt
  <2>2. i \in Nat /\ j \in Nat /\ ~(j < 1) /\ ~(i < 1)
    BY <1>5
  <2> QED
    BY <1>3, <2>1, <2>2 DEF Finished, Begun
<1>7. CountEach(job', X) = CountEach(p, X)
      /\ CountIn(InjectedFrames(job'), X) = CountIn(InjectedFrames(p), X)
  BY <1>3
<1>8. \A a, b \in Nat : a * 0 + 0 * b = 0
  OBVIOUS
<1> QED
  BY <1>4, <1>6, <1>7, <1>8

\* An injection of frames, after which the loops go on.
LEMMA InjectionKeepsCount ==
    ASSUME NEW X, CountInv(X), AirInv', jpc = "inject",
           NEW frames, IsSeq(frames), Emit(frames),
           UNCHANGED <<job, sfList, cfList, tuned>>,
           \/ /\ UNCHANGED <<at, jpc>> /\ sent' = sent + 1
              /\ CountIn(frames, X) = CountIn(InjectedFrames(job), X)
           \/ /\ LeaveScanPoint /\ sent' = 0
              /\ sent * CountIn(InjectedFrames(job), X) + CountIn(frames, X) = CountEach(job, X)
    PROVE  CountInv(X)'
<1> DEFINE c == CountIn(frames, X)
           g == CountIn(InjectedFrames(job), X)
           w == CountEach(job, X)
<1>1. /\ JobOK(job) /\ sent \in Nat /\ PlanInv /\ InLoops /\ InPlan /\ AirInv
      /\ tuned = Point /\ tuned \in Tuning /\ IsSeq(air)
      /\ at.round \in Int /\ at.sf \in Int /\ at.cf \in Int
  BY DEF CountInv, AirInv, PlanInv, WorkTyped, InJob, InLoops, InPlan
<1>2. w \in Nat /\ c \in Nat /\ g \in Nat
  BY <1>1, CountEachType, PlacesInFinite
<1>3. ASSUME NEW j \in DOMAIN sfList, NEW i \in DOMAIN cfList, NEW t \in Tuning,
             t = [cf |-> cfList[i], sf |-> sfList[j]]
      PROVE  CountAt(t, X)' = w * Finished(j, i)' + Begun(j, i)' * g
  <2> DEFINE here == j = at.sf /\ i = at.cf
             x    == Finished(j, i)
  <2>1. t = tuned <=> here
    <3>1. CASE t = tuned
      BY <1>1, <1>3, <3>1, PointsDistinct
    <3>2. CASE here
      BY <1>1, <1>3, <3>2 DEF Point
    <3> QED
      BY <3>1, <3>2
  <2>2. CountAt(t, X) \in Nat /\ CountAt(t, X)' = CountAt(t, X) + (IF here THEN c ELSE 0)
    BY <1>1, <2>1, EmitIsCounted
  <2>3. CountAt(t, X) = w * x + (IF here THEN sent ELSE 0) * g
    <3>1. CountAt(t, X) = w * x + Begun(j, i) * g
      BY <1>1, <1>3 DEF CountInv
    <3>2. Begun(j, i) = IF here THEN sent ELSE 0
      BY <1>1 DEF Begun, InLoops
    <3> QED
      BY <3>1, <3>2
  <2>4. x \in Int
    BY <1>1 DEF Finished, JobOK, Positive
  <2>5. w * x \in Int /\ sent * g \in Int /\ 0 * g = 0
    BY <1>1, <1>2, <2>4
  <2>6. CASE UNCHANGED <<at, jpc>> /\ sent' = sent + 1 /\ c = g
    <3>1. Finished(j, i)' = x
      BY <1>1, <2>6 DEF Finished
    <3>2. Begun(j, i)' = IF here THEN sent + 1 ELSE 0
      BY <1>1, <2>6 DEF Begun, InLoops
    <3>3. (sent + 1) * g = sent * g + g
      BY <1>1, <1>2
    <3> HIDE DEF x, here, w, c, g
    <3> QED
      BY <1>1, <1>2, <2>2, <2>3, <2>5, <2>6, <3>1, <3>2, <3>3
  <2>7. CASE LeaveScanPoint /\ sent' = 0 /\ sent * g + c = w
    <3>1. Finished(j, i)' = x + (IF here THEN 1 ELSE 0)
      BY <1>1, <2>7, LeaveFinishes
    <3>2. Begun(j, i)' = 0
      BY <2>7 DEF Begun
    <3>3. w * (x + 1) = w * x + w
      BY <1>2, <2>4
    <3> HIDE DEF x, here, w, c, g
    <3>4. CASE here
      BY <1>2, <2>2, <2>3, <2>5, <2>7, <3>1, <3>2, <3>3, <3>4
    <3>5. CASE ~here
      BY <1>2, <2>2, <2>3, <2>4, <2>5, <3>1, <3>2, <3>5
    <3> QED
      BY <3>4, <3>5
  <2> QED
    BY <2>6, <2>7
<1>4. (\A j \in DOMAIN sfList, i \in DOMAIN cfList, t \in Tuning :
          t = [cf |-> cfList[i], sf |-> sfList[j]] =>
              CountAt(t, X) = CountEach(job, X) * Finished(j, i)
                              + Begun(j, i) * CountIn(InjectedFrames(job), X))'
  BY <1>3
<1> QED
  BY <1>4 DEF CountInv

LEMMA StepKeepsCount == ASSUME NEW X PROVE CountInv(X) /\ Step => CountInv(X)'
<1> SUFFICES ASSUME CountInv(X), Step PROVE CountInv(X)'
  OBVIOUS
<1>1. AirInv' /\ PlanInv /\ JobOK(job)
  BY StepKeepsAir DEF CountInv, AirInv, PlanInv, WorkTyped, InJob, InLoops
<1>2. CASE ShiftRate \/ ShiftCarrier
  <2>1. /\ jpc \in {"visit", "shiftCF"} /\ jpc' \in {"shiftCF", "inject"}
        /\ UNCHANGED <<job, sfList, cfList, at, sent, air>>
    BY <1>2 DEF ShiftRate, ShiftCarrier
  <2>2. InPlan' => InPlan
    BY <2>1 DEF InPlan
  <2>3. \A t \in Tuning : CountAt(t, X)' = CountAt(t, X)
    BY <2>1 DEF CountAt
  <2>4. \A j \in DOMAIN sfList, i \in DOMAIN cfList :
            Finished(j, i)' = Finished(j, i) /\ Begun(j, i)' = Begun(j, i)
    BY <2>1 DEF Finished, Begun
  <2> QED
    BY <1>1, <2>1, <2>2, <2>3, <2>4 DEF CountInv
<1>3. CASE InjectFrame
  <2> DEFINE frames == InjectedFrames(job)
             g      == CountIn(frames, X)
  <2>1. /\ jpc = "inject" /\ ~job.useBatchAPI /\ Emit(frames)
        /\ UNCHANGED <<job, sfList, cfList, prebuilt, tuned>>
        /\ IF sent + 1 < job.cf_repeat THEN sent' = sent + 1 /\ UNCHANGED <<at, jpc>>
                                       ELSE LeaveScanPoint
    BY <1>3 DEF InjectFrame
  <2>2. IsSeq(frames) /\ g \in Nat
    BY InjectionIsSeq, PlacesInFinite
  <2>3. CASE sent + 1 < job.cf_repeat
    BY <1>1, <2>1, <2>2, <2>3, InjectionKeepsCount
  <2>4. CASE ~(sent + 1 < job.cf_repeat)
    <3>1. LeaveScanPoint /\ sent' = 0
      BY <2>1, <2>4 DEF LeaveScanPoint
    <3>2. sent \in Nat /\ job.cf_repeat = sent + 1
      <4>1. sent \in 0..job.cf_repeat - 1
        BY <1>1, <2>1 DEF PlanInv, WorkTyped, InJob, InLoops
      <4>2. job.cf_repeat \in Nat
        BY <1>1 DEF JobOK, Positive
      <4> QED
        BY <2>4, <4>1, <4>2
    <3>3. CountEach(job, X) = job.cf_repeat * g
      BY <2>1 DEF CountEach
    <3> HIDE DEF g
    <3>4. sent * g + g = CountEach(job, X)
      BY <2>2, <3>2, <3>3
    <3> QED
      BY <1>1, <2>1, <2>2, <3>1, <3>4, InjectionKeepsCount DEF g
  <2> QED
    BY <2>3, <2>4
<1>4. CASE InjectBatch
  <2> DEFINE frames == Times(BatchRepeats, prebuilt)
  <2>1. /\ jpc = "inject" /\ job.useBatchAPI /\ Emit(frames) /\ LeaveScanPoint
        /\ sent' = 0 /\ sent = 0 /\ prebuilt = BatchFrames(job)
        /\ UNCHANGED <<job, sfList, cfList, prebuilt, tuned>>
    BY <1>4 DEF InjectBatch, LeaveScanPoint, CountInv, AirInv, InPlan
  <2>2. /\ IsSeq(prebuilt) /\ Len(prebuilt) \in Nat \ {0}
        /\ BatchRepeats = Repeats(job) /\ Repeats(job) \in Nat
    BY <1>1, <2>1, EachType DEF Positive, BatchRepeats, Repeats
  <2>3. IsSeq(frames)
    BY <2>2, TimesIsSeq
  <2>4. CountIn(frames, X) = CountEach(job, X)
    BY <2>1, <2>2 DEF CountEach
  <2>5. sent * CountIn(InjectedFrames(job), X) + CountIn(frames, X) = CountEach(job, X)
    <3>1. \A a, b \in Nat : 0 * a + b = b
      OBVIOUS
    <3>2. CountEach(job, X) \in Nat /\ CountIn(InjectedFrames(job), X) \in Nat
      BY <1>1, CountEachType
    <3> QED
      BY <2>1, <2>4, <3>1, <3>2
  <2> HIDE DEF frames
  <2> QED
    BY <1>1, <2>1, <2>3, <2>5, InjectionKeepsCount
<1>5. CASE PassPoint \/ MeasurePoint \/ HopChannel
  <2>1. ~InPlan'
    BY <1>5 DEF PassPoint, MeasurePoint, HopChannel, InPlan, Injecting
  <2> QED
    BY <1>1, <2>1 DEF CountInv
<1> QED
  BY <1>2, <1>3, <1>4, <1>5 DEF Step, WorkStep

LEMMA CountStep == ASSUME NEW X PROVE CountInv(X) /\ [Next]_vars => CountInv(X)'
<1>1. CountInv(X) /\ UNCHANGED vars => CountInv(X)'
  <2> SUFFICES ASSUME CountInv(X), UNCHANGED vars PROVE CountInv(X)'
    OBVIOUS
  <2>1. AirInv'
    BY AirStep DEF CountInv
  <2>2. UNCHANGED workVars
    BY DEF vars
  <2> QED
    BY <2>1, <2>2 DEF workVars, CountInv, InPlan, CountAt, Finished, Begun
<1> QED
  BY <1>1, StartKeepsCount, StepKeepsCount DEF Next

\* In the end a point has what all its visits transmit.
LEMMA CountDone ==
    ASSUME NEW X, CountInv(X), InjectionDone,
           NEW t \in [cf : Values(cfList), sf : Values(sfList)]
    PROVE  /\ CountAt(t, X) = job.round_repeat * CountEach(job, X)
           /\ JobOK(job) /\ CountEach(job, X) \in Nat /\ IsSeq(air)
           /\ job.useBatchAPI => prebuilt = BatchFrames(job)
<1>1. /\ PlanInv /\ InPlan /\ JobOK(job) /\ jpc = "returned" /\ IsSeq(air)
      /\ job.useBatchAPI => prebuilt = BatchFrames(job)
  BY DEF CountInv, AirInv, PlanInv, WorkTyped, InJob, InPlan, InjectionDone, InLoops
<1>2. PICK i \in DOMAIN cfList, j \in DOMAIN sfList :
         t = [cf |-> cfList[i], sf |-> sfList[j]]
  BY DEF Values
<1>3. t \in Tuning
  BY <1>1 DEF PlanInv, WorkTyped, InJob, Values, Tuning, InLoops
<1> DEFINE R == job.round_repeat
           w == CountEach(job, X)
           g == CountIn(InjectedFrames(job), X)
<1>4. CountAt(t, X) = w * R + 0 * g
  BY <1>1, <1>2, <1>3 DEF CountInv, Finished, Begun
<1>5. R \in Nat /\ w \in Nat /\ g \in Nat
  BY <1>1, CountEachType DEF JobOK, Positive
<1> HIDE DEF R, w, g
<1>6. w * R + 0 * g = R * w
  BY <1>5
<1> QED
  BY <1>1, <1>4, <1>5, <1>6 DEF R, w

\* What R visits with w frames each exceed c frames each by.
LEMMA Excess ==
    ASSUME NEW R \in Nat \ {0}, NEW c \in Nat, NEW w \in Nat, NEW b \in Nat \ {0},
           w - c \in 0..b - 1
    PROVE  R * w - R * c \in 0..R * b - 1
<1> DEFINE x == w - c
<1>1. x \in Nat /\ x <= b - 1 /\ R * w - R * c = x * R
  OBVIOUS
<1> HIDE DEF x
<1>2. x * R <= (b - 1) * R /\ 0 * R <= x * R
  BY <1>1, Multiples
<1>3. (b - 1) * R <= R * b - 1 /\ 0 * R = 0
  OBVIOUS
<1>4. x * R \in Int /\ R * b \in Int /\ (b - 1) * R \in Int
  BY <1>1
<1> QED
  BY <1>1, <1>2, <1>3, <1>4

(***************************************************************************)
(* Jobs whose --repeat is counted in injections: frame by frame, or in     *)
(* batches without announcements and without split frames (see the         *)
(* README), of fewer repetitions than a float has whole numbers.           *)
(***************************************************************************)
CountsInjections(p) ==
    p.useBatchAPI => ~p.napa /\ (p.ndpContent \/ SplitParts = 1) /\ p.cf_repeat < Digits24

LEMMA CountAsAsked == CountsInjections(job) /\ CountInv({"NDPA"}) => InjectionsAsAsked
<1> SUFFICES ASSUME CountsInjections(job), CountInv({"NDPA"}), InjectionDone,
                    NEW t \in [cf : Values(cfList), sf : Values(sfList)]
             PROVE  InjectedAt(t) - job.round_repeat * job.cf_repeat * PartsOfInjection \in
                      0..(IF job.useBatchAPI
                          THEN job.round_repeat * job.batchLength * PartsOfInjection - 1
                          ELSE 0)
  BY DEF InjectionsAsAsked
<1> DEFINE R == job.round_repeat
           c == job.cf_repeat
           b == job.batchLength
           w == CountEach(job, {"NDPA"})
<1>1. CountAt(t, {"NDPA"}) = R * w /\ JobOK(job) /\ w \in Nat /\ IsSeq(air)
  BY CountDone
<1>2. InjectedAt(t) = R * w
  <2>1. DOMAIN air = 1..Len(air)
    BY <1>1, SeqDomain
  <2>2. {n \in DOMAIN air : air[n].at = t /\ air[n].kind # "NDPA"} = PlacesAt(air, t, {"NDPA"})
    BY <2>1 DEF PlacesAt
  <2> QED
    BY <1>1, <2>2 DEF InjectedAt, CountAt
<1>3. PartsOfInjection = 1
  BY DEF CountsInjections, PartsOfInjection, DataFrame
<1>4. R \in Nat \ {0} /\ c \in Nat \ {0} /\ b \in Nat \ {0}
  BY <1>1 DEF JobOK, Positive
<1>5. CASE job.useBatchAPI
  <2>1. /\ ~job.napa /\ (DataFrame(job) = "data" => SplitParts = 1) /\ c < Digits24
    BY <1>5 DEF CountsInjections, DataFrame
  <2>2. /\ Len(BatchFrames(job)) = BatchSize(job) * 1
        /\ \A k \in 1..Len(BatchFrames(job)) : BatchFrames(job)[k] \notin {"NDPA"}
    BY <1>4, <2>1, BatchIsSeq DEF BatchParts
  <2>3. w = Repeats(job) * Len(BatchFrames(job))
    BY <1>1, <1>5, <2>2, AllOfBatch DEF CountEach
  <2>4. w - c \in 0..Len(BatchFrames(job)) - 1
    BY <1>1, <2>1, <2>3, RepeatsAreEnough
  <2>5. Len(BatchFrames(job)) \in Nat /\ Len(BatchFrames(job)) <= b
    BY <1>4, <2>2 DEF BatchSize
  <2> HIDE DEF R, c, b, w
  <2>6. w - c \in 0..b - 1
    BY <1>1, <1>4, <2>4, <2>5
  <2>7. R * w - R * c \in 0..R * b - 1
    BY <1>1, <1>4, <2>6, Excess
  <2>8. R * c * 1 = R * c /\ R * b * 1 = R * b
    BY <1>4
  <2> QED
    BY <1>2, <1>3, <1>5, <2>7, <2>8 DEF R, c, b
<1>6. CASE ~job.useBatchAPI
  <2>1. w = c * 1
    BY <1>6, OneOfData DEF CountEach
  <2> HIDE DEF R, c, w
  <2>2. R * w - R * c * 1 = 0
    BY <1>4, <2>1
  <2> QED
    BY <1>2, <1>3, <1>6, <2>2 DEF R, c
<1> QED
  BY <1>5, <1>6

(***************************************************************************)
(* --repeat is the number of injections at a point in every round: exactly *)
(* frame by frame, and less than a batch more with batches, unless batches *)
(* contain announcements or split frames, for which it is wrong, or are    *)
(* repeated more often than a float can count.                             *)
(***************************************************************************)
THEOREM InjectionCount == Spec => [](CountsInjections(job) => InjectionsAsAsked)
<1>1. CountInv({"NDPA"}) => (CountsInjections(job) => InjectionsAsAsked)
  BY CountAsAsked
<1>2. Init => CountInv({"NDPA"})
  BY CountInitially
<1>3. CountInv({"NDPA"}) /\ [Next]_vars => CountInv({"NDPA"})'
  BY CountStep
<1> QED
  BY <1>1, <1>2, <1>3, PTL DEF Spec

TransmittedAt(t) == Cardinality({n \in DOMAIN air : air[n].at = t})

(***************************************************************************)
(* What --repeat does count: the transmissions at a point, if a batch is   *)
(* used, each part of a split frame and each announcement being one; or    *)
(* the injections, each with its announcement.                             *)
(***************************************************************************)
TransmissionsAsAsked ==
    InjectionDone =>
        \A t \in [cf : Values(cfList), sf : Values(sfList)] :
            IF job.useBatchAPI
            THEN job.cf_repeat < Digits24 =>
                     TransmittedAt(t) - job.round_repeat * job.cf_repeat \in
                         0..job.round_repeat * Len(prebuilt) - 1
            ELSE TransmittedAt(t) =
                     job.round_repeat * (job.cf_repeat * Len(InjectedFrames(job)))

LEMMA TransmissionsCounted == CountInv({}) => TransmissionsAsAsked
<1> SUFFICES ASSUME CountInv({}), InjectionDone,
                    NEW t \in [cf : Values(cfList), sf : Values(sfList)]
             PROVE  IF job.useBatchAPI
                    THEN job.cf_repeat < Digits24 =>
                             TransmittedAt(t) - job.round_repeat * job.cf_repeat \in
                                 0..job.round_repeat * Len(prebuilt) - 1
                    ELSE TransmittedAt(t) =
                             job.round_repeat * (job.cf_repeat * Len(InjectedFrames(job)))
  BY DEF TransmissionsAsAsked
<1> DEFINE R == job.round_repeat
           c == job.cf_repeat
           w == CountEach(job, {})
<1>1. /\ CountAt(t, {}) = R * w /\ JobOK(job) /\ w \in Nat /\ IsSeq(air)
      /\ job.useBatchAPI => prebuilt = BatchFrames(job)
  BY CountDone
<1>2. TransmittedAt(t) = R * w
  <2>1. DOMAIN air = 1..Len(air)
    BY <1>1, SeqDomain
  <2>2. {n \in DOMAIN air : air[n].at = t} = PlacesAt(air, t, {})
    BY <2>1 DEF PlacesAt
  <2> QED
    BY <1>1, <2>2 DEF TransmittedAt, CountAt
<1>3. R \in Nat \ {0} /\ c \in Nat \ {0}
  BY <1>1 DEF JobOK, Positive
<1>4. ASSUME job.useBatchAPI, c < Digits24
      PROVE  R * w - R * c \in 0..R * Len(prebuilt) - 1
  <2> DEFINE n == Len(prebuilt)
  <2>1. n = Len(BatchFrames(job)) /\ n \in Nat \ {0}
    BY <1>1, <1>4, EachType DEF Positive
  <2>2. w = Repeats(job) * Len(BatchFrames(job))
    BY <1>1, <1>4, AllOfBatch DEF CountEach
  <2>3. w - c \in 0..n - 1
    BY <1>1, <1>4, <2>1, <2>2, RepeatsAreEnough
  <2> HIDE DEF n, w, R, c
  <2>4. R * w - R * c \in 0..R * n - 1
    BY <1>1, <1>3, <2>1, <2>3, Excess
  <2> QED
    BY <2>4 DEF n
<1>5. CASE ~job.useBatchAPI
  <2>1. CountIn(InjectedFrames(job), {}) = Len(InjectedFrames(job))
    BY InjectionIsSeq, AllCounted
  <2> QED
    BY <1>2, <1>5, <2>1 DEF CountEach
<1> QED
  BY <1>2, <1>4, <1>5

(***************************************************************************)
(* Of every job, with announcements and with frames split in any number of *)
(* parts: frame by frame --repeat counts injections, in a batch the frames *)
(* on the air, and the last batch is complete.                             *)
(***************************************************************************)
THEOREM TransmissionCount == Spec => []TransmissionsAsAsked
<1>1. CountInv({}) => TransmissionsAsAsked
  BY TransmissionsCounted
<1>2. Init => CountInv({})
  BY CountInitially
<1>3. CountInv({}) /\ [Next]_vars => CountInv({})'
  BY CountStep
<1> QED
  BY <1>1, <1>2, <1>3, PTL DEF Spec
=============================================================================
