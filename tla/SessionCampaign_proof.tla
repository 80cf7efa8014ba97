----------------------- MODULE SessionCampaign_proof ------------------------
(***************************************************************************)
(* Proof that the frames an EchoProbe initiator dumps form a measurement   *)
(* campaign, for all scan lists, repeats, losses and retries.              *)
(***************************************************************************)
EXTENDS EchoProbeSession_proof, FiniteSetTheorems

Measuring == call = "measure" /\ ipc \in {"transmit", "await"}

\* Where a log holds p.
IndicesOf(log, p) == {i \in DOMAIN log : log[i] = p}

\* The measurements the present scan point has seen.
Made == IF Measuring THEN repetition - 1 ELSE 0

\* p comes before q in the order of the loops.
Earlier(p, q) ==
    \/ p.round < q.round
    \/ p.round = q.round /\ p.sf < q.sf
    \/ p.round = q.round /\ p.sf = q.sf /\ p.cf < q.cf

\* No point beyond the present one was dumped, and it as often as the loop says.
NothingAhead ==
    /\ \A i \in DOMAIN dumped : dumped[i] = at \/ Earlier(dumped[i], at)
    /\ Campaign!Occurrences(at) = Made

\* The present point is the one a campaign goes on with.
GoesOn ==
    IF Made = 0
    THEN Campaign!StartsRound(at) \/ Campaign!NextPoint(at)
    ELSE dumped # <<>> /\ Campaign!Latest = at

CampaignInv == ipc # "done" => NothingAhead /\ GoesOn

-----------------------------------------------------------------------------
\* A point is counted in a log as many times as it was before, and once more
\* if it is the one appended.
LEMMA AppendCounts ==
    ASSUME NEW S, NEW log \in Seq(S), NEW p \in S
    PROVE  /\ Cardinality(IndicesOf(Append(log, p), p)) = Cardinality(IndicesOf(log, p)) + 1
           /\ Cardinality(IndicesOf(log, p)) \in Nat
<1> USE DEF IndicesOf
<1> DEFINE before == IndicesOf(log, p)
           after == IndicesOf(Append(log, p), p)
           new == Len(log) + 1
<1>1. /\ Len(log) \in Nat /\ DOMAIN log = 1..Len(log)
      /\ DOMAIN Append(log, p) = 1..new
      /\ \A i \in 1..Len(log) : Append(log, p)[i] = log[i]
      /\ Append(log, p)[new] = p
  OBVIOUS
<1>2. IsFiniteSet(before)
  <2>1. IsFiniteSet(1..Len(log))
    BY <1>1, FS_Interval
  <2> QED
    BY <1>1, <2>1, FS_Subset
<1>3. after = before \cup {new}
  BY <1>1
<1>4. new \notin before
  BY <1>1
<1> HIDE DEF IndicesOf, before, after, new
<1>5. Cardinality(after) = Cardinality(before) + 1 /\ Cardinality(before) \in Nat
  BY <1>2, <1>3, <1>4, FS_AddElement, FS_CardinalityType
<1> QED
  BY <1>5 DEF before, after

\* The elements of a sequence, also of one in the next state.
LEMMA SeqElement ==
    ASSUME NEW S, NEW log \in Seq(S), NEW i \in DOMAIN log
    PROVE  log[i] \in S
OBVIOUS

\* The cardinality the campaign counts with is the one of FiniteSets.
LEMMA SameCardinality ==
    ASSUME NEW S
    PROVE  Campaign!Cardinality(S) = Cardinality(S)
BY DEF Campaign!Cardinality, Cardinality

\* No point precedes itself.
LEMMA EarlierIsStrict ==
    ASSUME NEW p \in Positions
    PROVE  ~Earlier(p, p)
BY DEF Earlier, Positions

\* The loops never turn back: what precedes an earlier point precedes the later one.
LEMMA EarlierIsTransitive ==
    ASSUME NEW p \in Positions, NEW q \in Positions, NEW r \in Positions,
           Earlier(p, q), Earlier(q, r)
    PROVE  Earlier(p, r)
<1>1. /\ p.round \in Int /\ q.round \in Int /\ r.round \in Int
      /\ p.sf \in Int /\ q.sf \in Int /\ r.sf \in Int
      /\ p.cf \in Int /\ q.cf \in Int /\ r.cf \in Int
  BY DEF Positions
<1> QED
  BY <1>1 DEF Earlier

\* A point that everything in a log precedes is not in the log.
LEMMA NewPoint ==
    ASSUME NEW log \in Seq(Positions), NEW p \in Positions,
           \A i \in DOMAIN log : Earlier(log[i], p)
    PROVE  Campaign!Cardinality({i \in DOMAIN log : log[i] = p}) = 0
<1>1. {i \in DOMAIN log : log[i] = p} = {}
  BY EarlierIsStrict
<1> QED
  BY <1>1, FS_EmptySet, SameCardinality

\* A round is left for the first point of the next one.
LEMMA RoundLeft ==
    ASSUME TypeOK, LeaveRound, ipc' # "done", dumped' \in Seq(Positions),
           \A i \in DOMAIN dumped' : dumped'[i] = at \/ Earlier(dumped'[i], at)
    PROVE  NothingAhead' /\ GoesOn'
<1>1. at \in Positions /\ at' \in Positions /\ ipc' \in {"visit", "done"}
  BY LeaveType DEF TypeOK, InitiatorTypeOK
<1>2. at' = [round |-> at.round + 1, sf |-> 1, cf |-> 1]
  BY DEF LeaveRound
<1>3. Made' = 0
  BY <1>1 DEF Made, Measuring
<1>4. \A i \in DOMAIN dumped' : dumped'[i].round < at'.round
  <2> SUFFICES ASSUME NEW i \in DOMAIN dumped' PROVE dumped'[i].round < at'.round
    OBVIOUS
  <2>1. dumped'[i] \in Positions
    BY SeqElement
  <2>2. dumped'[i] = at \/ Earlier(dumped'[i], at)
    OBVIOUS
  <2> QED
    BY <1>1, <1>2, <2>1, <2>2 DEF Earlier, Positions
<1>5. \A i \in DOMAIN dumped' : Earlier(dumped'[i], at')
  BY <1>4 DEF Earlier
<1>6. Campaign!Occurrences(at)' = 0
  BY <1>1, <1>5, NewPoint DEF Campaign!Occurrences
<1>7. Campaign!StartsRound(at)'
  <2>1. dumped' # <<>> => Len(dumped') \in DOMAIN dumped'
    OBVIOUS
  <2> QED
    BY <1>2, <1>4, <2>1 DEF Campaign!StartsRound, Campaign!Latest
<1> QED
  BY <1>3, <1>5, <1>6, <1>7 DEF NothingAhead, GoesOn

\* A scan point is left, when it is complete, for the one that follows it.
LEMMA PointLeft ==
    ASSUME TypeOK, LeavePoint, ipc' # "done", dumped' \in Seq(Positions), dumped' # <<>>,
           \A i \in DOMAIN dumped' : dumped'[i] = at \/ Earlier(dumped'[i], at),
           Campaign!Latest' = at,
           Cardinality({i \in DOMAIN dumped' : dumped'[i] = at}) = CfRepeat
    PROVE  NothingAhead' /\ GoesOn'
<1>1. at \in Positions /\ at' \in Positions /\ ipc' \in {"visit", "done"}
  BY LeaveType DEF TypeOK, InitiatorTypeOK
<1>2. Made' = 0
  BY <1>1 DEF Made, Measuring
<1>3. CASE LeaveRound
  BY <1>3, RoundLeft
<1>4. CASE ~LeaveRound
  <2>1. \/ at' = [at EXCEPT !.cf = @ + 1]
        \/ at' = [at EXCEPT !.sf = @ + 1, !.cf = 1] /\ ~(at.cf < Len(CfList))
    BY <1>4 DEF LeavePoint
  <2>2. at.cf \in 1..Len(CfList) /\ Len(CfList) \in Nat
    BY <1>1, ScanListsAssumption DEF Positions
  <2>3. /\ at'.round = at.round
        /\ \/ at'.sf = at.sf /\ at'.cf = at.cf + 1
           \/ at'.sf = at.sf + 1 /\ at.cf = Len(CfList) /\ at'.cf = 1
    <3>1. CASE at' = [at EXCEPT !.cf = @ + 1]
      BY <1>1, <3>1 DEF Positions
    <3>2. CASE at' = [at EXCEPT !.sf = @ + 1, !.cf = 1] /\ ~(at.cf < Len(CfList))
      <4>1. at' = [round |-> at.round, sf |-> at.sf + 1, cf |-> 1]
        BY <1>1, <3>2 DEF Positions
      <4> QED
        BY <2>2, <3>2, <4>1
    <3> QED
      BY <2>1, <3>1, <3>2
  <2>4. Earlier(at, at')
    BY <1>1, <2>3 DEF Earlier, Positions
  <2>5. \A i \in DOMAIN dumped' : Earlier(dumped'[i], at')
    <3> SUFFICES ASSUME NEW i \in DOMAIN dumped' PROVE Earlier(dumped'[i], at')
      OBVIOUS
    <3>1. dumped'[i] \in Positions
      BY SeqElement
    <3>2. dumped'[i] = at \/ Earlier(dumped'[i], at)
      OBVIOUS
    <3> QED
      BY <1>1, <2>4, <3>1, <3>2, EarlierIsTransitive
  <2>6. Campaign!Occurrences(at)' = 0
    BY <1>1, <2>5, NewPoint DEF Campaign!Occurrences
  <2>7. Campaign!NextPoint(at)'
    BY <2>3, SameCardinality DEF Campaign!NextPoint, Campaign!Occurrences, Campaign!Latest
  <2> QED
    BY <1>2, <2>5, <2>6, <2>7 DEF NothingAhead, GoesOn
<1> QED
  BY <1>3, <1>4

\* What the invariant says does not change while the point and its count stay.
LEMMA SamePoint ==
    ASSUME TypeOK, CampaignInv, ipc # "done", UNCHANGED <<at, dumped>>, Made' = Made
    PROVE  CampaignInv'
BY DEF CampaignInv, NothingAhead, GoesOn, Campaign!StartsRound, Campaign!NextPoint,
       Campaign!Latest, Campaign!Occurrences

-----------------------------------------------------------------------------
\* A measurement is dumped in its place of the campaign.
LEMMA RecordMeasures ==
    ASSUME TypeOK, CampaignInv, RecordMeasurement
    PROVE  Campaign!Measure(at) /\ at \in Campaign!Position
<1>1. at \in Positions /\ repetition \in 1..CfRepeat /\ CfRepeat \in Nat \ {0}
  BY RepeatsAssumption DEF TypeOK, InitiatorTypeOK
<1>2. Made = repetition - 1 /\ dumped' = Append(dumped, at)
  BY DEF RecordMeasurement, Made, Measuring
<1>3. NothingAhead /\ GoesOn
  BY DEF RecordMeasurement, CampaignInv
<1>4. at \in Campaign!Position
  BY <1>1 DEF Campaign!Position, Positions
<1>5. CASE Made = 0
  BY <1>2, <1>3, <1>4, <1>5 DEF GoesOn, Campaign!Measure
<1>6. CASE Made # 0
  BY <1>1, <1>2, <1>3, <1>4, <1>6 DEF GoesOn, NothingAhead, Campaign!Measure, Campaign!RepeatsPoint
<1> QED
  BY <1>4, <1>5, <1>6

\* After a measurement the loops stand at the next one of the campaign.
LEMMA RecordKeeps ==
    ASSUME TypeOK, CampaignInv, RecordMeasurement
    PROVE  CampaignInv'
<1> DEFINE Indices(s) == IndicesOf(s, at)
<1>1. /\ at \in Positions /\ dumped \in Seq(Positions)
      /\ repetition \in 1..CfRepeat /\ CfRepeat \in Nat \ {0}
  BY RepeatsAssumption DEF TypeOK, InitiatorTypeOK
<1>2. Made = repetition - 1 /\ dumped' = Append(dumped, at)
  BY DEF RecordMeasurement, Made, Measuring
<1>3. NothingAhead
  BY DEF RecordMeasurement, CampaignInv
<1>4. /\ dumped' \in Seq(Positions) /\ dumped' # <<>>
      /\ dumped'[Len(dumped')] = at
  BY <1>1, <1>2
<1>5. \A i \in DOMAIN dumped' : dumped'[i] = at \/ Earlier(dumped'[i], at)
  <2>1. \A i \in DOMAIN dumped' : (i \in DOMAIN dumped /\ dumped'[i] = dumped[i]) \/ dumped'[i] = at
    BY <1>1, <1>2
  <2> QED
    BY <1>3, <2>1 DEF NothingAhead
<1>6. Cardinality(Indices(dumped')) = repetition
  <2>1. Cardinality(Indices(dumped)) = repetition - 1
    BY <1>2, <1>3, SameCardinality DEF IndicesOf, NothingAhead, Campaign!Occurrences
  <2>2. Cardinality(Indices(Append(dumped, at))) = Cardinality(Indices(dumped)) + 1
    BY <1>1, AppendCounts
  <2> HIDE DEF Indices
  <2> QED
    BY <1>1, <1>2, <2>1, <2>2
<1>7. CASE repetition < CfRepeat
  <2>1. StartMeasurement(repetition + 1) /\ at' = at
    BY <1>7 DEF RecordMeasurement
  <2>2. Made' = repetition
    BY <1>1, <2>1 DEF StartMeasurement, Made, Measuring
  <2> QED
    BY <1>1, <1>4, <1>5, <1>6, <2>1, <2>2, SameCardinality
       DEF IndicesOf, CampaignInv, NothingAhead, GoesOn, Campaign!Latest,
           Campaign!Occurrences
<1>8. CASE ~(repetition < CfRepeat)
  <2>1. LeavePoint /\ repetition = CfRepeat
    BY <1>1, <1>8 DEF RecordMeasurement
  <2>2. Campaign!Latest' = at
    BY <1>4 DEF Campaign!Latest
  <2> QED
    BY <1>4, <1>5, <1>6, <2>1, <2>2, PointLeft DEF CampaignInv, IndicesOf
<1> QED
  BY <1>7, <1>8

\* An attempt without a usable reply repeats the point or gives up the round.
LEMMA NoReplyKeeps ==
    ASSUME TypeOK, CampaignInv, ipc = "await", NoUsableReply
    PROVE  CampaignInv'
<1>1. UNCHANGED <<dumped, repetition>> /\ dumped \in Seq(Positions)
  BY DEF NoUsableReply, TypeOK, InitiatorTypeOK
<1>2. CASE LeaveRound
  BY <1>1, <1>2, RoundLeft DEF CampaignInv, NothingAhead
<1>3. CASE ~LeaveRound
  <2>1. at' = at /\ ipc' = "transmit"
    BY <1>3 DEF NoUsableReply, RetryTransmission, TryTargetTuning, RetreatToOrigin,
                AbandonMeasurement
  <2>2. (call = "measure") = (call' = "measure")
    BY <1>3 DEF NoUsableReply, RetryTransmission, TryTargetTuning, RetreatToOrigin,
                AbandonMeasurement
  <2>3. Made' = Made
    BY <1>1, <2>1, <2>2 DEF Made, Measuring
  <2> QED
    BY <1>1, <2>1, <2>3, SamePoint
<1> QED
  BY <1>2, <1>3

\* Every step keeps the loops at a point the campaign can go on with.
LEMMA StepKeeps ==
    ASSUME TypeOK, CampaignInv, [Next]_vars
    PROVE  CampaignInv'
<1>1. CASE VisitTunedPoint
  <2>1. Made = 0 /\ Made' = 0
    BY <1>1 DEF VisitTunedPoint, StartMeasurement, Made, Measuring
  <2> QED
    BY <1>1, <2>1, SamePoint DEF VisitTunedPoint
<1>2. CASE StartHop
  <2>1. Made = 0 /\ Made' = 0
    BY <1>2 DEF StartHop, Made, Measuring
  <2> QED
    BY <1>2, <2>1, SamePoint DEF StartHop
<1>3. CASE Transmit
  <2>1. Made' = Made
    BY <1>3 DEF Transmit, Made, Measuring
  <2> QED
    BY <1>3, <2>1, SamePoint DEF Transmit
<1>4. CASE ConfirmHop
  <2>1. Made = 0 /\ Made' = 0
    BY <1>4 DEF ConfirmHop, StartMeasurement, Made, Measuring
  <2> QED
    BY <1>4, <2>1, SamePoint DEF ConfirmHop
<1>5. CASE RecordMeasurement
  BY <1>5, RecordKeeps
<1>6. CASE Timeout \/ RejectReply
  BY <1>6, NoReplyKeeps DEF Timeout, RejectReply
<1>7. CASE UNCHANGED initiatorVars
  <2>1. Made' = Made /\ ipc' = ipc
    BY <1>7 DEF initiatorVars, Made, Measuring
  <2> QED
    BY <1>7, <2>1, SamePoint DEF initiatorVars, CampaignInv
<1> QED
  BY <1>1, <1>2, <1>3, <1>4, <1>5, <1>6, <1>7
     DEF Next, InitiatorStep, InitiatorRxStep, DecodeFailure, ResponderStep, RadioStep,
         Finished, vars, Overhear

-----------------------------------------------------------------------------
(***************************************************************************)
(* At any time before the job returns, the loops stand at a point at which *)
(* the campaign in the dumped file can be continued.                       *)
(***************************************************************************)
THEOREM CampaignCorrect == Spec => []CampaignInv
<1>1. Init => CampaignInv
  <2> SUFFICES ASSUME Init PROVE CampaignInv
    OBVIOUS
  <2>1. dumped = <<>> /\ Made = 0 /\ at = [round |-> 1, sf |-> 1, cf |-> 1]
    BY DEF Init, InitiatorInit, Made, Measuring
  <2>2. {i \in DOMAIN dumped : dumped[i] = at} = {}
    BY <2>1
  <2> QED
    BY <2>1, <2>2, FS_EmptySet, SameCardinality
       DEF CampaignInv, NothingAhead, GoesOn, Campaign!StartsRound, Campaign!Occurrences
<1> QED
  BY <1>1, StepKeeps, TypeCorrect, PTL DEF Spec

(***************************************************************************)
(* The dumped frames form a measurement campaign, whatever is lost: the    *)
(* loops of unifiedEchoProbeWork dump the points in their order, none more *)
(* than cf_repeat times, and pass on within a round only from a point that *)
(* is complete.                                                            *)
(***************************************************************************)
THEOREM CampaignImplemented == Spec => ImplementsCampaign
<1>1. Init => Campaign!Init
  BY DEF Init, InitiatorInit, Campaign!Init
<1>2. TypeOK /\ CampaignInv /\ [Next]_vars => [Campaign!Next]_dumped
  <2> SUFFICES ASSUME TypeOK, CampaignInv, Next, dumped' # dumped PROVE Campaign!Next
    BY DEF vars, initiatorVars
  <2>1. RecordMeasurement
    BY DEF Next, InitiatorStep, InitiatorRxStep, DecodeFailure, ResponderStep, RadioStep,
           Finished, vars, VisitTunedPoint, StartHop, Transmit, ConfirmHop, Timeout,
           RejectReply, NoUsableReply, Overhear, initiatorVars
  <2> QED
    BY <2>1, RecordMeasures DEF Campaign!Next
<1> QED
  BY <1>1, <1>2, TypeCorrect, CampaignCorrect, PTL
     DEF Spec, ImplementsCampaign, Campaign!Spec
=============================================================================
