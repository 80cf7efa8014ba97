----------------------- MODULE EchoProbeSession_proof -----------------------
(***************************************************************************)
(* Proofs about EchoProbeSession: the type invariant, and that a           *)
(* measurement is made only at the scan point of the loops.                *)
(***************************************************************************)
EXTENDS EchoProbeSession, TLAPS

USE DEF Stations, InitiatorPcs, Calls, ResponderPcs

\* The tuning of every scan point is one a front end can take.
LEMMA PointType ==
    ASSUME NEW p \in Positions
    PROVE  PointOf(p) \in Tuning
BY ScanListsAssumption DEF PointOf, Positions, Tuning

\* The frames of the initiator, whatever the state.
LEMMA RequestType ==
    ASSUME TypeOK
    PROVE  MeasureRequest \in Frame /\ FreqChangeRequest \in Frame
<1>1. Point \in Tuning
  BY PointType DEF Point, TypeOK, InitiatorTypeOK
<1>2. frame \in Frame /\ tuning["initiator"] \in Tuning
  BY DEF TypeOK, InitiatorTypeOK, RadioTypeOK
<1>3. frame.task + 1 \in Nat
  BY <1>2 DEF Frame
<1>4. MeasureRequest \in Frame
  BY <1>3 DEF MeasureRequest, BasicFrame, Unspecified, Frame, FrameTypes
<1>5. \A cf, sf \in Int :
        [BasicFrame("EchoProbeFreqChangeRequest") EXCEPT !.cf = cf, !.sf = sf] \in Frame
  BY <1>3 DEF BasicFrame, Frame, FrameTypes
<1>6. FreqChangeRequest \in Frame
  <2> DEFINE cf == IF Point.cf # tuning["initiator"].cf THEN Point.cf ELSE Unspecified
             sf == IF Point.sf # tuning["initiator"].sf THEN Point.sf ELSE Unspecified
  <2>1. cf \in Int /\ sf \in Int
    BY <1>1 DEF Tuning, Unspecified
  <2>2. FreqChangeRequest =
          [BasicFrame("EchoProbeFreqChangeRequest") EXCEPT !.cf = cf, !.sf = sf]
    BY DEF FreqChangeRequest, BasicFrame
  <2> HIDE DEF cf, sf
  <2> QED
    BY <1>5, <2>1, <2>2
<1> QED
  BY <1>4, <1>6

\* The first measurement or the next one leaves the initiator well typed.
LEMMA StartMeasurementType ==
    ASSUME TypeOK, NEW i \in 1..CfRepeat, StartMeasurement(i)
    PROVE  /\ ipc' = "transmit" /\ call' = "measure" /\ retryCount' = 0
           /\ frame' \in Frame /\ repetition' \in 1..CfRepeat
BY RequestType DEF StartMeasurement

\* Leaving a round or a scan point, the loops stay inside the scan.
LEMMA LeaveType ==
    ASSUME TypeOK, LeavePoint \/ LeaveRound
    PROVE  at' \in Positions /\ ipc' \in {"visit", "done"}
<1>1. /\ Len(SfList) \in Nat /\ 1 <= Len(SfList)
      /\ Len(CfList) \in Nat /\ 1 <= Len(CfList)
      /\ RoundRepeat \in Nat /\ 1 <= RoundRepeat
  BY ScanListsAssumption, RepeatsAssumption
<1>2. at \in Positions /\ ipc \in InitiatorPcs
  BY DEF TypeOK, InitiatorTypeOK
<1>3. LeaveRound => at' \in Positions /\ ipc' \in {"visit", "done"}
  BY <1>1, <1>2 DEF LeaveRound, Positions
<1>4. ASSUME LeavePoint PROVE at' \in Positions /\ ipc' \in {"visit", "done"}
  <2>1. CASE at.cf < Len(CfList)
    <3>1. at' = [at EXCEPT !.cf = @ + 1] /\ ipc' = "visit"
      BY <1>4, <2>1 DEF LeavePoint
    <3> QED
      BY <1>1, <1>2, <2>1, <3>1 DEF Positions
  <2>2. CASE ~(at.cf < Len(CfList)) /\ at.sf < Len(SfList)
    <3>1. at' = [at EXCEPT !.sf = @ + 1, !.cf = 1] /\ ipc' = "visit"
      BY <1>4, <2>2 DEF LeavePoint
    <3>2. at' = [round |-> at.round, sf |-> at.sf + 1, cf |-> 1]
      BY <1>2, <3>1 DEF Positions
    <3> QED
      BY <1>1, <1>2, <2>2, <3>1, <3>2 DEF Positions
  <2>3. CASE ~(at.cf < Len(CfList)) /\ ~(at.sf < Len(SfList))
    BY <1>3, <1>4, <2>3 DEF LeavePoint
  <2> QED
    BY <2>1, <2>2, <2>3
<1> QED
  BY <1>3, <1>4

\* Where an attempt without a usable reply leads.
LEMMA NoUsableReplyType ==
    ASSUME TypeOK, ipc = "await", NoUsableReply
    PROVE  /\ InitiatorTypeOK'
           /\ tuning' \in [Stations -> Tuning]
           /\ tuning'["responder"] = tuning["responder"]
           /\ outbox' = outbox
           /\ call' = "measure" /\ ipc' \in {"transmit", "await"} =>
                call = "measure" /\ tuning' = tuning /\ at' = at
<1> USE RepeatsAssumption
<1>1. Point \in Tuning
  BY PointType DEF Point, TypeOK, InitiatorTypeOK
<1>2. CASE RetryTransmission
  BY <1>2 DEF RetryTransmission, Exhausted, NoUsableReply, TypeOK,
              InitiatorTypeOK, RadioTypeOK, MaxRetry
<1>3. CASE TryTargetTuning
  BY <1>1, <1>3 DEF TryTargetTuning, ReachPoint, Tune, NoUsableReply, TypeOK,
                    InitiatorTypeOK, RadioTypeOK, MaxRetry
<1>4. CASE RetreatToOrigin
  <2>1. tuning' \in [Stations -> Tuning] /\ tuning'["responder"] = tuning["responder"]
    BY <1>4 DEF RetreatToOrigin, Tune, TypeOK, InitiatorTypeOK, RadioTypeOK
  <2>2. CASE attempt < TxMaxRetry
    BY <1>4, <2>1, <2>2 DEF RetreatToOrigin, NoUsableReply, TypeOK,
                            InitiatorTypeOK, RadioTypeOK, MaxRetry
  <2>3. CASE ~(attempt < TxMaxRetry)
    <3>1. LeaveRound /\ UNCHANGED <<attempt, call, retryCount>>
      BY <1>4, <2>3 DEF RetreatToOrigin
    <3> QED
      BY <1>4, <2>1, <3>1, LeaveType DEF NoUsableReply, TypeOK, InitiatorTypeOK,
                                         RadioTypeOK, MaxRetry
  <2> QED
    BY <2>2, <2>3
<1>5. CASE AbandonMeasurement
  BY <1>5, LeaveType DEF AbandonMeasurement, NoUsableReply, TypeOK,
                         InitiatorTypeOK, RadioTypeOK, MaxRetry
<1> QED
  BY <1>2, <1>3, <1>4, <1>5 DEF NoUsableReply

\* A frame taken from an inbox is a frame, and the inboxes stay sequences of frames.
LEMMA TakeFrameType ==
    ASSUME TypeOK, NEW s \in Stations, TakeFrame(s)
    PROVE  Head(inbox[s]) \in Frame /\ inbox' \in [Stations -> Seq(Frame)]
<1>1. inbox \in [Stations -> Seq(Frame)] /\ inbox[s] \in Seq(Frame)
  BY DEF TypeOK, RadioTypeOK
<1>2. inbox[s] # <<>> /\ inbox' = [inbox EXCEPT ![s] = Tail(@)]
  BY DEF TakeFrame
<1>3. Head(inbox[s]) \in Frame /\ Tail(inbox[s]) \in Seq(Frame)
  BY <1>1, <1>2
<1> QED
  BY <1>1, <1>2, <1>3

\* A frame handed to a NIC extends the outbox of its station.
LEMMA TransmitFrameType ==
    ASSUME TypeOK, NEW s \in Stations, NEW f \in Frame, TransmitFrame(s, f)
    PROVE  outbox' \in [Stations -> Seq(Frame)]
<1>1. outbox \in [Stations -> Seq(Frame)] /\ outbox[s] \in Seq(Frame)
  BY DEF TypeOK, RadioTypeOK
<1>2. Append(outbox[s], f) \in Seq(Frame)
  BY <1>1
<1> QED
  BY <1>1, <1>2 DEF TransmitFrame

\* The initial states are well typed.
LEMMA InitType == Init => TypeOK
<1> SUFFICES ASSUME Init PROVE TypeOK
  OBVIOUS
<1>1. RadioTypeOK
  BY StartTuningsAssumption, MaxFaultsAssumption DEF Init, RadioInit, RadioTypeOK
<1>2. origin \in Tuning
  BY <1>1 DEF Init, InitiatorInit, RadioTypeOK
<1>3. at \in Positions
  BY ScanListsAssumption, RepeatsAssumption DEF Init, InitiatorInit, Positions
<1>4. InitiatorTypeOK
  <2>1. frame \in Frame /\ dumped \in Seq(Positions)
    BY DEF Init, InitiatorInit, Frame, FrameTypes, Unspecified
  <2>2. MaxRetry = TxMaxRetry /\ TxMaxRetry \in Nat \ {0}
    BY RepeatsAssumption DEF Init, InitiatorInit, MaxRetry
  <2>3. attempt \in 1..TxMaxRetry /\ repetition \in 1..CfRepeat
    BY RepeatsAssumption DEF Init, InitiatorInit
  <2>4. connectionEstablished \in BOOLEAN
    BY Zenon DEF Init, InitiatorInit
  <2> QED
    BY <1>2, <1>3, <2>1, <2>2, <2>3, <2>4 DEF Init, InitiatorInit, InitiatorTypeOK
<1>5. ResponderTypeOK
  BY DEF Init, ResponderInit, ResponderTypeOK, NotServing, Frame, FrameTypes, Unspecified
<1> QED
  BY <1>1, <1>4, <1>5 DEF TypeOK

\* Every action of the initiator keeps the types.
LEMMA InitiatorStepType ==
    ASSUME TypeOK, InitiatorStep \/ InitiatorRxStep \/ DecodeFailure
    PROVE  TypeOK'
<1> USE RepeatsAssumption
<1>1. RadioTypeOK /\ InitiatorTypeOK /\ ResponderTypeOK
  BY DEF TypeOK
<1>2. ResponderTypeOK'
  BY <1>1 DEF InitiatorStep, InitiatorRxStep, DecodeFailure, responderVars, ResponderTypeOK
<1>3. CASE VisitTunedPoint
  <2>1. /\ ipc' = "transmit" /\ call' = "measure" /\ retryCount' = 0
        /\ frame' \in Frame /\ repetition' \in 1..CfRepeat
    BY <1>3, StartMeasurementType DEF VisitTunedPoint
  <2> QED
    BY <1>1, <1>2, <1>3, <2>1
       DEF VisitTunedPoint, TypeOK, RadioTypeOK, InitiatorTypeOK, radioVars, MaxRetry
<1>4. CASE StartHop
  <2>1. frame' \in Frame /\ origin' \in Tuning
    BY <1>1, <1>4, RequestType DEF StartHop, RadioTypeOK
  <2>2. MaxRetry' = 2 /\ retryCount' = 0 /\ attempt' \in 1..TxMaxRetry
    BY <1>4 DEF StartHop, MaxRetry
  <2>3. RadioTypeOK'
    BY <1>1, <1>4 DEF StartHop, RadioTypeOK, radioVars
  <2>4. connectionEstablished' \in BOOLEAN
    BY <1>4, Zenon DEF StartHop
  <2>5. InitiatorTypeOK'
    BY <1>1, <1>4, <2>1, <2>2, <2>4 DEF StartHop, InitiatorTypeOK
  <2> QED
    BY <1>2, <2>3, <2>5 DEF TypeOK
<1>5. CASE Transmit
  <2>1. retryCount' \in 0..MaxRetry /\ MaxRetry' = MaxRetry
    BY <1>1, <1>5 DEF Transmit, InitiatorTypeOK, MaxRetry
  <2>2. frame' \in Frame
    <3>1. frame' = [frame EXCEPT !.tx = retryCount'] /\ frame \in Frame
      BY <1>1, <1>5 DEF Transmit, InitiatorTypeOK
    <3>2. retryCount' \in Nat
      BY <1>1, <1>5 DEF Transmit, InitiatorTypeOK
    <3> QED
      BY <3>1, <3>2 DEF Frame
  <2>3. outbox' \in [Stations -> Seq(Frame)]
    BY <1>5, <2>2, TransmitFrameType DEF Transmit
  <2> QED
    BY <1>1, <1>2, <1>5, <2>1, <2>2, <2>3
       DEF Transmit, TypeOK, RadioTypeOK, InitiatorTypeOK
<1>6. CASE ConfirmHop
  <2>1. Point \in Tuning
    BY <1>1, PointType DEF Point, InitiatorTypeOK
  <2>2. /\ ipc' = "transmit" /\ call' = "measure" /\ retryCount' = 0
        /\ frame' \in Frame /\ repetition' \in 1..CfRepeat
    BY <1>6, StartMeasurementType DEF ConfirmHop
  <2>3. inbox' \in [Stations -> Seq(Frame)]
    BY <1>6, TakeFrameType DEF ConfirmHop
  <2>4. tuning' \in [Stations -> Tuning]
    BY <1>1, <1>6, <2>1 DEF ConfirmHop, ReachPoint, Tune, RadioTypeOK
  <2> QED
    BY <1>1, <1>2, <1>6, <2>2, <2>3, <2>4
       DEF ConfirmHop, TypeOK, RadioTypeOK, InitiatorTypeOK, MaxRetry
<1>7. CASE RecordMeasurement
  <2>1. inbox' \in [Stations -> Seq(Frame)]
    BY <1>7, TakeFrameType DEF RecordMeasurement
  <2>2. total_tx_count' \in Nat /\ dumped' \in Seq(Positions)
    BY <1>1, <1>7 DEF RecordMeasurement, InitiatorTypeOK, MaxRetry
  <2>3. CASE repetition < CfRepeat
    <3>1. repetition + 1 \in 1..CfRepeat /\ StartMeasurement(repetition + 1) /\ at' = at
      BY <1>1, <1>7, <2>3 DEF RecordMeasurement, InitiatorTypeOK
    <3>2. /\ ipc' = "transmit" /\ call' = "measure" /\ retryCount' = 0
          /\ frame' \in Frame /\ repetition' \in 1..CfRepeat
      BY <3>1, StartMeasurementType
    <3> QED
      BY <1>1, <1>2, <1>7, <2>1, <2>2, <3>1, <3>2
         DEF RecordMeasurement, TypeOK, RadioTypeOK, InitiatorTypeOK, MaxRetry
  <2>4. CASE ~(repetition < CfRepeat)
    <3>1. LeavePoint /\ UNCHANGED <<call, frame, retryCount, repetition>>
      BY <1>7, <2>4 DEF RecordMeasurement
    <3>2. at' \in Positions /\ ipc' \in {"visit", "done"}
      BY <3>1, LeaveType
    <3> QED
      BY <1>1, <1>2, <1>7, <2>1, <2>2, <3>1, <3>2
         DEF RecordMeasurement, TypeOK, RadioTypeOK, InitiatorTypeOK, MaxRetry
  <2> QED
    BY <2>3, <2>4
<1>8. CASE Timeout
  BY <1>1, <1>2, <1>8, NoUsableReplyType DEF Timeout, TypeOK, RadioTypeOK
<1>9. CASE RejectReply
  <2>1. inbox' \in [Stations -> Seq(Frame)]
    BY <1>9, TakeFrameType DEF RejectReply
  <2>2. faults' \in 0..MaxFaults
    BY <1>1, <1>9, MaxFaultsAssumption DEF RejectReply, RadioTypeOK
  <2> QED
    BY <1>1, <1>2, <1>9, <2>1, <2>2, NoUsableReplyType DEF RejectReply, TypeOK, RadioTypeOK
<1>10. CASE Overhear
  <2>1. inbox' \in [Stations -> Seq(Frame)]
    BY <1>10, TakeFrameType DEF Overhear
  <2> QED
    BY <1>1, <1>2, <1>10, <2>1
       DEF Overhear, TypeOK, RadioTypeOK, InitiatorTypeOK, initiatorVars, MaxRetry
<1> QED
  BY <1>3, <1>4, <1>5, <1>6, <1>7, <1>8, <1>9, <1>10
     DEF InitiatorStep, InitiatorRxStep, DecodeFailure

\* Every action of the responder keeps the types and the initiator's tuning.
LEMMA ResponderStepType ==
    ASSUME TypeOK, ResponderStep
    PROVE  TypeOK' /\ tuning'["initiator"] = tuning["initiator"]
<1>1. RadioTypeOK /\ InitiatorTypeOK /\ ResponderTypeOK
  BY DEF TypeOK
<1>2. InitiatorTypeOK'
  BY <1>1 DEF ResponderStep, initiatorVars, InitiatorTypeOK, MaxRetry
<1>3. tuning["responder"] \in Tuning
  BY <1>1 DEF RadioTypeOK
<1>4. CASE HandleRequest
  <2> DEFINE f == Head(inbox["responder"])
  <2>1. f \in Frame /\ inbox' \in [Stations -> Seq(Frame)]
    BY <1>4, TakeFrameType DEF HandleRequest
  <2>2. ReplyTo(f) \in Frame
    BY <1>3, <2>1 DEF ReplyTo, Frame, FrameTypes, Tuning
  <2>3. outbox' \in [Stations -> Seq(Frame)]
    BY <1>4, <2>2, TransmitFrameType DEF HandleRequest
  <2>4. rxLog' \subseteq Nat
    BY <1>1, <1>4, <2>1 DEF HandleRequest, ResponderTypeOK, Frame
  <2> QED
    BY <1>1, <1>2, <1>4, <2>1, <2>3, <2>4
       DEF HandleRequest, TypeOK, RadioTypeOK, ResponderTypeOK
<1>5. CASE HandleFreqChangeRequest
  <2> DEFINE f == Head(inbox["responder"])
  <2>1. f \in Frame /\ inbox' \in [Stations -> Seq(Frame)]
    BY <1>5, TakeFrameType DEF HandleFreqChangeRequest
  <2>2. AckOf(f) \in Frame
    BY <2>1 DEF AckOf, Frame, FrameTypes, Unspecified
  <2>3. outbox' \in [Stations -> Seq(Frame)]
    BY <1>5, <2>2, TransmitFrameType DEF HandleFreqChangeRequest
  <2>4. rxLog' \subseteq Nat /\ serving' \in Frame
    BY <1>1, <1>5, <2>1 DEF HandleFreqChangeRequest, ResponderTypeOK, Frame
  <2> QED
    BY <1>1, <1>2, <1>5, <2>1, <2>3, <2>4
       DEF HandleFreqChangeRequest, TypeOK, RadioTypeOK, ResponderTypeOK
<1>6. serving.cf \in Int /\ serving.sf \in Int
  BY <1>1 DEF ResponderTypeOK, Frame
<1>6a. serving.cf > 0 => [tuning["responder"] EXCEPT !.cf = serving.cf] \in Tuning
  BY <1>3, <1>6 DEF Tuning
<1>6b. serving.sf > 0 => [tuning["responder"] EXCEPT !.sf = serving.sf] \in Tuning
  BY <1>3, <1>6 DEF Tuning
<1>7. CASE ShiftCarrierFrequency
  <2>1. /\ tuning' \in [Stations -> Tuning]
        /\ tuning'["initiator"] = tuning["initiator"]
    BY <1>1, <1>6a, <1>7 DEF ShiftCarrierFrequency, Tune, RadioTypeOK
  <2> QED
    BY <1>1, <1>2, <1>7, <2>1
       DEF ShiftCarrierFrequency, TypeOK, RadioTypeOK, ResponderTypeOK
<1>8. CASE ShiftSamplingRate
  <2>1. /\ tuning' \in [Stations -> Tuning]
        /\ tuning'["initiator"] = tuning["initiator"]
    BY <1>1, <1>6b, <1>8 DEF ShiftSamplingRate, Tune, RadioTypeOK
  <2>2. serving' \in Frame
    BY <1>8 DEF ShiftSamplingRate, NotServing, Frame, FrameTypes, Unspecified
  <2> QED
    BY <1>1, <1>2, <1>8, <2>1, <2>2
       DEF ShiftSamplingRate, TypeOK, RadioTypeOK, ResponderTypeOK
<1> QED
  BY <1>4, <1>5, <1>7, <1>8 DEF ResponderStep

\* An emission moves or drops the oldest frame of an outbox.
LEMMA RadioStepType ==
    ASSUME TypeOK, NEW s \in Stations, RadioStep(s)
    PROVE  TypeOK' /\ tuning' = tuning
<1>1. RadioTypeOK /\ InitiatorTypeOK /\ ResponderTypeOK
  BY DEF TypeOK
<1>2. InitiatorTypeOK' /\ ResponderTypeOK'
  BY <1>1 DEF RadioStep, initiatorVars, responderVars, InitiatorTypeOK,
              ResponderTypeOK, MaxRetry
<1>3. outbox[s] # <<>> /\ outbox' = [outbox EXCEPT ![s] = Tail(@)] /\ tuning' = tuning
  BY DEF RadioStep, Emission, Deliver, Miss, Fade, LeaveOutbox
<1>4. Head(outbox[s]) \in Frame /\ Tail(outbox[s]) \in Seq(Frame)
  <2>1. outbox[s] \in Seq(Frame)
    BY <1>1 DEF RadioTypeOK
  <2> QED
    BY <1>3, <2>1
<1>5. outbox' \in [Stations -> Seq(Frame)]
  BY <1>1, <1>3, <1>4 DEF RadioTypeOK
<1>6. CASE Deliver(s)
  <2>1. Peer(s) \in Stations
    BY DEF Peer
  <2>2. Append(inbox[Peer(s)], Head(outbox[s])) \in Seq(Frame)
    BY <1>1, <1>4, <2>1 DEF RadioTypeOK
  <2>3. inbox' \in [Stations -> Seq(Frame)]
    BY <1>1, <1>6, <2>1, <2>2 DEF Deliver, RadioTypeOK
  <2> QED
    BY <1>1, <1>2, <1>3, <1>5, <1>6, <2>3 DEF Deliver, TypeOK, RadioTypeOK
<1>7. CASE Miss(s)
  BY <1>1, <1>2, <1>3, <1>5, <1>7 DEF Miss, TypeOK, RadioTypeOK
<1>8. CASE Fade(s)
  BY <1>1, <1>2, <1>3, <1>5, <1>8, MaxFaultsAssumption DEF Fade, TypeOK, RadioTypeOK
<1> QED
  BY <1>6, <1>7, <1>8 DEF RadioStep, Emission

\* A stuttering step changes nothing the type invariant mentions.
LEMMA StutterType == ASSUME TypeOK, UNCHANGED vars PROVE TypeOK'
BY DEF vars, radioVars, initiatorVars, responderVars, TypeOK, RadioTypeOK,
       InitiatorTypeOK, ResponderTypeOK, MaxRetry

-----------------------------------------------------------------------------
(***************************************************************************)
(* The variables of both stations and of the air keep their types: no      *)
(* retry counter runs past its limit, the loops stay inside the scan, and  *)
(* no front end is ever set to an unspecified frequency.                   *)
(***************************************************************************)
THEOREM TypeCorrect == Spec => []TypeOK
<1>1. Init => TypeOK
  BY InitType
<1>2. TypeOK /\ [Next]_vars => TypeOK'
  <2> SUFFICES ASSUME TypeOK, [Next]_vars PROVE TypeOK'
    OBVIOUS
  <2>1. CASE InitiatorStep \/ InitiatorRxStep \/ DecodeFailure
    BY <2>1, InitiatorStepType
  <2>2. CASE ResponderStep
    BY <2>2, ResponderStepType
  <2>3. CASE \E s \in Stations : RadioStep(s)
    BY <2>3, RadioStepType
  <2>4. CASE Finished \/ UNCHANGED vars
    BY <2>4, StutterType DEF Finished
  <2> QED
    BY <2>1, <2>2, <2>3, <2>4 DEF Next
<1> QED
  BY <1>1, <1>2, PTL DEF Spec

(***************************************************************************)
(* While a measurement is under way, in transmitAndSyncRxUnified, the      *)
(* front end of the initiator is at the scan point of the loops.  The type *)
(* invariant is all the strengthening it takes: each way into the          *)
(* measurement loop checks or sets the tuning, and only a hop changes it.  *)
(***************************************************************************)
THEOREM MeasuresAtPoint == Spec => []MeasuringAtPoint
<1>1. Init => MeasuringAtPoint
  BY DEF Init, InitiatorInit, MeasuringAtPoint
<1>2. TypeOK /\ MeasuringAtPoint /\ [Next]_vars => MeasuringAtPoint'
  <2> SUFFICES ASSUME TypeOK, MeasuringAtPoint, [Next]_vars PROVE MeasuringAtPoint'
    OBVIOUS
  <2> USE DEF MeasuringAtPoint, Point
  <2>1. CASE VisitTunedPoint
    BY <2>1 DEF VisitTunedPoint, radioVars, PointOf
  <2>2. CASE StartHop
    BY <2>2 DEF StartHop
  <2>3. CASE Transmit
    BY <2>3 DEF Transmit, PointOf
  <2>4. CASE ConfirmHop
    BY <2>4 DEF ConfirmHop, ReachPoint, Tune, PointOf, TypeOK, RadioTypeOK
  <2>5. CASE RecordMeasurement
    <3>1. CASE repetition < CfRepeat
      BY <2>5, <3>1 DEF RecordMeasurement, StartMeasurement, PointOf
    <3>2. CASE ~(repetition < CfRepeat)
      BY <2>5, <3>2, LeaveType DEF RecordMeasurement
    <3> QED
      BY <3>1, <3>2
  <2>6. CASE Timeout \/ RejectReply
    <3>1. ipc = "await" /\ NoUsableReply
      BY <2>6 DEF Timeout, RejectReply
    <3> QED
      BY <3>1, NoUsableReplyType DEF PointOf
  <2>7. CASE Overhear
    BY <2>7 DEF Overhear, initiatorVars, PointOf
  <2>8. CASE ResponderStep
    BY <2>8, ResponderStepType DEF ResponderStep, initiatorVars, PointOf
  <2>9. CASE \E s \in Stations : RadioStep(s)
    BY <2>9, RadioStepType DEF RadioStep, initiatorVars, PointOf
  <2>10. CASE Finished \/ UNCHANGED vars
    BY <2>10 DEF Finished, vars, radioVars, initiatorVars, PointOf
  <2> QED
    BY <2>1, <2>2, <2>3, <2>4, <2>5, <2>6, <2>7, <2>8, <2>9, <2>10
       DEF Next, InitiatorStep, InitiatorRxStep, DecodeFailure
<1> QED
  BY <1>1, <1>2, TypeCorrect, PTL DEF Spec
=============================================================================
