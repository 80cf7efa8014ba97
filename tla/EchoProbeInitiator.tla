------------------------- MODULE EchoProbeInitiator -------------------------
(***************************************************************************)
(* The initiator of an EchoProbe measurement: the thread that runs         *)
(* EchoProbeInitiator::unifiedEchoProbeWork in the EchoProbeInitiator mode *)
(* and, inside it, transmitAndSyncRxUnified.                               *)
(*                                                                         *)
(* For every round, sampling rate and carrier frequency it first moves     *)
(* both stations to the scan point (a frequency-change request that the    *)
(* responder acknowledges, tried in turn at the present and at the new     *)
(* tuning) and then makes cf_repeat round-trip measurements there.         *)
(***************************************************************************)
EXTENDS EchoProbeRadio

CONSTANTS
    SfList,        \* result of enumerateSamplingRates
    CfList,        \* result of enumerateCarrierFrequencies
    RoundRepeat,   \* parameters.round_repeat
    CfRepeat,      \* parameters.cf_repeat
    TxMaxRetry,    \* parameters.tx_max_retry
    FullPayload    \* replyStrategy = ReplyWithFullPayload: the reply embeds
                   \* a packet that has to be decoded

ASSUME ScanListsAssumption ==
    /\ SfList \in Seq(Nat \ {0}) /\ SfList # <<>>
    /\ CfList \in Seq(Nat \ {0}) /\ CfList # <<>>
ASSUME RepeatsAssumption ==
    /\ RoundRepeat \in Nat \ {0}
    /\ CfRepeat \in Nat \ {0}
    /\ TxMaxRetry \in Nat \ {0}
ASSUME FullPayloadAssumption == FullPayload \in BOOLEAN

VARIABLES
    ipc,                    \* where the initiator thread is
    call,                   \* which call of transmitAndSyncRxUnified it is in
    at,                     \* ri and the indices of sf_value and cf_value
    frame,                  \* txframe, the frame of the current task
    retryCount,             \* transmissions made by the current call
    attempt,                \* i of the frequency-change loop, from 1
    origin,                 \* currentCF and currentSF
    connectionEstablished,  \* set by a hop, kept until the next hop starts
    repetition,             \* i of the cf_repeat loop, from 1
    total_tx_count,
    dumped                  \* the points FrameDumper received a frame for

initiatorVars == <<ipc, call, at, frame, retryCount, attempt, origin,
                   connectionEstablished, repetition, total_tx_count, dumped>>

(***************************************************************************)
(* visit    : the head of the loop body for one scan point                 *)
(* transmit : the retry loop is about to transmit frame                    *)
(* await    : blocked in syncRxConditionally                               *)
(* done     : the job has returned                                         *)
(***************************************************************************)
InitiatorPcs == {"visit", "transmit", "await", "done"}

(***************************************************************************)
(* current : frequency-change request at the tuning both stations have     *)
(* next    : the same request once more at the tuning of the scan point    *)
(* measure : one round-trip measurement                                    *)
(***************************************************************************)
Calls == {"current", "next", "measure"}

Positions == [round : 1..RoundRepeat, sf : 1..Len(SfList), cf : 1..Len(CfList)]

\* The tuning of a scan point.
PointOf(p) == [cf |-> CfList[p.cf], sf |-> SfList[p.sf]]

Point == PointOf(at)

\* maxRetry: the hops pass 2, a measurement uses the parameter.
MaxRetry == IF call = "measure" THEN TxMaxRetry ELSE 2

InitiatorInit ==
    /\ ipc = "visit"
    /\ call = "measure"
    /\ at = [round |-> 1, sf |-> 1, cf |-> 1]
    /\ frame = [type |-> "EchoProbeRequest", task |-> 0, tx |-> 0,
                cf |-> Unspecified, sf |-> Unspecified]
    /\ retryCount = 0
    /\ attempt = 1
    /\ origin = tuning["initiator"]
    /\ connectionEstablished = FALSE
    /\ repetition = 1
    /\ total_tx_count = 0
    /\ dumped = <<>>

-----------------------------------------------------------------------------
(* The frame of a new task.  Task ids are drawn at random from 55537 values; *)
(* the model draws ids that do not repeat.                                  *)

BasicFrame(type) ==
    [type |-> type, task |-> frame.task + 1, tx |-> 0,
     cf |-> Unspecified, sf |-> Unspecified]

MeasureRequest == BasicFrame("EchoProbeRequest")

\* Mutant: newSF is not put into the request.
FreqChangeRequestCFOnly ==
    [BasicFrame("EchoProbeFreqChangeRequest") EXCEPT
        !.cf = IF Point.cf # tuning["initiator"].cf THEN Point.cf ELSE @]

\* The EchoProbeRequestSegment holds the frequencies that change.
FreqChangeRequest ==
    [BasicFrame("EchoProbeFreqChangeRequest") EXCEPT
        !.cf = IF Point.cf # tuning["initiator"].cf THEN Point.cf ELSE @,
        !.sf = IF Point.sf # tuning["initiator"].sf THEN Point.sf ELSE @]

\* The body of the cf_repeat loop up to its call of transmitAndSyncRxUnified.
StartMeasurement(i) ==
    /\ repetition' = i
    /\ frame' = MeasureRequest
    /\ call' = "measure"
    /\ retryCount' = 0
    /\ ipc' = "transmit"

\* Mutant: a failure is followed by the next sampling rate of the round.
LeaveRateOnly ==
    IF at.sf < Len(SfList)
    THEN at' = [at EXCEPT !.sf = @ + 1, !.cf = 1] /\ ipc' = "visit"
    ELSE IF at.round < RoundRepeat
         THEN at' = [round |-> at.round + 1, sf |-> 1, cf |-> 1] /\ ipc' = "visit"
         ELSE ipc' = "done" /\ UNCHANGED at

\* The loops advance after the last scan point of a round, or past a failure.
LeaveRound ==
    IF at.round < RoundRepeat
    THEN /\ at' = [round |-> at.round + 1, sf |-> 1, cf |-> 1]
         /\ ipc' = "visit"
    ELSE /\ ipc' = "done"
         /\ UNCHANGED at

LeavePoint ==
    IF at.cf < Len(CfList)
    THEN at' = [at EXCEPT !.cf = @ + 1] /\ ipc' = "visit"
    ELSE IF at.sf < Len(SfList)
         THEN at' = [at EXCEPT !.sf = @ + 1, !.cf = 1] /\ ipc' = "visit"
         ELSE LeaveRound

-----------------------------------------------------------------------------
(* The loop body, to its first call.                                       *)

\* The NIC has the tuning of the scan point already: no request is sent.
VisitTunedPoint ==
    /\ ipc = "visit"
    /\ tuning["initiator"] = Point
    /\ StartMeasurement(1)
    /\ UNCHANGED <<radioVars, at, attempt, origin, connectionEstablished,
                   total_tx_count, dumped>>

\* shiftCF || shiftSF
StartHop ==
    /\ ipc = "visit"
    /\ tuning["initiator"] # Point
    /\ frame' = FreqChangeRequest
    /\ origin' = tuning["initiator"]
    /\ connectionEstablished' = FALSE
    /\ attempt' = 1
    /\ call' = "current"
    /\ retryCount' = 0
    /\ ipc' = "transmit"
    /\ UNCHANGED <<radioVars, at, repetition, total_tx_count, dumped>>

-----------------------------------------------------------------------------
(* transmitAndSyncRxUnified.  The txId of a transmission is drawn at random *)
(* from 65436 values; the model numbers the transmissions of a call.        *)

Transmit ==
    /\ ipc = "transmit"
    /\ retryCount' = retryCount + 1
    /\ frame' = [frame EXCEPT !.tx = retryCount']
    /\ TransmitFrame("initiator", frame')
    /\ ipc' = "await"
    /\ UNCHANGED <<tuning, inbox, faults, call, at, attempt, origin,
                   connectionEstablished, repetition, total_tx_count, dumped>>

\* Mutant: the task id is not compared.
AcceptsAnyTask(f) == f.type \in {"EchoProbeReply", "EchoProbeFreqChangeACK"}

\* The condition of syncRxConditionally: the type and the task id, not the txId.
Accepts(f) ==
    /\ f.type \in {"EchoProbeReply", "EchoProbeFreqChangeACK"}
    /\ f.task = frame.task

\* A frame nobody waits for: the initiator's rxHandle ignores it.
Overhear ==
    /\ TakeFrame("initiator")
    /\ ~(ipc = "await" /\ Accepts(Head(inbox["initiator"])))
    /\ UNCHANGED <<tuning, outbox, faults, initiatorVars>>

\* Mutant: the front end is not retuned.
StayAtOrigin == UNCHANGED tuning

\* Both frequencies that differ are set to those of the scan point.
ReachPoint == Tune("initiator", Point)

\* A reply arrived for a frequency change, at either tuning.
ConfirmHop ==
    /\ ipc = "await"
    /\ call \in {"current", "next"}
    /\ TakeFrame("initiator")
    /\ Accepts(Head(inbox["initiator"]))
    /\ ReachPoint
    /\ connectionEstablished' = TRUE
    /\ StartMeasurement(1)
    /\ UNCHANGED <<outbox, faults, at, attempt, origin, total_tx_count, dumped>>

\* A reply arrived for a measurement: it is counted and dumped.
RecordMeasurement ==
    /\ ipc = "await"
    /\ call = "measure"
    /\ TakeFrame("initiator")
    /\ Accepts(Head(inbox["initiator"]))
    /\ total_tx_count' = total_tx_count + retryCount
    /\ dumped' = Append(dumped, at)
    /\ IF repetition < CfRepeat
       THEN StartMeasurement(repetition + 1) /\ UNCHANGED at
       ELSE LeavePoint /\ UNCHANGED <<call, frame, retryCount, repetition>>
    /\ UNCHANGED <<tuning, outbox, faults, attempt, origin, connectionEstablished>>

-----------------------------------------------------------------------------
(* What an attempt without a usable reply leads to.                        *)

\* Mutants: one transmission too many, one too few.
ExhaustedLate == retryCount > MaxRetry
ExhaustedEarly == retryCount >= MaxRetry - 1

\* retryCount++ < maxRetry is false.
Exhausted == retryCount = MaxRetry

RetryTransmission ==
    /\ ~Exhausted
    /\ ipc' = "transmit"
    /\ UNCHANGED <<tuning, call, at, retryCount, attempt>>

\* The request may have been heard and its ACK lost: try it at the new tuning.
TryTargetTuning ==
    /\ Exhausted
    /\ call = "current"
    /\ ReachPoint
    /\ call' = "next"
    /\ retryCount' = 0
    /\ ipc' = "transmit"
    /\ UNCHANGED <<at, attempt>>

\* Mutant: the attempts are not counted.
RetreatUncounted ==
    /\ Exhausted
    /\ call = "next"
    /\ Tune("initiator", origin)
    /\ call' = "current"
    /\ retryCount' = 0
    /\ ipc' = "transmit"
    /\ UNCHANGED <<at, attempt>>

\* Back to the old tuning, for another attempt or, after the last, to failed.
RetreatToOrigin ==
    /\ Exhausted
    /\ call = "next"
    /\ Tune("initiator", origin)
    /\ IF attempt < TxMaxRetry
       THEN /\ attempt' = attempt + 1
            /\ call' = "current"
            /\ retryCount' = 0
            /\ ipc' = "transmit"
            /\ UNCHANGED at
       ELSE LeaveRound /\ UNCHANGED <<attempt, call, retryCount>>

\* Mutant: a failed measurement takes back the hop that was confirmed.
AbandonAndRetreat ==
    /\ Exhausted
    /\ call = "measure"
    /\ LeaveRound
    /\ Tune("initiator", origin)
    /\ UNCHANGED <<call, retryCount, attempt>>

\* goto failed: the rest of the round is given up.
AbandonMeasurement ==
    /\ Exhausted
    /\ call = "measure"
    /\ LeaveRound
    /\ UNCHANGED <<tuning, call, retryCount, attempt>>

NoUsableReply ==
    /\ \/ RetryTransmission
       \/ TryTargetTuning
       \/ RetreatToOrigin
       \/ AbandonMeasurement
    /\ UNCHANGED <<outbox, frame, origin, connectionEstablished, repetition,
                   total_tx_count, dumped>>

\* syncRxConditionally returned without a frame.
Timeout ==
    /\ ipc = "await"
    /\ NoUsableReply
    /\ UNCHANGED <<inbox, faults>>

\* The packet embedded in a full-payload reply does not decode.
RejectReply ==
    /\ ipc = "await"
    /\ FullPayload
    /\ TakeFrame("initiator")
    /\ Accepts(Head(inbox["initiator"]))
    /\ Head(inbox["initiator"]).type = "EchoProbeReply"
    /\ faults < MaxFaults
    /\ faults' = faults + 1
    /\ NoUsableReply

InitiatorTypeOK ==
    /\ ipc \in InitiatorPcs
    /\ call \in Calls
    /\ at \in Positions
    /\ frame \in Frame
    /\ retryCount \in 0..MaxRetry
    /\ ipc = "transmit" => retryCount < MaxRetry
    /\ attempt \in 1..TxMaxRetry
    /\ origin \in Tuning
    /\ connectionEstablished \in BOOLEAN
    /\ repetition \in 1..CfRepeat
    /\ total_tx_count \in Nat
    /\ dumped \in Seq(Positions)
=============================================================================
