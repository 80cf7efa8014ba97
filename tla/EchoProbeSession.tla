-------------------------- MODULE EchoProbeSession --------------------------
(***************************************************************************)
(* An EchoProbe measurement: one initiator, one responder and the radio    *)
(* medium between them, interleaved.                                       *)
(***************************************************************************)
EXTENDS EchoProbeInitiator, EchoProbeResponder

CONSTANT
    Timely    \* TRUE: every timeout and pause outlasts what it waits for

ASSUME TimelyAssumption == Timely \in BOOLEAN

vars == <<radioVars, initiatorVars, responderVars>>

Init == RadioInit /\ InitiatorInit /\ ResponderInit

(***************************************************************************)
(* The code paces itself with a receive timeout and with pauses.  Without  *)
(* Timely they may end at any moment.  With it, a receive times out only   *)
(* when no frame is under way and the responder is at rest, and the        *)
(* responder retunes only when its answers are on the air.                 *)
(***************************************************************************)
TimeoutAllowed == Timely => Quiet /\ rpc = "idle"

ShiftAllowed == Timely => outbox["responder"] = <<>>

InitiatorStep ==
    /\ \/ VisitTunedPoint
       \/ StartHop
       \/ Transmit
       \/ ConfirmHop
       \/ RecordMeasurement
       \/ TimeoutAllowed /\ Timeout
    /\ UNCHANGED responderVars

InitiatorRxStep == Overhear /\ UNCHANGED responderVars

DecodeFailure == RejectReply /\ UNCHANGED responderVars

ResponderStep ==
    /\ \/ HandleRequest
       \/ HandleFreqChangeRequest
       \/ ShiftAllowed /\ ShiftCarrierFrequency
       \/ ShiftAllowed /\ ShiftSamplingRate
    /\ UNCHANGED initiatorVars

RadioStep(s) == Emission(s) /\ UNCHANGED <<initiatorVars, responderVars>>

\* The job has returned and the responder waits for another initiator.
Finished ==
    /\ ipc = "done" /\ rpc = "idle" /\ Quiet
    /\ UNCHANGED vars

Next ==
    \/ InitiatorStep
    \/ InitiatorRxStep
    \/ DecodeFailure
    \/ ResponderStep
    \/ \E s \in Stations : RadioStep(s)
    \/ Finished

Spec == Init /\ [][Next]_vars

(***************************************************************************)
(* Both threads run, the front ends emit what they hold and a receive that *)
(* gets nothing times out.  No frame is ever promised to be heard.         *)
(***************************************************************************)
Fairness ==
    /\ WF_vars(InitiatorStep)
    /\ WF_vars(InitiatorRxStep)
    /\ WF_vars(ResponderStep)
    /\ \A s \in Stations : WF_vars(RadioStep(s))

FairSpec == Spec /\ Fairness

-----------------------------------------------------------------------------
(* Invariants                                                              *)

\* The types of the variables of the initiator, the responder and the NICs.
TypeOK == RadioTypeOK /\ InitiatorTypeOK /\ ResponderTypeOK

\* t after a frequency-change request for f.cf and f.sf is carried out.
Overlay(t, f) ==
    [cf |-> IF f.cf > 0 THEN f.cf ELSE t.cf,
     sf |-> IF f.sf > 0 THEN f.sf ELSE t.sf]

\* Where the responder is once the request it is serving is carried out.
HeadedFor == Overlay(tuning["responder"], serving)

FramesIn(queue) == {queue[i] : i \in DOMAIN queue}

\* The frequency-change requests the responder has yet to handle.
PendingChanges ==
    {f \in FramesIn(inbox["responder"]) \cup FramesIn(outbox["initiator"]) :
        f.type = "EchoProbeFreqChangeRequest"}

(***************************************************************************)
(* Once the initiator took a hop for confirmed (connectionEstablished in   *)
(* unifiedEchoProbeWork), and until it starts the next one, the responder  *)
(* is at the initiator's tuning or on its way there, and no late request   *)
(* of this or an earlier hop can take it away: whichever transmission the  *)
(* ACK answered, at whichever of the two tunings it was heard.             *)
(***************************************************************************)
ConfirmedHopIsShared ==
    connectionEstablished =>
        /\ HeadedFor = tuning["initiator"]
        /\ \A f \in PendingChanges : Overlay(HeadedFor, f) = HeadedFor

(***************************************************************************)
(* While a measurement is under way the initiator's front end is at the    *)
(* scan point of the loops: no path through the hop, its retries and its   *)
(* retreats reaches the measurement loop at another tuning.                *)
(***************************************************************************)
MeasuringAtPoint ==
    call = "measure" /\ ipc \in {"transmit", "await"} =>
        tuning["initiator"] = Point

-----------------------------------------------------------------------------
(* Action properties                                                       *)

(***************************************************************************)
(* A frame is dumped for a scan point only if it answers a measurement     *)
(* request that the responder handled, and logged on its side, while tuned *)
(* to that point: never a late reply of an earlier point, nor an ACK.      *)
(***************************************************************************)
MeasuredWhereClaimed ==
    [][dumped' # dumped =>
        LET reply == Head(inbox["initiator"]) IN
        /\ reply.type = "EchoProbeReply"
        /\ [cf |-> reply.cf, sf |-> reply.sf] = PointOf(dumped'[Len(dumped')])
        /\ reply.task \in rxLog]_vars

(***************************************************************************)
(* The time reported as round-trip delay (EchoProbeInitiator.cxx:288) is   *)
(* taken from the last transmission, tx_time, to the reply; it is the      *)
(* round trip only if the reply answers that transmission.                 *)
(***************************************************************************)
DelayIsRoundTrip ==
    [][dumped' # dumped => Head(inbox["initiator"]).tx = frame.tx]_vars

-----------------------------------------------------------------------------
(* Refinement and liveness                                                 *)

Campaign == INSTANCE MeasurementCampaign
                WITH Rounds <- RoundRepeat, NumSf <- Len(SfList),
                     NumCf <- Len(CfList), Repeats <- CfRepeat, log <- dumped

(***************************************************************************)
(* The frames the initiator dumps form a measurement campaign: the order   *)
(* of the loops, the repetitions and what a failure skips.                 *)
(***************************************************************************)
ImplementsCampaign == Campaign!Spec

\* The job returns, whatever is lost: no wait of either station is endless.
JobTerminates == <>(ipc = "done")

ScanComplete ==
    Len(dumped) = RoundRepeat * Len(SfList) * Len(CfList) * CfRepeat

(***************************************************************************)
(* With timely timeouts and at most TxMaxRetry - 2 losses the scan is not  *)
(* only terminated but complete.  The request sent right after a confirmed *)
(* hop may still find the responder at the old tuning, which costs one     *)
(* transmission without any loss.                                          *)
(***************************************************************************)
SurvivesLosses == <>(ipc = "done" /\ (ScanComplete \/ faults > TxMaxRetry - 2))

\* The frames dumped in round r.
RoundSize(r) == Len(SelectSeq(dumped, LAMBDA p : p.round = r))

(***************************************************************************)
(* A round in which nothing is lost measures all its points, even if       *)
(* earlier rounds failed (changelog.md:5, "Fix connection lost bug during  *)
(* freq shifting").                                                        *)
(***************************************************************************)
LaterRoundsRecover ==
    \A r \in 1..RoundRepeat, n \in 0..MaxFaults :
        (/\ faults = n
         /\ ipc = "visit"
         /\ at = [round |-> r, sf |-> 1, cf |-> 1])
            ~> (faults > n \/ RoundSize(r) = Len(SfList) * Len(CfList) * CfRepeat)
=============================================================================
