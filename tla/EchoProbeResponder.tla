------------------------- MODULE EchoProbeResponder -------------------------
(***************************************************************************)
(* The responder of an EchoProbe measurement: EchoProbeResponder::handle   *)
(* in the EchoProbeResponder mode, called by the platform for one received *)
(* frame after the other.  It logs every request, answers it at once and,  *)
(* for a frequency change, retunes its front end after a pause.            *)
(***************************************************************************)
EXTENDS EchoProbeRadio

VARIABLES
    rpc,      \* where the handler is
    serving,  \* the frequency-change request it is working on
    rxLog     \* task ids of the requests FrameDumper received

responderVars == <<rpc, serving, rxLog>>

(***************************************************************************)
(* idle    : the handler has returned                                      *)
(* shiftCF : the ACK is queued; asleep before the carrier frequency is set *)
(* shiftSF : asleep before the sampling rate is set                        *)
(***************************************************************************)
ResponderPcs == {"idle", "shiftCF", "shiftSF"}

NotServing == [type |-> "EchoProbeFreqChangeRequest", task |-> 0, tx |-> 0,
               cf |-> Unspecified, sf |-> Unspecified]

ResponderInit ==
    /\ rpc = "idle"
    /\ serving = NotServing
    /\ rxLog = {}

\* A reply echoes both ids; its ExtraInfoSegment holds the responder's tuning.
ReplyTo(f) ==
    [type |-> "EchoProbeReply", task |-> f.task, tx |-> f.tx,
     cf |-> tuning["responder"].cf, sf |-> tuning["responder"].sf]

AckOf(f) ==
    [type |-> "EchoProbeFreqChangeACK", task |-> f.task, tx |-> f.tx,
     cf |-> Unspecified, sf |-> Unspecified]

HandleRequest ==
    /\ rpc = "idle"
    /\ TakeFrame("responder")
    /\ LET f == Head(inbox["responder"]) IN
        /\ f.type = "EchoProbeRequest"
        /\ rxLog' = rxLog \cup {f.task}
        /\ TransmitFrame("responder", ReplyTo(f))
    /\ UNCHANGED <<tuning, faults, rpc, serving>>

HandleFreqChangeRequest ==
    /\ rpc = "idle"
    /\ TakeFrame("responder")
    /\ LET f == Head(inbox["responder"]) IN
        /\ f.type = "EchoProbeFreqChangeRequest"
        /\ rxLog' = rxLog \cup {f.task}
        /\ TransmitFrame("responder", AckOf(f))
        /\ serving' = f
    /\ rpc' = "shiftCF"
    /\ UNCHANGED <<tuning, faults>>

\* The pauses of delay_after_cf_change_ms are over.
ShiftCarrierFrequency ==
    /\ rpc = "shiftCF"
    /\ IF serving.cf > 0 /\ tuning["responder"].cf # serving.cf
       THEN Tune("responder", [tuning["responder"] EXCEPT !.cf = serving.cf])
       ELSE UNCHANGED tuning
    /\ rpc' = "shiftSF"
    /\ UNCHANGED <<outbox, inbox, faults, serving, rxLog>>

ShiftSamplingRate ==
    /\ rpc = "shiftSF"
    /\ IF serving.sf > 0 /\ tuning["responder"].sf # serving.sf
       THEN Tune("responder", [tuning["responder"] EXCEPT !.sf = serving.sf])
       ELSE UNCHANGED tuning
    /\ rpc' = "idle"
    /\ serving' = NotServing
    /\ UNCHANGED <<outbox, inbox, faults, rxLog>>

ResponderTypeOK ==
    /\ rpc \in ResponderPcs
    /\ serving \in Frame
    /\ rxLog \subseteq Nat
=============================================================================
