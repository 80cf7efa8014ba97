--------------------------- MODULE EchoProbeRadio ---------------------------
(***************************************************************************)
(* The two NICs of an EchoProbe measurement and the air between them, as   *)
(* the plugin uses them.  The NIC classes belong to the PicoScenes         *)
(* platform and not to this repository: the module is modelled from the    *)
(* calls plugin-echoprobe makes (transmitPicoScenesFrame,                  *)
(* syncRxConditionally, rxHandle, setCarrierFrequency, setSamplingRate).   *)
(*                                                                         *)
(*  - transmitPicoScenesFrame is asynchronous: a frame waits in the outbox *)
(*    of its station until the front end emits it;                         *)
(*  - a frame is emitted at the tuning its station has at that moment and  *)
(*    is heard only by a station with the same carrier frequency and the   *)
(*    same sampling rate;                                                  *)
(*  - a frame that is heard waits in the inbox of its receiver until the   *)
(*    platform hands it to the plugin, in the order of arrival;            *)
(*  - at most MaxFaults frames are lost although the tunings agree.        *)
(***************************************************************************)
EXTENDS Integers, Sequences

CONSTANTS
    StartTunings,   \* tunings a measurement may start from, the same for both stations
    MaxFaults       \* bound on the frames the medium or a decoder loses

Tuning == [cf : Nat \ {0}, sf : Nat \ {0}]

ASSUME StartTuningsAssumption == StartTunings \subseteq Tuning
ASSUME MaxFaultsAssumption == MaxFaults \in Nat

VARIABLES
    tuning,   \* carrier frequency and sampling rate of each station's front end
    outbox,   \* frames handed to the NIC and not yet emitted
    inbox,    \* frames heard and not yet handed to the plugin
    faults    \* number of frames lost so far

radioVars == <<tuning, outbox, inbox, faults>>

Stations == {"initiator", "responder"}

Peer(s) == IF s = "initiator" THEN "responder" ELSE "initiator"

(***************************************************************************)
(* The fields of a frame the protocol reads: its type, the task and        *)
(* transmission ids of its PicoScenesHeader, and a carrier frequency and   *)
(* sampling rate, -1 where the segment that would hold them has none.      *)
(***************************************************************************)
FrameTypes == {"EchoProbeRequest", "EchoProbeReply",
               "EchoProbeFreqChangeRequest", "EchoProbeFreqChangeACK"}

Frame == [type : FrameTypes, task : Nat, tx : Nat, cf : Int, sf : Int]

Unspecified == -1

RadioInit ==
    /\ \E t \in StartTunings : tuning = [s \in Stations |-> t]
    /\ outbox = [s \in Stations |-> <<>>]
    /\ inbox = [s \in Stations |-> <<>>]
    /\ faults = 0

\* nic->transmitPicoScenesFrame(f)
TransmitFrame(s, f) == outbox' = [outbox EXCEPT ![s] = Append(@, f)]

\* frontEnd->setSamplingRate(t.sf); frontEnd->setCarrierFrequency(t.cf)
Tune(s, t) == tuning' = [tuning EXCEPT ![s] = t]

\* The platform hands the oldest frame heard by s to the plugin.
TakeFrame(s) ==
    /\ inbox[s] # <<>>
    /\ inbox' = [inbox EXCEPT ![s] = Tail(@)]

LeaveOutbox(s) ==
    /\ outbox[s] # <<>>
    /\ outbox' = [outbox EXCEPT ![s] = Tail(@)]

\* The frame is emitted and heard.
Deliver(s) ==
    /\ LeaveOutbox(s)
    /\ tuning[s] = tuning[Peer(s)]
    /\ inbox' = [inbox EXCEPT ![Peer(s)] = Append(@, Head(outbox[s]))]
    /\ UNCHANGED <<tuning, faults>>

\* The frame is emitted while the peer listens elsewhere.
Miss(s) ==
    /\ LeaveOutbox(s)
    /\ tuning[s] # tuning[Peer(s)]
    /\ UNCHANGED <<tuning, inbox, faults>>

\* The tunings agree, but the frame fades or its preamble is not detected.
Fade(s) ==
    /\ LeaveOutbox(s)
    /\ tuning[s] = tuning[Peer(s)]
    /\ faults < MaxFaults
    /\ faults' = faults + 1
    /\ UNCHANGED <<tuning, inbox>>

Emission(s) == Deliver(s) \/ Miss(s) \/ Fade(s)

\* Nothing is on its way in either direction.
Quiet == \A s \in Stations : outbox[s] = <<>> /\ inbox[s] = <<>>

RadioTypeOK ==
    /\ tuning \in [Stations -> Tuning]
    /\ outbox \in [Stations -> Seq(Frame)]
    /\ inbox \in [Stations -> Seq(Frame)]
    /\ faults \in 0..MaxFaults
=============================================================================
