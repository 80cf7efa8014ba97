--------------------------- MODULE EchoProbeWork ----------------------------
(***************************************************************************)
(* EchoProbeInitiator::unifiedEchoProbeWork on one station, in all its     *)
(* modes: the injector and the radar, frame by frame and in batches, the   *)
(* channel hopping of the logger, and the loops that do nothing for a      *)
(* responder.  The round trips of the EchoProbeInitiator mode, which need  *)
(* a peer, are the subject of EchoProbeSession; here one of them is a      *)
(* single step.                                                            *)
(***************************************************************************)
EXTENDS ScanPlan, Float32

CONSTANTS
    ArbitraryRates,    \* the device type is QCA9300 or USRP
    SplitParts,        \* frames autoSplit makes of one frame with its payload
    DefaultChannels,   \* wifiChannelsHz if there is no custom list
    HomeTuning         \* the tuning of the front end in the beginning

Tuning == [cf : Int, sf : Int]

ASSUME WorkAssumption ==
    /\ ArbitraryRates \in BOOLEAN
    /\ SplitParts \in Nat \ {0}
    /\ DefaultChannels \in Seq(Int) /\ DefaultChannels # <<>>
    /\ HomeTuning \in Tuning

VARIABLES
    jpc,       \* where the job is
    job,       \* EchoProbeInitiator::parameters
    sfList, cfList,
    at,        \* ri and the indices of sf_value and cf_value
    sent,      \* i of the cf_repeat loop, or freqIdx of the logger
    prebuilt,  \* prebuiltFrames
    tuned,     \* the tuning of the front end
    air        \* history: the frames of the job on the air, with their tunings

workVars == <<jpc, job, sfList, cfList, at, sent, prebuilt, tuned, air>>

(***************************************************************************)
(* idle     : no job yet                                                   *)
(* hop      : the endless loop of the logger                               *)
(* visit    : the head of the loop body; the sampling rate may change      *)
(* shiftCF  : the carrier frequency may change                             *)
(* inject   : the cf_repeat loop                                           *)
(* returned, threw : the job has ended                                     *)
(***************************************************************************)
WorkPcs == {"idle", "hop", "visit", "shiftCF", "inject", "returned", "threw"}

Modes == {"Standby", "Injector", "Logger", "EchoProbeInitiator",
          "EchoProbeResponder", "Radar"}

Injecting == {"Injector", "Radar"}

\* The parameters after construction.  repeat and round have default options.
Parameters ==
    [workingMode |-> "Standby", napa |-> FALSE, ndpContent |-> FALSE,
     useBatchAPI |-> FALSE, batchLength |-> 1, outputFileName |-> Unset,
     cf |-> NoRange, sf |-> NoRange, cf_repeat |-> 1, round_repeat |-> 1,
     logger_cf_interval_ms |-> 0, custom_channels |-> <<>>]

WorkInit ==
    /\ jpc = "idle"
    /\ job = Parameters
    /\ sfList = <<>> /\ cfList = <<>>
    /\ at = [round |-> 1, sf |-> 1, cf |-> 1]
    /\ sent = 0
    /\ prebuilt = <<>>
    /\ tuned = HomeTuning
    /\ air = <<>>

Point == [cf |-> cfList[at.cf], sf |-> sfList[at.sf]]

\* wifiChannelsHz
Channels == IF job.custom_channels # <<>> THEN job.custom_channels ELSE DefaultChannels

-----------------------------------------------------------------------------
(* Frames.  A frame is its kind: an NDP announcement, which precedes an NDP *)
(* frame, an NDP, or a data frame, which may have to be split.              *)

DataFrame(p) == IF p.napa \/ p.ndpContent THEN "NDP" ELSE "data"

\* What is transmitted for one injection outside a batch.
InjectedFrames(p) == IF p.napa THEN <<"NDPA", DataFrame(p)>> ELSE <<DataFrame(p)>>

Times(n, s) == [k \in 1..n * Len(s) |-> s[((k - 1) % Len(s)) + 1]]

\* buildBatchFrames
BatchFrames(p) ==
    LET n     == IF p.cf_repeat > p.batchLength THEN p.batchLength ELSE p.cf_repeat
        parts == IF DataFrame(p) = "data" THEN SplitParts ELSE 1
    IN  Times(n, (IF p.napa THEN <<"NDPA">> ELSE <<>>) \o Times(parts, <<DataFrame(p)>>))

\* Mutant: the quotient is rounded down.
BatchRepeatsDown == job.cf_repeat \div Len(prebuilt)

\* std::ceil(1.0f * cf_repeat / framePoints.size())
BatchRepeats == CeilingOfFloat(Float(job.cf_repeat), Float(Len(prebuilt)))

\* The frames go out at the tuning the front end has.
Emit(frames) ==
    air' = air \o [k \in DOMAIN frames |-> [kind |-> frames[k], at |-> tuned]]

-----------------------------------------------------------------------------
RateRange(p) == Completed(p.sf, tuned.sf)

CarrierRange(p) == Completed(p.cf, tuned.cf)

\* enumerateSamplingRates: the other devices keep the rate they have.
SamplingRates(p) == IF ArbitraryRates THEN Enumerate(RateRange(p)) ELSE <<tuned.sf>>

Plannable(p) ==
    /\ ArbitraryRates => Enumerable(RateRange(p))
    /\ Enumerable(CarrierRange(p))

\* startJob(p) with a range that cannot be enumerated
FailToStart(p) ==
    /\ ~Plannable(p)
    /\ job' = p
    /\ jpc' = "threw"
    /\ UNCHANGED <<sfList, cfList, at, sent, prebuilt, tuned, air>>

\* startJob(p), up to its loops
StartJob(p) ==
    /\ Plannable(p)
    /\ job' = p
    /\ sfList' = SamplingRates(p)
    /\ cfList' = Enumerate(CarrierRange(p))
    /\ at' = [round |-> 1, sf |-> 1, cf |-> 1]
    /\ sent' = 0
    /\ air' = <<>>
    /\ prebuilt' = IF p.useBatchAPI THEN BatchFrames(p) ELSE <<>>
    /\ jpc' = IF p.workingMode = "Logger" /\ p.logger_cf_interval_ms # 0
              THEN "hop" ELSE "visit"
    /\ UNCHANGED tuned

\* Mutant: the loop over the rounds starts in the middle of the rates.
LeaveInnerOnly ==
    /\ sent' = 0
    /\ IF at.cf < Len(cfList)
       THEN at' = [at EXCEPT !.cf = @ + 1] /\ jpc' = "visit"
       ELSE IF at.sf < Len(sfList)
       THEN at' = [at EXCEPT !.sf = @ + 1] /\ jpc' = "visit"
       ELSE IF at.round < job.round_repeat
       THEN at' = [at EXCEPT !.round = @ + 1, !.sf = 1, !.cf = 1] /\ jpc' = "visit"
       ELSE jpc' = "returned" /\ UNCHANGED at

\* Mutant: the rounds are not counted.
NextRoundForever == at' = [at EXCEPT !.sf = 1, !.cf = 1] /\ jpc' = "visit"

NextRound ==
    IF at.round < job.round_repeat
    THEN at' = [round |-> at.round + 1, sf |-> 1, cf |-> 1] /\ jpc' = "visit"
    ELSE jpc' = "returned" /\ UNCHANGED at

\* The three loops go on.
LeaveScanPoint ==
    /\ sent' = 0
    /\ IF at.cf < Len(cfList)
       THEN at' = [at EXCEPT !.cf = @ + 1] /\ jpc' = "visit"
       ELSE IF at.sf < Len(sfList)
       THEN at' = [at EXCEPT !.sf = @ + 1, !.cf = 1] /\ jpc' = "visit"
       ELSE NextRound

\* The injector and the radar tune the front end in two steps, with pauses.
ShiftRate ==
    /\ jpc = "visit"
    /\ job.workingMode \in Injecting
    /\ tuned' = [tuned EXCEPT !.sf = Point.sf]
    /\ jpc' = "shiftCF"
    /\ UNCHANGED <<job, sfList, cfList, at, sent, prebuilt, air>>

ShiftCarrier ==
    /\ jpc = "shiftCF"
    /\ tuned' = [tuned EXCEPT !.cf = Point.cf]
    /\ jpc' = "inject"
    /\ UNCHANGED <<job, sfList, cfList, at, sent, prebuilt, air>>

\* Mutant: the loop runs to i <= cf_repeat.
InjectFrameOneMore ==
    /\ jpc = "inject"
    /\ ~job.useBatchAPI
    /\ Emit(InjectedFrames(job))
    /\ IF sent + 1 <= job.cf_repeat
       THEN sent' = sent + 1 /\ UNCHANGED <<at, jpc>>
       ELSE LeaveScanPoint
    /\ UNCHANGED <<job, sfList, cfList, prebuilt, tuned>>

InjectFrame ==
    /\ jpc = "inject"
    /\ ~job.useBatchAPI
    /\ Emit(InjectedFrames(job))
    /\ IF sent + 1 < job.cf_repeat
       THEN sent' = sent + 1 /\ UNCHANGED <<at, jpc>>
       ELSE LeaveScanPoint
    /\ UNCHANGED <<job, sfList, cfList, prebuilt, tuned>>

InjectBatch ==
    /\ jpc = "inject"
    /\ job.useBatchAPI
    /\ Emit(Times(BatchRepeats, prebuilt))
    /\ LeaveScanPoint
    /\ UNCHANGED <<job, sfList, cfList, prebuilt, tuned>>

\* The loop bodies are empty for a responder, and for a logger that does not hop.
PassPoint ==
    /\ jpc = "visit"
    /\ job.workingMode \in {"Logger", "EchoProbeResponder"}
    /\ LeaveScanPoint
    /\ UNCHANGED <<job, sfList, cfList, prebuilt, tuned, air>>

\* All round trips at a point, or a failure, which ends the round.
MeasurePoint ==
    /\ jpc = "visit"
    /\ job.workingMode = "EchoProbeInitiator"
    /\ \/ tuned' = Point /\ LeaveScanPoint
       \/ tuned' \in {tuned, Point} /\ NextRound /\ UNCHANGED sent
    /\ UNCHANGED <<job, sfList, cfList, prebuilt, air>>

\* Mutant: the index wraps around one channel early.
HopChannelShort ==
    /\ jpc = "hop"
    /\ tuned' = [tuned EXCEPT !.cf = Channels[sent + 1]]
    /\ sent' = (sent + 1) % (Len(Channels) - 1)
    /\ UNCHANGED <<jpc, job, sfList, cfList, at, prebuilt, air>>

HopChannel ==
    /\ jpc = "hop"
    /\ tuned' = [tuned EXCEPT !.cf = Channels[sent + 1]]
    /\ sent' = (sent + 1) % Len(Channels)
    /\ UNCHANGED <<jpc, job, sfList, cfList, at, prebuilt, air>>

WorkStep ==
    \/ ShiftRate \/ ShiftCarrier
    \/ InjectFrame \/ InjectBatch
    \/ PassPoint \/ MeasurePoint
    \/ HopChannel
=============================================================================
