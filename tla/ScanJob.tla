------------------------------ MODULE ScanJob -------------------------------
(***************************************************************************)
(* One job of EchoProbeWork after the other on the same front end, with    *)
(* any parameters of Jobs: what the options of a scan, of its repetitions  *)
(* and of batches lead to on the air.                                      *)
(***************************************************************************)
EXTENDS EchoProbeWork, FiniteSets

CONSTANT Jobs   \* the parameters a job may be started with

\* Counts are positive: with 0 repetitions there is nothing to divide by.
ASSUME JobsAssumption ==
    \A p \in Jobs :
        /\ p.cf \in ScanRange /\ p.sf \in ScanRange
        /\ {p.cf_repeat, p.round_repeat, p.batchLength} \subseteq Nat \ {0}
        /\ p.custom_channels \in Seq(Int)

VARIABLE origin   \* the tuning at the start of the job

vars == <<workVars, origin>>

Init == WorkInit /\ origin = HomeTuning

Start ==
    /\ jpc \in {"idle", "returned", "threw"}
    /\ \E p \in Jobs : StartJob(p) \/ FailToStart(p)
    /\ origin' = tuned

Step == WorkStep /\ UNCHANGED origin

Next == Start \/ Step

\* The thread that runs a job goes on; nobody has to start another one.
Spec == Init /\ [][Next]_vars /\ WF_vars(Step)

-----------------------------------------------------------------------------
(* Invariants                                                              *)

\* The types of the job's variables; the indices stay within the lists.
TypeOK ==
    /\ jpc \in WorkPcs
    /\ job \in Jobs \cup {Parameters}
    /\ sfList \in Seq(Int) /\ cfList \in Seq(Int)
    /\ at \in [round : Nat, sf : Nat, cf : Nat]
    /\ jpc \in {"visit", "shiftCF", "inject"} =>
           at \in [round : 1..job.round_repeat, sf : DOMAIN sfList, cf : DOMAIN cfList]
    /\ sent \in 0..(IF jpc = "hop" THEN Len(Channels) ELSE job.cf_repeat) - 1
    /\ tuned \in Tuning /\ origin \in Tuning

Values(list) == {list[k] : k \in DOMAIN list}

Distance(a, b) == IF a < b THEN b - a ELSE a - b

\* begin, begin + step, ... as far as end, and nothing else, in this order.
IsScanOf(list, r) ==
    LET low == IF r.begin < r.end THEN r.begin ELSE r.end IN
    /\ Values(list) = {v \in low..low + Distance(r.begin, r.end) :
                          Distance(v, r.begin) % Distance(r.step, 0) = 0}
    /\ \A i, j \in DOMAIN list :
           i < j <=> (IF r.step > 0 THEN list[i] < list[j] ELSE list[i] > list[j])

(***************************************************************************)
(* The loops visit the frequencies of the MATLAB-style range of --cf, each *)
(* once (EchoProbePlugin.cxx:31): its end included if a step reaches it,   *)
(* also downwards, and from where the job before left the front end if     *)
(* the range is not given.                                                 *)
(***************************************************************************)
ScanIsRange ==
    jpc \notin {"idle", "threw"} =>
        /\ IsScanOf(cfList, Completed(job.cf, origin.cf))
        /\ IF ArbitraryRates THEN IsScanOf(sfList, Completed(job.sf, origin.sf))
                             ELSE sfList = <<origin.sf>>

InjectionDone == jpc = "returned" /\ job.workingMode \in Injecting

\* The k-th point of the whole job, counted from 0.
PlanPoint(k) ==
    [cf |-> cfList[(k % Len(cfList)) + 1],
     sf |-> sfList[((k \div Len(cfList)) % Len(sfList)) + 1]]

(***************************************************************************)
(* Every visit of a point puts the same number of frames on the air, all   *)
(* at the tuning of the point, and the visits follow the plan: carrier     *)
(* frequencies, then sampling rates, then rounds.                          *)
(***************************************************************************)
InjectsThePlan ==
    InjectionDone =>
        LET visits == job.round_repeat * Len(sfList) * Len(cfList)
            each   == Len(air) \div visits
        IN  /\ Len(air) = visits * each
            /\ \A n \in DOMAIN air : air[n].at = PlanPoint((n - 1) \div each)

\* The frames of one injection, apart from an NDP announcement.
PartsOfInjection ==
    IF job.useBatchAPI /\ DataFrame(job) = "data" THEN SplitParts ELSE 1

InjectedAt(t) == Cardinality({n \in DOMAIN air : air[n].at = t /\ air[n].kind # "NDPA"})

(***************************************************************************)
(* --repeat is "The injection number per cf/bw combination"                *)
(* (EchoProbePlugin.cxx:33) of a round: exactly, frame by frame; with      *)
(* batches at least, and by less than a batch more.                        *)
(***************************************************************************)
InjectionsAsAsked ==
    InjectionDone =>
        \A t \in [cf : Values(cfList), sf : Values(sfList)] :
            LET excess == InjectedAt(t) - job.round_repeat * job.cf_repeat * PartsOfInjection
            IN  excess \in 0..(IF job.useBatchAPI
                               THEN job.round_repeat * job.batchLength * PartsOfInjection - 1
                               ELSE 0)

-----------------------------------------------------------------------------
(* Liveness                                                                *)

\* A job that does not hop comes to its end, whatever its lists and repeats.
JobEnds == (jpc = "visit") ~> (jpc = "returned")

(***************************************************************************)
(* The logger's loop never ends, and in it every channel of its list has   *)
(* its turn again and again.                                               *)
(***************************************************************************)
EveryChannelVisited ==
    \A ch \in UNION {Values(p.custom_channels \o DefaultChannels) : p \in Jobs} :
        (jpc = "hop" /\ ch \in Values(Channels)) ~> (jpc = "hop" /\ tuned.cf = ch)
=============================================================================
