----------------------------- MODULE MCScanJob ------------------------------
(***************************************************************************)
(* Instances of ScanJob for TLC: ranges in either direction, whose end a   *)
(* step does or does not reach, partly given, of one point, or impossible; *)
(* up to two rounds and three repetitions, batches of up to three frames.  *)
(***************************************************************************)
EXTENDS ScanJob

MCHome == [cf |-> 2, sf |-> 1]
MCChannels == <<1, 3, 4>>

Triple(b, s, e) == [begin |-> <<b>>, step |-> <<s>>, end |-> <<e>>]

MCCfRanges ==
    {NoRange, Triple(1, 1, 3), Triple(2, 3, 4), Triple(4, -2, 0), Triple(3, 1, 3),
     Triple(3, 1, 1), Triple(1, -1, 3), Triple(1, 0, 1),
     [NoRange EXCEPT !.end = <<3>>]}
MCSfRanges == {NoRange, Triple(1, 1, 2)}

\* Two repetitions in one round, or one in each of two rounds.
MCScans ==
    {[Parameters EXCEPT !.workingMode = "Injector", !.cf = c, !.sf = s, !.cf_repeat = n,
                        !.round_repeat = 3 - n] :
        c \in MCCfRanges, s \in MCSfRanges, n \in 1..2}

MCBatches ==
    {[Parameters EXCEPT !.workingMode = "Radar", !.cf = Triple(1, 1, 2), !.cf_repeat = n,
                        !.round_repeat = 2, !.ndpContent = d, !.useBatchAPI = TRUE,
                        !.batchLength = b] :
        n \in 1..3, b \in 1..3, d \in BOOLEAN}

\* NDP announcements, one by one.
MCAnnounced ==
    {[Parameters EXCEPT !.workingMode = "Injector", !.cf_repeat = n, !.napa = TRUE] : n \in 1..2}

MCHopping ==
    {[Parameters EXCEPT !.workingMode = "Logger", !.logger_cf_interval_ms = 1,
                        !.custom_channels = l] : l \in {<<>>, <<3, 5>>}}

\* The loops of an initiator, of a responder and of a logger that does not hop.
MCIdle ==
    {[Parameters EXCEPT !.workingMode = m, !.cf = Triple(1, 1, 2), !.round_repeat = 2] :
        m \in {"EchoProbeInitiator", "EchoProbeResponder", "Logger"}}

MCJobs == MCIdle \cup MCScans \cup MCBatches \cup MCAnnounced \cup MCHopping
=============================================================================
