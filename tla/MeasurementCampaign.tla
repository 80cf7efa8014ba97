------------------------ MODULE MeasurementCampaign -------------------------
(***************************************************************************)
(* What a user of the EchoProbe initiator may expect of the file it        *)
(* writes, without radios, retries or frequency changes: the log lists     *)
(* scan points in the order of the round, sampling-rate and carrier-       *)
(* frequency loops, each point up to Repeats times; the scan passes on to  *)
(* the next point of a round only when the present one is complete, and    *)
(* otherwise to the first point of a later round.                          *)
(***************************************************************************)
EXTENDS Integers, Sequences, FiniteSets

CONSTANTS Rounds, NumSf, NumCf, Repeats

VARIABLE log

Position == [round : 1..Rounds, sf : 1..NumSf, cf : 1..NumCf]

Latest == log[Len(log)]

Occurrences(p) == Cardinality({i \in DOMAIN log : log[i] = p})

StartsRound(p) ==
    /\ p.sf = 1 /\ p.cf = 1
    /\ log = <<>> \/ Latest.round < p.round

RepeatsPoint(p) ==
    /\ log # <<>>
    /\ p = Latest
    /\ Occurrences(p) < Repeats

\* Carrier frequencies vary fastest.
NextPoint(p) ==
    /\ log # <<>>
    /\ Occurrences(Latest) = Repeats
    /\ p.round = Latest.round
    /\ \/ p.sf = Latest.sf /\ p.cf = Latest.cf + 1
       \/ p.sf = Latest.sf + 1 /\ Latest.cf = NumCf /\ p.cf = 1

Init == log = <<>>

Measure(p) ==
    /\ StartsRound(p) \/ RepeatsPoint(p) \/ NextPoint(p)
    /\ log' = Append(log, p)

Next == \E p \in Position : Measure(p)

Spec == Init /\ [][Next]_log
=============================================================================
