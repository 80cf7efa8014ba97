------------------------------ MODULE ScanPlan ------------------------------
(***************************************************************************)
(* The scan points of an EchoProbe job: how EchoProbeInitiator turns the   *)
(* options begin:step:end into the list of frequencies its loops visit.    *)
(* Frequencies are whole numbers.  A std::optional is a sequence of at     *)
(* most one value.                                                         *)
(***************************************************************************)
EXTENDS Integers, Sequences

CONSTANT DefaultStep   \* 5 MHz, the step of a range whose step is not given

ASSUME DefaultStepAssumption == DefaultStep \in Nat \ {0}

Unset == <<>>

\* std::optional::value_or
ValueOr(option, default) == IF option = Unset THEN default ELSE option[1]

Optional(S) == {o \in Seq(S) : Len(o) <= 1}

\* cf_begin, cf_step, cf_end; sf_begin, sf_step, sf_end
ScanRange == [begin : Optional(Int), step : Optional(Int), end : Optional(Int)]

NoRange == [begin |-> Unset, step |-> Unset, end |-> Unset]

\* The ends that are not given are the present frequency of the front end.
Completed(range, current) ==
    [begin |-> ValueOr(range.begin, current),
     step  |-> ValueOr(range.step, DefaultStep),
     end   |-> ValueOr(range.end, current)]

\* Otherwise enumerateArbitrary... throws.
Enumerable(r) ==
    /\ r.step # 0
    /\ r.end < r.begin => r.step < 0
    /\ r.end > r.begin => r.step > 0

\* Mutant: the end of the range is left out.
EnumerateOpenEnd(r) ==
    LET Goes(v) == IF r.step > 0 THEN v < r.end ELSE v > r.end
        From[v \in Int] == <<v>> \o IF Goes(v + r.step) THEN From[v + r.step] ELSE <<>>
    IN  From[r.begin]

\* The do-while loop: the first frequency is taken without a test.
Enumerate(r) ==
    LET Goes(v) == IF r.step > 0 THEN v <= r.end ELSE v >= r.end
        From[v \in Int] == <<v>> \o IF Goes(v + r.step) THEN From[v + r.step] ELSE <<>>
    IN  From[r.begin]
=============================================================================
