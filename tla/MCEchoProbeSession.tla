------------------------- MODULE MCEchoProbeSession -------------------------
(***************************************************************************)
(* Instances of EchoProbeSession for TLC: two carrier frequencies, one or  *)
(* two sampling rates, and the tuning both stations start from.            *)
(***************************************************************************)
EXTENDS EchoProbeSession

\* Two scan points that differ in the carrier frequency.
MCCfList == <<1, 2>>
MCOneSf == <<1>>

\* Two sampling rates as well: the hop to the third point changes both.
MCTwoSf == <<1, 2>>

\* Both stations start at the first scan point: it is measured without a hop.
MCAtFirstPoint == {[cf |-> 1, sf |-> 1]}

\* Both stations start outside the scan: every point takes a hop.
MCOutside == {[cf |-> 3, sf |-> 1]}
=============================================================================
