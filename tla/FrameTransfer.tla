---------------------------- MODULE FrameTransfer ----------------------------
(***************************************************************************)
(* What forwarding promises to whoever reads the logger's file: it holds   *)
(* frames that the forwarding host received, each whole and at most once,  *)
(* in any order.  That a frame is logged at all is not promised here.      *)
(***************************************************************************)
EXTENDS Sequences, SequencesExt

CONSTANT Frames

VARIABLES
    received,   \* frames the forwarding host received
    logged      \* frames in the logger's file

transferVars == <<received, logged>>

Init == received = {} /\ logged = <<>>

ReceiveFrame(f) ==
    /\ f \notin received
    /\ received' = received \cup {f}
    /\ UNCHANGED logged

LogFrame(f) ==
    /\ f \in received
    /\ f \notin ToSet(logged)
    /\ logged' = Append(logged, f)
    /\ UNCHANGED received

Next == \E f \in Frames : ReceiveFrame(f) \/ LogFrame(f)

Spec == Init /\ [][Next]_transferVars
=============================================================================
