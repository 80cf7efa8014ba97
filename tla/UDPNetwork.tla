----------------------------- MODULE UDPNetwork -----------------------------
(***************************************************************************)
(* The UDP path from a forwarding PicoScenes host to the remote logger, as *)
(* far as the program depends on it (SystemTools::Net::udpSendData and     *)
(* socket->async_receive_from): datagrams arrive whole and in any order;   *)
(* at most MaxLosses of them never arrive, the network's losses and those  *)
(* at a full socket buffer alike, and at most MaxDuplicates arrive twice.  *)
(***************************************************************************)
EXTENDS Integers

CONSTANTS
    MaxLosses,
    MaxDuplicates

ASSUME NetworkAssumption == MaxLosses \in Nat /\ MaxDuplicates \in Nat

VARIABLES
    network,      \* datagrams sent and not yet arrived or lost
    losses,
    duplicates

networkVars == <<network, losses, duplicates>>

NetworkInit ==
    /\ network = {}
    /\ losses = 0
    /\ duplicates = 0

\* udpSendData: the sender does not wait.
SendDatagram(d) ==
    /\ network' = network \cup {d}
    /\ UNCHANGED <<losses, duplicates>>

\* The datagram arrives for good, or a copy of it stays on its way.
Arrive(d) ==
    /\ d \in network
    /\ \/ network' = network \ {d} /\ UNCHANGED duplicates
       \/ duplicates < MaxDuplicates /\ duplicates' = duplicates + 1 /\ UNCHANGED network
    /\ UNCHANGED losses

Lose(d) ==
    /\ d \in network
    /\ losses < MaxLosses
    /\ losses' = losses + 1
    /\ network' = network \ {d}
    /\ UNCHANGED duplicates
=============================================================================
