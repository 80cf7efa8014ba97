---------------------------- MODULE PlatformNIC -----------------------------
(***************************************************************************)
(* The services of the NIC that the plugins of the platform share.         *)
(***************************************************************************)

VARIABLE services   \* the services that run

Services == {"Rx", "Tx"}

ServicesInit == services = {}

\* startRxService, startTxService: nothing happens if the service runs.
StartServices(s) == services' = services \cup s

\* stopRxService, stopTxService
StopService(s) == services' = services \ {s}
=============================================================================
