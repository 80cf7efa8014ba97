----------------------------- MODULE DemoPlugin -----------------------------
(***************************************************************************)
(* The demo plugin: its command starts a service and leaves it running.    *)
(***************************************************************************)
EXTENDS PlatformNIC

\* --demo logger
DemoLogger == StartServices({"Rx"})

\* --demo injector; its one frame, buildBasicFrame, is put on the air by the
\* composition.
DemoInjector == StartServices({"Tx"})

BasicFrame == "basic"
=============================================================================
