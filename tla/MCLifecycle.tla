----------------------------- MODULE MCLifecycle ---------------------------
(***************************************************************************)
(* Instances of EchoLifecycle for TLC, with the bounds of MCDriver: one    *)
(* process that opens the device next to the one that loads and unloads.   *)
(***************************************************************************)
EXTENDS EchoLifecycle
=============================================================================
