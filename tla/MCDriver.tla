------------------------------ MODULE MCDriver -----------------------------
(***************************************************************************)
(* Instances of EchoDriver for TLC.  Two angles, a fifo of one move and    *)
(* counters modulo 1 are enough: no property depends on how many there     *)
(* are, only on who touches them in which order.                           *)
(***************************************************************************)
EXTENDS EchoDriver, TLC

(* Processes are interchangeable. *)
UserSymmetry == Permutations(Users)
=============================================================================
