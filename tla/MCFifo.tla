------------------------------- MODULE MCFifo ------------------------------
(***************************************************************************)
(* An instance of EchoFifo for TLC.  Two slots and indices modulo 8 make   *)
(* every slot be reused and both indices wrap many times; distinct moves   *)
(* tell a lost, duplicated or reordered move, and a count can be off by    *)
(* more than the size.                                                     *)
(***************************************************************************)
EXTENDS EchoFifo
=============================================================================
