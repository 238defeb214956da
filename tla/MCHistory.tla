----------------------------- MODULE MCHistory -----------------------------
(* Instances of EchoHistory for TLC, with the bounds of MCDriver. *)
EXTENDS EchoHistory, TLC

(* Processes are interchangeable. *)
UserSymmetry == Permutations(Users)
=============================================================================
