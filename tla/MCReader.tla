------------------------------ MODULE MCReader -----------------------------
(***************************************************************************)
(* An instance of EchoReader for TLC: two watching processes, which take   *)
(* each other's flag, and one that makes requests, next to the worker.     *)
(***************************************************************************)
EXTENDS EchoReader, TLC

ReaderSymmetry == Permutations(Readers)
=============================================================================
