----------------------------- MODULE EchoQueue -----------------------------
(***************************************************************************)
(* What echo_buffer.c promises about the recording: a queue of at most     *)
(* FifoSize moves that drops its oldest move to take a new one, can be     *)
(* emptied, and hands the replay worker an exact copy of itself without    *)
(* losing a move.  The worker holds one copy at a time, and nothing        *)
(* touches that copy until the worker releases it.                         *)
(***************************************************************************)
EXTENDS EchoTypes

CONSTANT Items   \* the moves that can be recorded

VARIABLES
  q,      \* the recording, oldest move first
  taken   \* the copy the replay worker holds, <<>> when it holds none

queueVars == <<q, taken>>

Init == q = <<>> /\ taken = <<>>

Record(m) == q' = PushMove(q, m) /\ UNCHANGED taken
Clear     == q' = <<>> /\ UNCHANGED taken
Take      == taken = <<>> /\ taken' = q /\ UNCHANGED q
Release   == taken' = <<>> /\ UNCHANGED q

Next == (\E m \in Items : Record(m)) \/ Clear \/ Take \/ Release

Spec == Init /\ [][Next]_queueVars
=============================================================================
