----------------------------- MODULE EchoModes -----------------------------
(***************************************************************************)
(* What echo_state.c promises about the mode, whoever asks for what: which *)
(* mode follows which, and what has to be under way for it.  A replay      *)
(* begins only by turning another mode into REPLAY; TEACH is left for      *)
(* REPLAY, on request or when its timer fires; the end of a replay turns   *)
(* any mode into IDLE.  Only while a STOP or RESET is being served can a   *)
(* replay vanish, or the timer of a TEACH that no replay will end.         *)
(***************************************************************************)
EXTENDS EchoTypes

CONSTANT MayStop   \* STOP or RESET is among the requests made

VARIABLES
  mode,
  replay,    \* a replay whose end resets the mode is under way
  timed,     \* the inactivity timer, or somebody about to arm it, is
  stopping   \* a STOP or RESET has not yet cancelled the replay

modeVars == <<mode, replay, timed, stopping>>

Init ==
  /\ mode = "IDLE"
  /\ ~replay /\ ~timed /\ ~stopping

(* echo_state_set_mode(TEACH), or the first press. *)
Teach ==
  /\ mode' = "TEACH"
  /\ timed' = TRUE
  /\ UNCHANGED <<replay, stopping>>

(* echo_state_start_replay. *)
Start ==
  /\ mode # "REPLAY" /\ mode' = "REPLAY"
  /\ replay' = TRUE
  /\ UNCHANGED <<timed, stopping>>

(* inactivity_timer_fn; a press or TEACH may have armed the timer again.   *)
Timeout ==
  /\ mode = "TEACH" /\ mode' = "REPLAY"
  /\ timed /\ timed' \in BOOLEAN
  /\ replay' = TRUE
  /\ UNCHANGED stopping

(* The timer is deleted, or fires without effect. *)
Untime ==
  /\ mode # "TEACH" \/ replay \/ stopping
  /\ timed' = FALSE
  /\ UNCHANGED <<mode, replay, stopping>>

(* echo_state_replay_complete; another replay may have been asked for.     *)
Complete ==
  /\ replay /\ replay' \in BOOLEAN
  /\ mode' = "IDLE"
  /\ UNCHANGED <<timed, stopping>>

(* echo_state_stop, up to its cancel_work_sync. *)
Stop ==
  /\ MayStop
  /\ mode' = "IDLE"
  /\ stopping' = TRUE
  /\ UNCHANGED <<replay, timed>>

Cancel ==
  /\ stopping
  /\ replay' = FALSE
  /\ UNCHANGED <<mode, timed, stopping>>

Cancelled ==
  /\ stopping' = FALSE
  /\ UNCHANGED <<mode, replay, timed>>

Next ==
  \/ Teach \/ Start \/ Timeout \/ Untime \/ Complete
  \/ Stop \/ Cancel \/ Cancelled

Spec == Init /\ [][Next]_modeVars
=============================================================================
