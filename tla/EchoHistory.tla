---------------------------- MODULE EchoHistory ----------------------------
(***************************************************************************)
(* EchoDriver with two history variables, for the properties that relate a *)
(* step of a request to what happened since the request began.  They only  *)
(* watch: every behaviour of EchoDriver is kept.                           *)
(***************************************************************************)
EXTENDS EchoDriver

VARIABLES
  served,      \* how far the replay that each user's request queued has got
  undisturbed  \* no other context has been active since the user's STOP began

histVars == <<vars, served, undisturbed>>

HistInit ==
  /\ Init
  /\ served = [u \in Users |-> "none"]
  /\ undisturbed = [u \in Users |-> FALSE]

(* queue_work was called; the worker entered; it reached the end of its    *)
(* loop and reported the replay complete.                                  *)
Serve(u) ==
  IF pc[u] = "queue" /\ pc'[u] = "started" THEN "queued"
  ELSE IF served[u] = "queued" /\ worker = "idle" /\ worker' = "alloc" THEN "running"
  ELSE IF served[u] = "running" /\ worker = "complete" /\ worker' = "finish" THEN "done"
  ELSE IF pc'[u] = "idle" THEN "none"
  ELSE served[u]

(* Nobody else is inside the driver.  A writer blocked in write(REPLAY)    *)
(* touches nothing; a MOVE that fails is over in one step.                 *)
Alone(u) ==
  /\ \A v \in Users \ {u} : pc'[v] \in {"idle", "wait"} /\ ~MoveFails(v)
  /\ \A i \in Pins : irq_pc'[i] = "idle"

HistNext ==
  /\ Next
  /\ served' = [u \in Users |-> Serve(u)]
  /\ undisturbed' =
       [u \in Users |-> Alone(u) /\ IF pc[u] = "idle" THEN pc'[u] = "stop_timer"
                                   ELSE undisturbed[u]]

HistSpec == HistInit /\ [][HistNext]_histVars

-----------------------------------------------------------------------------
(* A STOP or RESET that nothing disturbs leaves the driver quiet before it *)
(* wakes the blocked writers, although the timer handler may have started  *)
(* a replay behind its back: the timer is deleted, and its handler waited  *)
(* for, before the work is cancelled.                                      *)
StopQuiets ==
  \A u \in Users :
    undisturbed[u] /\ pc[u] \in {"stop_signal", "stop_data", "stop_notify"} =>
      /\ mode = "IDLE"
      /\ timer = "off" /\ timer_fn = "idle"
      /\ worker = "idle" /\ ~queued

(* When an undisturbed RESET reaches its last notify_readers, the          *)
(* recording is empty and every servo is back at the centre: no move of    *)
(* the replay it cancelled arrives late.                                   *)
ResetCentres ==
  \A u \in Users :
    undisturbed[u] /\ op[u] = "RESET" /\ pc[u] = "notify" =>
      recording = <<>> /\ \A s \in Servos : pos[s] = Center

(* write(REPLAY) returns success only once the replay it asked for has     *)
(* been played (ReadMe.md: "blocks until the full replay sequence          *)
(* completes").                                                            *)
WriteBlocksUntilDone ==
  [][\A u \in Users : ReplayReturn(u) => served[u] = "done"]_histVars
=============================================================================
