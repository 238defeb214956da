----------------------------- MODULE EchoState -----------------------------
(***************************************************************************)
(* echo_state.c: the IDLE / TEACH / REPLAY mode under mode_lock and the    *)
(* inactivity timer.  Every operator below is one critical section or one  *)
(* atomic call on this component's state; EchoDriver strings them together *)
(* as the public functions do and adds the ops callbacks they make.        *)
(*                                                                         *)
(* Time is abstract: a pending timer may expire at any later moment, which *)
(* covers every timeout_ms and every scheduling delay.                     *)
(***************************************************************************)
EXTENDS EchoTypes

VARIABLES
  mode,        \* enum echo_mode, only touched under mode_lock
  timer,       \* inactivity_timer: "off" or "pending"
  timer_fn,    \* where inactivity_timer_fn is, "idle" when it is not running
  total_moves  \* atomic_t, moves recorded since the last TEACH

stateVars == <<mode, timer, timer_fn, total_moves>>

TimerPcs == {"idle", "check", "queue", "notify"}

StateTypeOK ==
  /\ mode \in Modes
  /\ timer \in {"off", "pending"}
  /\ timer_fn \in TimerPcs
  /\ total_moves \in 0 .. CounterMod - 1

StateInit ==
  /\ mode = "IDLE"
  /\ timer = "off"
  /\ timer_fn = "idle"
  /\ total_moves = 0

-----------------------------------------------------------------------------
(* A store to mode inside a mode_lock critical section. *)
SetMode(m) == mode' = m /\ UNCHANGED <<timer, timer_fn, total_moves>>

(* Mutant of ArmTimer: a timer whose handler is still running is not armed. *)
ArmUnlessRunning ==
  /\ timer' = IF timer_fn = "idle" THEN "pending" ELSE timer
  /\ UNCHANGED <<mode, timer_fn, total_moves>>

(* mod_timer: (re)arms the timer whether or not it is pending. *)
ArmTimer == timer' = "pending" /\ UNCHANGED <<mode, timer_fn, total_moves>>

(* Mutant of DeleteTimerSync: timer_delete, which does not wait. *)
DeleteTimerAsync == timer' = "off" /\ UNCHANGED <<mode, timer_fn, total_moves>>

(* timer_delete_sync: spins until the handler is not running, then         *)
(* detaches a pending timer.                                               *)
DeleteTimerSync ==
  /\ timer_fn = "idle"
  /\ timer' = "off"
  /\ UNCHANGED <<mode, timer_fn, total_moves>>

(* atomic_inc(&ctx->total_moves). *)
CountMove == total_moves' = Bump(total_moves) /\ UNCHANGED <<mode, timer, timer_fn>>

(* echo_state_set_mode(TEACH) resets the counter and arms the timer. *)
ResetCountAndArm ==
  /\ total_moves' = 0
  /\ timer' = "pending"
  /\ UNCHANGED <<mode, timer_fn>>

(* The softirq takes the expired timer off its wheel and enters the        *)
(* handler; from here the timer can be armed again.                        *)
Expire ==
  /\ timer = "pending"
  /\ timer_fn = "idle"
  /\ timer' = "off"
  /\ timer_fn' = "check"
  /\ UNCHANGED <<mode, total_moves>>

(* Mutant of TimeoutCheck: the handler re-arms itself instead. *)
TimeoutPostpones ==
  /\ timer_fn = "check"
  /\ timer' = IF mode = "TEACH" THEN "pending" ELSE timer
  /\ timer_fn' = "idle"
  /\ UNCHANGED <<mode, total_moves>>

(* Mutant of TimeoutCheck: the handler ends TEACH without a replay. *)
TimeoutGivesUp ==
  /\ timer_fn = "check"
  /\ mode' = IF mode = "TEACH" THEN "IDLE" ELSE mode
  /\ timer_fn' = "idle"
  /\ UNCHANGED <<timer, total_moves>>

(* The handler's critical section: only TEACH turns into REPLAY. *)
TimeoutCheck ==
  /\ timer_fn = "check"
  /\ \/ /\ mode = "TEACH"
        /\ mode' = "REPLAY"
        /\ timer_fn' = "queue"
     \/ /\ mode # "TEACH"
        /\ mode' = mode
        /\ timer_fn' = "idle"
  /\ UNCHANGED <<timer, total_moves>>

(* The handler moves on past one of its callbacks. *)
TimeoutStep(from, to) ==
  /\ timer_fn = from
  /\ timer_fn' = to
  /\ UNCHANGED <<mode, timer, total_moves>>
=============================================================================
