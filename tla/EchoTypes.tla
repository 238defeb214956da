----------------------------- MODULE EchoTypes -----------------------------
(***************************************************************************)
(* Shared constants, enums and pure helpers of the Echo robot driver       *)
(* (module/echo_types.h and the arithmetic every subsystem repeats).       *)
(*                                                                         *)
(* The sizes of echo_types.h are constants here so that TLC can use small  *)
(* ones; the theorems hold for the real ones (180 degrees, a 256-entry     *)
(* kfifo, 5-degree steps, 32-bit counters) as for any other.               *)
(***************************************************************************)
EXTENDS Integers, Sequences

CONSTANTS
  MaxAngle,   \* ECHO_SERVO_MAX (180); ECHO_SERVO_MIN is 0
  Center,     \* ECHO_SERVO_CENTER (90)
  AngleStep,  \* ECHO_ANGLE_STEP (5)
  FifoSize,   \* ECHO_FIFO_SIZE (256)
  CounterMod  \* 2^32: the atomic_t counters wrap there

ASSUME TypesAssumption ==
  /\ MaxAngle \in Nat \ {0}
  /\ Center \in 0 .. MaxAngle
  /\ AngleStep \in Nat \ {0}
  /\ FifoSize \in Nat \ {0}
  /\ CounterMod \in Nat \ {0}

Modes  == {"IDLE", "TEACH", "REPLAY"}
Servos == {"PAN", "TILT", "TILT2"}
Angles == 0 .. MaxAngle

(* A recorded movement.  Its delay_ms only paces the replay: time is not   *)
(* part of this module's users, see the README.                            *)
Moves == [servo : Servos, angle : Angles]

(* The clamp of echo_state_handle_input. *)
Clamp(a) == IF a < 0 THEN 0 ELSE IF a > MaxAngle THEN MaxAngle ELSE a

(* The servo positions after echo_servo_set_angle(id, a): the second arm   *)
(* mirrors the base.                                                       *)
PosAfter(p, id, a) ==
  [s \in Servos |-> IF s = id \/ (id = "PAN" /\ s = "TILT2") THEN a ELSE p[s]]

(* Mutant of PushMove: the check for a full fifo is missing. *)
PushMoveUnchecked(q, m) == Append(q, m)

(* echo_buffer_record: a full fifo drops its oldest move. *)
PushMove(q, m) ==
  IF Len(q) = FifoSize THEN Append(Tail(q), m) ELSE Append(q, m)

(* atomic_inc of a counter. *)
Bump(c) == (c + 1) % CounterMod
=============================================================================
