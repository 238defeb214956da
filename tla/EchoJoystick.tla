---------------------------- MODULE EchoJoystick ---------------------------
(***************************************************************************)
(* joystick_thread_fn of echo_joystick.c as it stands.  The debounce test  *)
(* has no braces: the unlock belongs to the test, the return does not.  So *)
(* the thread returns after the test in either case, and what follows the  *)
(* return (the new time stamp, irq_count, on_direction) is never reached   *)
(* and has no action here; last_irq_jiffies stays 0 for the same reason.   *)
(***************************************************************************)
EXTENDS Integers

CONSTANTS
  Pins,       \* the joystick's direction pins
  Debounce,   \* msecs_to_jiffies(ECHO_DEBOUNCE_MS)
  JiffiesMod  \* jiffies is an unsigned long and wraps here, > Debounce

VARIABLES
  jiffies,
  last_irq_jiffies,  \* per pin, zeroed by kzalloc
  irq_lock,          \* the pin whose thread took it last, or "free"
  pc                 \* per pin: "idle", or "lock" when its thread wants irq_lock

joystickVars == <<jiffies, last_irq_jiffies, irq_lock, pc>>

TypeOK ==
  /\ jiffies \in 0 .. JiffiesMod - 1
  /\ last_irq_jiffies \in [Pins -> 0 .. JiffiesMod - 1]
  /\ irq_lock \in Pins \union {"free"}
  /\ pc \in [Pins -> {"idle", "lock"}]

(* jiffies starts shortly before it wraps (INITIAL_JIFFIES), and the       *)
(* module is loaded at any time after that.                                *)
Init ==
  /\ jiffies \in 0 .. JiffiesMod - 1
  /\ last_irq_jiffies = [i \in Pins |-> 0]
  /\ irq_lock = "free"
  /\ pc = [i \in Pins |-> "idle"]

(* A falling edge wakes the pin's thread; IRQF_ONESHOT masks the pin until *)
(* the thread has returned.                                                *)
Press(i) ==
  /\ pc[i] = "idle"
  /\ pc' = [pc EXCEPT ![i] = "lock"]
  /\ UNCHANGED <<jiffies, last_irq_jiffies, irq_lock>>

Bouncing(i) == (jiffies - last_irq_jiffies[i]) % JiffiesMod < Debounce

(* Only a bouncing press unlocks before it returns. *)
Handle(i) ==
  /\ pc[i] = "lock"
  /\ irq_lock = "free"
  /\ irq_lock' = IF Bouncing(i) THEN "free" ELSE i
  /\ pc' = [pc EXCEPT ![i] = "idle"]
  /\ UNCHANGED <<jiffies, last_irq_jiffies>>

Tick ==
  /\ jiffies' = (jiffies + 1) % JiffiesMod
  /\ UNCHANGED <<last_irq_jiffies, irq_lock, pc>>

Next == (\E i \in Pins : Press(i) \/ Handle(i)) \/ Tick

Spec == Init /\ [][Next]_joystickVars /\ \A i \in Pins : WF_joystickVars(Handle(i))

-----------------------------------------------------------------------------
(* A press is handled: its thread debounces it and returns (ReadMe.md:     *)
(* "50ms software debounce").                                              *)
PressReturns == \A i \in Pins : pc[i] = "lock" ~> pc[i] = "idle"
=============================================================================
