----------------------------- MODULE MCJoystick ----------------------------
(* An instance of EchoJoystick for TLC: three pins, a clock of eight ticks *)
(* and a window of two, so that presses fall on both sides of it.          *)
EXTENDS EchoJoystick
=============================================================================
