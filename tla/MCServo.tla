------------------------------ MODULE MCServo ------------------------------
(***************************************************************************)
(* An instance of EchoServo for TLC.  The pulses of 0, 45 and 180 degrees  *)
(* are 205, 256 and 410 ticks: both bytes change between any two of them.  *)
(* 256 and 65581 do not fit the types they are cast to (they name servo 0  *)
(* and 45 degrees there), 3 and 300 are out of range.                      *)
(***************************************************************************)
EXTENDS EchoServo

MoveRequests ==
  { [servo |-> 0, angle |-> 0],   [servo |-> 0, angle |-> 300],
    [servo |-> 1, angle |-> 300], [servo |-> 1, angle |-> 65581],
    [servo |-> 2, angle |-> 45],  [servo |-> 3, angle |-> 0],
    [servo |-> 256, angle |-> 45] }
=============================================================================
