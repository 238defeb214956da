SPECIFICATION Spec
CONSTANTS
  MaxAngle = 1
  Center = 0
  AngleStep = 1
  FifoSize = 1
  CounterMod = 1
  u1 = u1
  u2 = u2
  Users = {u1, u2}
  Commands = {"STOP", "SET_REPLAY"}
  Pins = {}
  SimMode = FALSE
INVARIANTS
  ReplayAccounted


