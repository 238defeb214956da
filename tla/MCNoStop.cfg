SPECIFICATION Spec
CONSTANTS
  MaxAngle = 1
  Center = 0
  AngleStep = 1
  FifoSize = 1
  CounterMod = 1
  u1 = u1
  u2 = u2
  Users = {u1, u2}
  Commands = {"REPLAY", "SET_REPLAY", "MOVE"}
  Pins = {"UP"}
  SimMode = FALSE
INVARIANTS
  TypeOK
  ReplayAccounted
  WaiterHasWaker
  TeachTimed
  ReplayExclusive
PROPERTIES
  TeachKept
SYMMETRY UserSymmetry
