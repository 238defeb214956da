SPECIFICATION ReaderSpec
CONSTANTS
  MaxAngle = 1
  Center = 0
  AngleStep = 1
  FifoSize = 1
  CounterMod = 2
  u1 = u1
  Users = {u1}
  Commands = {"RESET", "SET_REPLAY"}
  Pins = {}
  SimMode = TRUE
  r1 = r1
  r2 = r2
  Readers = {r1, r2}
SYMMETRY ReaderSymmetry
INVARIANTS
  SeenIsCurrent
