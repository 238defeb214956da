SPECIFICATION Spec
CONSTANTS
  MaxAngle = 1
  Center = 0
  AngleStep = 1
  FifoSize = 1
  CounterMod = 1
  u1 = u1
  Users = {u1}
  Commands = {"TEACH", "SET_REPLAY"}
  Pins = {}
  SimMode = FALSE

PROPERTIES
  TeachKept

