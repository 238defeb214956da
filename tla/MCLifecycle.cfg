SPECIFICATION FairLifeSpec
CONSTANTS
  MaxAngle = 1
  Center = 0
  AngleStep = 1
  FifoSize = 1
  CounterMod = 1
  u1 = u1
  insmod = insmod
  Users = {u1, insmod}
  Loader = insmod
  Commands = {"SET_REPLAY"}
  Pins = {"UP"}
  SimMode = FALSE
INVARIANTS
  LifeTypeOK
  NothingDangles
  NothingLeft
PROPERTIES
  FreedOnce
  UnloadReturns
CHECK_DEADLOCK FALSE
