SPECIFICATION FairSpec
CONSTANTS
  MaxAngle = 1
  Center = 0
  AngleStep = 1
  FifoSize = 1
  CounterMod = 1
  u1 = u1
  Users = {u1}
  Commands = {"TEACH", "REPLAY", "RESET"}
  Pins = {"UP"}
  SimMode = FALSE
PROPERTIES
  ReplayEnds
  WriterReturns
  TeachTimesOut
  StopReturns
