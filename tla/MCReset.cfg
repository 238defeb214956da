SPECIFICATION HistSpec
CONSTANTS
  MaxAngle = 1
  Center = 0
  AngleStep = 1
  FifoSize = 1
  CounterMod = 1
  u1 = u1
  u2 = u2
  Users = {u1, u2}
  Commands = {"REPLAY", "RESET"}
  Pins = {"UP"}
  SimMode = FALSE
INVARIANTS
  StopQuiets
  ResetCentres
PROPERTIES
  OnlyStopOrphans
  OnlyStopUntimes
  OnlyStopStrands
  ImplementsModes
SYMMETRY UserSymmetry
