SPECIFICATION Spec
CONSTANTS
  MaxAngle = 1
  Center = 0
  AngleStep = 1
  FifoSize = 2
  CounterMod = 8
  m1 = m1
  m2 = m2
  m3 = m3
  Items = {m1, m2, m3}
INVARIANTS
  TypeOK
  FifoBounded
  CountBounded
PROPERTIES
  ImplementsQueue
