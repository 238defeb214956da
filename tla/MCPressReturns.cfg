SPECIFICATION Spec
CONSTANTS
  Pins = {"UP", "DOWN", "LEFT"}
  Debounce = 2
  JiffiesMod = 8
PROPERTY
  PressReturns
