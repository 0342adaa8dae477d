SPECIFICATION LifeSpec
CONSTANTS
  Modes = {"ports", "stdin"}
  Signalled = {"ports", "stdin"}
  MaxLines = 3
PROPERTY SignalsEnd
CHECK_DEADLOCK FALSE
