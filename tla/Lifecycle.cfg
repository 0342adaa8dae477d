SPECIFICATION LifeSpec
CONSTANTS
  Modes = {"once", "ports", "commands", "stdin", "mcp"}
  Signalled = {"ports", "commands", "stdin"}
  MaxLines = 3
PROPERTIES ImplementsDialogue EndsWhenAsked TimerIsServed
CHECK_DEADLOCK FALSE
