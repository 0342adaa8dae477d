SPECIFICATION NumbersSpec
CONSTANTS
  Bases = {"decimal", "hexadecimal"}
  MaxCommands = 4
INVARIANT NumbersMeanWhatWasRead
