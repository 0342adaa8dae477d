SPECIFICATION RehearsalSpec
CONSTANTS
  Inputs = {1, 2}
  Channels <- One
  Notes <- TwoNotes
  Chains <- StartChains
  Edits = {"add", "replace", "remove"}
  Commands = {"last", "low", "hold", "toggle", "sustain", "sost", "chord", "notemap"}
  MaxChain = 2
  Interval = 1
  Remapped <- OneNote
  None = None
INVARIANTS NothingHangs HandsOffSilence OneNotePerKeyboard CleanRestrike
PROPERTY HeldUntilNewGesture
