SPECIFICATION Spec
CONSTANTS
  Channels <- OneChannel
  Notes <- ThreeNotes
  Sostenuto = TRUE
  Priority = "last"
  None = None
  Lower = TRUE
  Members = 3
  ZoneNotes <- FourNotes
  Capacity = 3
  MaxSeq = 7
  Setups <- AllSetups
  CoarseBytes = {3, 100}
  FineBytes = {5}
  MsbFirst = TRUE
  PairControllers = {1, 6}
  PressedNotes = {60, 61, 62}
  Pressures = {0, 40, 90}
  DstLower = FALSE
  DstMembers = 2
  MovedDials = {0, 900}
  PanicRoute = TRUE
  Announced = {3, 5}
  ManagerDials = {0, 400}
  MemberDials = {0, 400}
  MemberRanges = {24}
  SensRanges = {12, 24}
  SetChannels = {2}
  PortRanges = {24}
  ZoneBends = {0, 400}
  NoteBends = {0, 400}
  PortFingers = {2, 3}
  Openings <- CutShort
  FollowUps <- LaterCalls
  Edits <- SomeEdits
  MaxRoutes = 3
  MaxCalls = 3
  Bases = {"decimal", "hexadecimal"}
  MaxCommands = 3
INVARIANT ParserIsIdle
