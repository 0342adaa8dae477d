SPECIFICATION Spec
CONSTANTS
  Routes = {r1}
  Inputs = {i1, i2}
  Outputs = {o1}
  RouteOf <- TwoInputs
  PanicRoutes = {r1}
  InitialRoutes = {r1}
  MaxMsgs = 2
  MaxUnplugs = 1
  MaxPending = 1
  MaxInjected = 0
  AllNotesOff = AllNotesOff
  Client = Client
  MessageThread = MessageThread
  Nobody = Nobody
  r1 = r1
  r2 = r2
  i1 = i1
  i2 = i2
  o1 = o1
  o2 = o2
INVARIANTS TypeOK InOrder LostInputsSilent
