SPECIFICATION Spec
CONSTANTS
  Routes = {r1}
  Inputs = {i1}
  Outputs = {o1}
  RouteOf <- OneEach
  PanicRoutes = {r1}
  InitialRoutes = {}
  MaxMsgs = 1
  MaxUnplugs = 1
  MaxPending = 1
  MaxInjected = 1
  AllNotesOff = AllNotesOff
  Client = Client
  MessageThread = MessageThread
  Nobody = Nobody
  r1 = r1
  r2 = r2
  i1 = i1
  i2 = i2
  o1 = o1
  o2 = o2
PROPERTIES ImplementsPorts QuitCompletes Reconnects
