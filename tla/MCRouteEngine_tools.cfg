SPECIFICATION Spec
CONSTANTS
  Routes = {r1, r2}
  Inputs = {i1, i2}
  Outputs = {o1, o2}
  RouteOf <- TwoRoutes
  PanicRoutes = {r1}
  InitialRoutes = {}
  MaxMsgs = 1
  MaxUnplugs = 0
  MaxPending = 0
  MaxInjected = 1
  AllNotesOff = AllNotesOff
  Client = Client
  MessageThread = MessageThread
  Nobody = Nobody
  r1 = r1
  r2 = r2
  i1 = i1
  i2 = i2
  o1 = o1
  o2 = o2
INVARIANTS NoSendAfterClose CallbackOnLiveRoute LostInputsSilent
