SPECIFICATION ModuleSpec
CONSTANTS
  d1 = d1
  h1 = h1
  h2 = h2
  p1 = p1
  p2 = p2
  s1 = s1
  s2 = s2
  Devices <- MCDevices
  HidDevices <- MCDevices
  Handles <- MCHandles
  Clients <- MCClients
  Sessions <- MCSessions
  NoDevice = NoDevice
  NoHandle = NoHandle
  NoClient = NoClient
  NoSession = NoSession
  KernelExclusive = FALSE
  LibusbMayFail = FALSE
  AttachMayFail = FALSE
SYMMETRY Symmetry
CHECK_DEADLOCK FALSE
INVARIANT NoUseAfterFree
