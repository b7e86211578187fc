SPECIFICATION Spec
CONSTANTS
  d1 = d1
  d2 = d2
  hub = hub
  h1 = h1
  h2 = h2
  p1 = p1
  p2 = p2
  Devices <- MCDevices
  HidDevices <- MCHidDevices
  Handles <- MCHandles
  Clients <- MCClients
  NoDevice = NoDevice
  NoHandle = NoHandle
  NoClient = NoClient
  KernelExclusive = TRUE
  LibusbMayFail = FALSE
  AttachMayFail = FALSE
SYMMETRY Symmetry
INVARIANT DriverDoesNotPreventClaim
