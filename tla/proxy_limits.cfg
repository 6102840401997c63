SPECIFICATION Spec
CONSTANTS
  k1 = k1
  k2 = k2
  k3 = k3
  Keys = {k1, k2, k3}
  NoKey = NoKey
  MaxPackets = 4
  MaxStartups = 100
  Sizes = {1, 2}
  MaxSessions = 2
  StartupBufferPackets = 2
  StartupBufferBytesPerSession = 2
  StartupBufferBytesGlobal = 3
  MaxAutoStopAttempts = 2
  HealthFailureThreshold = 2
  HasReadiness = TRUE
  DialMayFail = TRUE
  Events = {}
  StatusResults = {"running", "offline", "starting", "stopping", "transient", "permanent"}
  StartResults = {"ok", "transient", "permanent"}
  StopResults = {"ok", "error"}
  ProbeResults = {"ok", "unavailable"}
VIEW GenerationView
SYMMETRY Symmetry
INVARIANTS
  QueueAccounting
  SessionBound
  DeliveryInOrder
  CooldownQuiet
