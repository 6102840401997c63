SPECIFICATION FairSpec
CONSTANTS
  k1 = k1
  k2 = k2
  k3 = k3
  Keys = {k1}
  NoKey = NoKey
  MaxPackets = 1
  MaxStartups = 2
  Sizes = {1}
  MaxSessions = 1
  StartupBufferPackets = 1
  StartupBufferBytesPerSession = 1
  StartupBufferBytesGlobal = 1
  MaxAutoStopAttempts = 2
  HealthFailureThreshold = 2
  HasReadiness = TRUE
  DialMayFail = FALSE
  Events = {"error", "shutdown"}
  StatusResults = {"running"}
  StartResults = {"ok"}
  StopResults = {"ok"}
  ProbeResults = {"ok", "unavailable"}
PROPERTIES
  ShutdownCompletes
  QueuesResolve
  IdleBackendStops
