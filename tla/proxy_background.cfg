SPECIFICATION Spec
CONSTANTS
  k1 = k1
  k2 = k2
  k3 = k3
  Keys = {k1}
  NoKey = NoKey
  MaxPackets = 2
  MaxStartups = 100
  Sizes = {1}
  MaxSessions = 1
  StartupBufferPackets = 1
  StartupBufferBytesPerSession = 1
  StartupBufferBytesGlobal = 1
  MaxAutoStopAttempts = 2
  HealthFailureThreshold = 2
  HasReadiness = TRUE
  DialMayFail = FALSE
  Events = {"sweep", "probe"}
  StatusResults = {"running", "offline"}
  StartResults = {"ok", "transient"}
  StopResults = {"ok", "error"}
  ProbeResults = {"ok", "unavailable", "inconclusive"}
VIEW GenerationView
INVARIANTS
  TypeOK
  StartStopExclusive
  SendOnlyWhenReady
PROPERTIES
  GateLossConfirmed
  PendingNotExpired
