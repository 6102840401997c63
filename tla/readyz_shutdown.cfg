SPECIFICATION Spec
CONSTANTS
  Second = 10
  Files <- OneFile
  Envs <- NoEnv
  ShutdownTimeout = 5
  StopTimeout = 10
  HeaderTimeout = 5
INVARIANTS
  ReadyzDuringShutdown
CHECK_DEADLOCK FALSE
