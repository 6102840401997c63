SPECIFICATION FairSpec
CONSTANTS
  Second = 10
  Files <- MCFiles
  Envs <- MCEnvs
  ShutdownTimeout = 5
  StopTimeout = 10
  HeaderTimeout = 5
INVARIANTS
  TypeOK
  ConfigurationSuffices
  ExitAccounted
  ReadyzHonest
PROPERTIES
  RunEnds
CHECK_DEADLOCK FALSE
