SPECIFICATION FairSpec
CONSTANTS
  c1 = c1
  c2 = c2
  Challenges = {c1, c2}
  Plain = Plain
  NoQuery = NoQuery
  MaxCopies = 2
  OkCodes = {200, 204}
  MovedCodes = {300, 302}
  DeniedCodes = {400, 404, 499}
  BusyCodes = {408, 429}
  BrokenCodes = {500, 503}
INVARIANTS
  TypeOK
  PowerHonest
PROPERTIES
  ImplementsReadiness
  CallEnds
  WaitResolves
