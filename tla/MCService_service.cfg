SPECIFICATION MCSpec
CONSTANTS
  p1 = p1
  p2 = p2
  Processes = {p1, p2}
  Files = {1, 2}
  Environments <- MCEnvironments
  MaxIncidents = 1
  A = A
  B = B
  s1 = s1
  s2 = s2
  Pages = {g1, g2}
  Users = {A, B}
  NoUser = NoUser
  Sessions = {s1, s2}
  NoSession = NoSession
  SessionUser <- MCSessionUser
  NoProcess = NoProcess
CHECK_DEADLOCK FALSE
INVARIANTS
  TypeOK
  MigratedOnce
  ReadyToServe
  WritesAsDisplayed
  AccountKnown
PROPERTIES
  CookieLossExplained
  EventuallyServes
  WaitEnds
