SPECIFICATION ServicesSpec
CONSTANTS
  RetriesSet <- SomeRetries
  MaxFailures = 5
  MaxRun = 8
  u1 = u1
  u2 = u2
  u3 = u3
  hostA = hostA
  Users <- ThreeUsers
  Hosts <- OneHost
  NoClient = NoClient
  TTL = 1
  MaxClients = 2
  MaxNow = 4
  m1 = m1
  m2 = m2
  p1 = p1
  p2 = p2
  Msgs <- TwoMsgs
  Providers <- TwoProviders
  To <- SomeTo
  MaxTrials <- SomeTrials
  ChanCap = 1
CHECK_DEADLOCK FALSE
INVARIANTS
  OutagesNotified ClientsSound NotificationsKept
PROPERTIES
  RecoveryNotified ClosedAfterTTL ImplementsMailbox EveryoneInformed
