SPECIFICATION FairSpec
CONSTANTS
  h1 = h1
  h2 = h2
  None = None
  Handlers <- OneHandler
  Kinds <- AllKinds
  StopMethods = {"stop"}
  AutoSleep = TRUE
  IdleTimeout = 1
  CheckResults <- AllResults
  CallsFail = FALSE
  ExtOps <- AllExtOps
  MaxExt = 0
  MaxOutages = 1
  MaxReloads = 0
  MaxPending = 1
PROPERTIES StartResolves ReadyReleasesWaiters
