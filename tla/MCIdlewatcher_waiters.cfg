SPECIFICATION FairSpec
CONSTANTS
  h1 = h1
  h2 = h2
  None = None
  Handlers <- TwoHandlers
  Kinds <- Plain
  StopMethods = {"stop"}
  AutoSleep = FALSE
  IdleTimeout = 1
  CheckResults <- HealthyOnly
  CallsFail = FALSE
  ExtOps <- AllExtOps
  MaxExt = 0
  MaxOutages = 0
  MaxReloads = 0
  MaxPending = 1
PROPERTY ReadyReleasesWaiters
