SPECIFICATION Spec
CONSTANTS
  h1 = h1
  h2 = h2
  None = None
  Handlers <- TwoHandlers
  Kinds <- Plain
  StopMethods = {"stop", "kill", "pause"}
  AutoSleep = TRUE
  IdleTimeout = 1
  CheckResults <- AllResults
  CallsFail = TRUE
  ExtOps <- AllExtOps
  MaxExt = 1
  MaxOutages = 0
  MaxReloads = 1
  MaxPending = 1
SYMMETRY HandlerSymmetry
INVARIANT WatcherSound
PROPERTY IdleStopAfterQuiet
