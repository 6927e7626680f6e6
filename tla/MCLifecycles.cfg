SPECIFICATION LifecyclesSpec
CONSTANTS
  watcher = watcher
  api = api
  None = None
  Callers <- BothCallers
  MaxReloads = 2
  Outcomes = {"parse", "init", "start"}
  a1 = a1
  d1 = d1
  ex = ex
  NoDef = NoDef
  Aliases = {a1}
  Defs = {d1, ex}
  ExcludedDefs = {ex}
  InvalidDefs = {}
  LoadFailsWhen = {}
  StartsFail = TRUE
  MaxChanges = 2
  MaxOutages = 1
  l1 = l1
  l2 = l2
  Loggers <- TwoLoggers
  MaxLines = 3
  MaxBuffer = 2
  KeepLast = 1
  ca = ca
  t1 = t1
  UClients <- OneClient
  MaxPackets = 2
  MaxUConns = 2
  TConns <- OneConnection
  Certs <- TwoCerts
  CertNames <- SomeNames
  Hellos <- SixHellos
  CertLife = 2
  RenewBefore = 1
  RequestCooldown = 1
  RenewalCooldown = 2
  OldDomains = {"main"}
  MaxClock = 2
  MaxIssues = 2
  MaxIncidents = 1
CHECK_DEADLOCK FALSE
INVARIANTS GenerationsSound AccessSound StreamsSound 
PROPERTIES ReloadEnds CancelEndsRoutes AccessFileCloses StreamsDrain RenewalAnswered
