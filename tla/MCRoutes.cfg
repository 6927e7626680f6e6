SPECIFICATION RoutesSpec
CONSTANTS
  a1 = a1
  a2 = a2
  d1 = d1
  ex = ex
  bad = bad
  NoDef = NoDef
  Aliases <- TwoAliases
  Defs = {d1, ex, bad}
  ExcludedDefs = {ex}
  InvalidDefs = {bad}
  LoadFailsWhen = {"down", "up"}
  StartsFail = TRUE
  MaxChanges = 2
  MaxOutages = 1
  EnvTexts <- SomeTexts
  EnvSet <- OneSet
  PeekSize = 6
  MaxVarNameLength = 3
  ReadSizes = {2, 9}
  Labels <- SomeLabels
  AliasLists <- SomeLists
  AliasRefs <- SixRefs
  Networks <- FourNetworks
  ComposeOf <- OneCompose
  MaxLabels = 4
  RouteSpecs <- SomeSpecs
  ReservedPorts = {80, 443, 8888}
  ImagePort <- KnownImages
  AliasPort <- KnownAliases
  ra = ra
  rb = rb
  rc = rc
  rd = rd
  rf = rf
  RLRoutes <- FiveRoutes
  KindOf <- SomeKinds
  KeyOf <- SomeKeys
  Ruled = {rd}
  Dockered = {rf}
  Verifiers = {1, 2}
  MaxBundles = 2
  MaxKeys = 2
  MaxStates = 2
  HostSize = 3
  PortSize = 2
  HostLens = {1, 3, 4}
  PortLens = {2, 3}
  MaxPayloads = 3
  NodeName <- TwoNodes
  Lxc <- SomeLxc
  Address <- SomeIPs
  LxcName <- LxcNames
  Watched <- OneWatched
  MaxPolls = 1
  MaxPxFaults = 1
  MaxMoves = 2
  Periods <- TwoPeriods
  MaxEntries = 2
  SaveTicks = 2
  MetricsClock = 4
  MaxMetricsRestarts = 1
  LogLines <- SomeLines
  MaxLogLines = 3
  Retentions <- SomeRetentions
  ChunkSize = 2
  Now = 2
  SizeOf <- UnitSizes
CHECK_DEADLOCK FALSE
SYMMETRY AliasSymmetry
INVARIANTS
  Converged TableSound   ValidRouteConsistent
  RegistryFollows     RotateSound
