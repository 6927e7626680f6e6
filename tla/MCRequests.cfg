SPECIFICATION RequestsSpec
CONSTANTS
  AclConfigs <- ThreeAcls
  AclIPs = {"lo", "p", "a"}
  Loopback = "lo"
  Private = {"p"}
  Geo <- TwoVersions
  NoCity = "none"
  Checkers = {1}
  CacheTTL = 0
  AclBuffer = 1
  MaxVersion = 2
  MaxChecks = 2
  AclClock = 1
  MaxFaults = 1
  FieldKeys = {"k1", "k2"}
  FieldValues = {"v"}
  MaxCookies = 3
  Aliases <- SomeAliases
  EpHosts <- SomeHosts
  MatchDomains <- SomeDomains
  ShortLinkPrefix <- GoPrefix
  MaxStarts = 4
  MwConfigs <- FiveConfigs
  ComposeFiles <- TwoFiles
  BuiltIn = {"realip"}
  Peers = {"t", "u"}
  Trusted = {"t"}
  AllowedIPs = {"v"}
  Claims <- SomeClaims
  MwBurst = 1
  MaxMwRequests = 2
  Browsers = {"b1", "b2"}
  AuthUser <- UserOf
  AllowedUsers = {"u1"}
  Tabs = {1, 2}
  MaxSessionIDs = 2
  MaxFlows = 2
  AuthBurst = 1
  MaxRestarts = 1
  RuleTexts <- TwelveRules
  MaxRules = 3
  Requests <- SomeRequests
  Alphabet = {"a", "q", "p", " ", "(", ")", "|", "e", "d", "s", "$", "{", "}"}
  MaxText = 5
  EnvNames <- OneVariable
CHECK_DEADLOCK FALSE
INVARIANTS
    EntrypointSound 
  AuthSound  
