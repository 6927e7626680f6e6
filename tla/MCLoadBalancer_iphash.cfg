SPECIFICATION Spec
CONSTANTS
  s1 = s1
  s2 = s2
  s3 = s3
  s4 = s4
  s5 = s5
  q1 = q1
  q2 = q2
  None = None
  Servers <- ThreeServers
  KeyOf <- OwnKeys
  Weight0 <- ZeroWeights
  Reqs <- OneReq
  HashOf <- Hashes
  Modes = {"ip_hash"}
  Sticky = FALSE
  MaxWeight = 100
PROPERTY RemovedNotChosen
