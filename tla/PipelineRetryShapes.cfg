SPECIFICATION PFairSpec
CONSTANTS
  w1 = w1  w2 = w2
  j1 = j1  j2 = j2  j3 = j3
  ip1 = ip1  ip2 = ip2
  Workers = {w1, w2}
  Jobs = {j1, j2, j3}
  Addresses = {ip1}
  Staged = {}
  Changes <- BothSources
  Faults = {}
  NoJob = NoJob
  MaxRequests = 3
  Unclaimed = {}
  Trouble = {}
  Roughness = {FALSE}
PROPERTIES EveryChangeRead
CHECK_DEADLOCK FALSE
