SPECIFICATION PFairSpec
CONSTANTS
  w1 = w1  w2 = w2
  j1 = j1  j2 = j2  j3 = j3
  ip1 = ip1  ip2 = ip2
  Workers = {w1, w2}
  Jobs = {j1, j2}
  Addresses = {ip1}
  Staged = {}
  Changes <- Everything
  Faults = {"crash", "lapse"}
  NoJob = NoJob
  MaxRequests = 2
  Unclaimed <- BothRuns
  Trouble = {"enqueue", "cache", "lost"}
  Roughness = {TRUE, FALSE}
INVARIANTS PipelineTypeOK RetryKeyMeansRetry
PROPERTIES EveryChangeRead Converges
CHECK_DEADLOCK FALSE
