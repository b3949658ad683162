SPECIFICATION RSpec
CONSTANTS
  w1 = w1  w2 = w2
  j1 = j1  j2 = j2  j3 = j3
  ip1 = ip1  ip2 = ip2
  Workers = {w1, w2}
  Jobs = {j1, j2}
  Addresses = {ip1, ip2}
  Staged <- OneStaged
  Changes <- DataChanges
  Faults <- SwallowedList
  NoJob = NoJob
SYMMETRY Symmetry
PROPERTY SuccessMeansReconciled
CHECK_DEADLOCK FALSE
