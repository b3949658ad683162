SPECIFICATION DiscoverySpec
CONSTANTS
  w1 = w1  w2 = w2
  j1 = j1  j2 = j2  j3 = j3
  ip1 = ip1  ip2 = ip2
  Workers = {w1, w2}
  Jobs = {j1, j2}
  Addresses = {ip1}
  Staged <- OneStaged
  Changes <- Everything
  Faults <- ReportedFaults
  NoJob = NoJob
  Readers = {q1, q2}
  MaxEdits = 2
  Casts = {c1, c2}
  Chassis = {1, 2, 3}
  MaxRows = 1
  ChunkSize = 1
  Snapshots = {s1, s2, s3}
  NoSnapshot = NoSnapshot
  scan1 = scan1  check1 = check1  chan1 = chan1
  Scans = {scan1}
  Checks = {check1}
  Units = {1, 2}
  Assignments = {1, 2}
  Users = {1}
  Channels = {chan1}
  UnitOf <- OneEach
  ChannelOf <- FirstOnly
  Groups <- Everybody
  Wants <- AllWanted
  Readings <- BothOffline
  Measured = {}
  UnitLimit = 2
  AssignmentLimit = 4
  RecipientLimit = 4
  DeliveryLimit = 1
  Copies = 3
  MaxTrouble = 1
  AlertFaults = {"cache", "error", "crash"}
  Nobody = Nobody
  NoRow = NoRow
SYMMETRY Symmetry
INVARIANTS DiscoveryTypeOK ExclusiveWork StaleHasCause SnapshotsJoin NoDuplicates
PROPERTIES SettledStays VerdictFinal ClaimIsLease SuccessMeansReconciled
CHECK_DEADLOCK FALSE
