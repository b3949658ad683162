SPECIFICATION DevicesSpec
CONSTANTS
  Actors = {a1, a2}
  Addresses = {ip1}
  Tasks = {"realtime", "absent", "sync", "import", "refresh", "form", "button"}
  Moves = FALSE
  NoOne = NoOne
  Writers = {w1, w2}
  Capacities = {1, 2}
  Reported = {2}
  MaxChannelEdits = 1
  MaxChannelDeaths = 1
  Unregistered = Unregistered
  Gone = Gone
  Turns = {t1, t2}
  Polls = {p1, p2}
  Inventories <- VendorInventories
  Devices = {"a", "b", "x"}
  Stations = {"a", "b"}
  PageSize = 2
  MaxStations = 2
  HardInventory = 3
  FailureThreshold = 2
  UnhealthyAfter = 3
  MaxRetries = 2
INVARIANTS DevicesTypeOK ValidatedAgainstRow OnlineMatchesAlone PublishedWhole HealthyMeansClosed
PROPERTIES StatusFollowsTable UnitsKeepChannels ChannelsFillUp MaintenanceKeptAlone EveryWriterEnds SilentRowsAreSwept PolledSnapshotReturns CircuitRecovers
CHECK_DEADLOCK FALSE
