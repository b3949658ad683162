SPECIFICATION FairSpec
CONSTANTS
  scan1 = scan1  check1 = check1  chan1 = chan1
  Scans = {scan1}
  Checks = {}
  Units = {1}
  Assignments = {1, 2}
  Users = {1, 2}
  Channels = {chan1}
  UnitOf <- OneUnit
  ChannelOf <- OneChannel
  Groups <- Everybody
  Wants <- AllWanted
  Readings <- Offline
  Measured = {}
  UnitLimit = 1
  AssignmentLimit = 1
  RecipientLimit = 1
  DeliveryLimit = 2
  Copies = 1
  MaxTrouble = 0
  AlertFaults = {}
  Nobody = Nobody
  NoRow = NoRow
PROPERTIES NobodyStarves
CHECK_DEADLOCK FALSE
