SPECIFICATION FairSpec
CONSTANTS
  Actors = {a1, a2}
  Tasks = {"approve", "sync", "realtime", "charger", "queue", "promote"}
  Chassis = {11, 12, 13}
  Chargers = {21}
  Entries = {31, 32}
  Manufacturers = {1, 2}
  Addresses = {1, 2, 3}
  Payloads <- MCPayloads
  Inventories <- MCInventories
  Reviewers <- MCReviewers
  Beginnings <- MCBeginnings
  MaxTransactions = 2
  Blank = Blank
  Nobody = Nobody
  x = x
  y = y
  s1 = s1
  s2 = s2
  s3 = s3
INVARIANTS TypeOK AddressesExclusive SerialsUnique ApprovalsNeverDeadlock
PROPERTIES ReviewIsFinal NoTakeover PermissionsHold EveryTransactionEnds
CHECK_DEADLOCK FALSE
