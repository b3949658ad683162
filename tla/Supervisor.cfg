SPECIFICATION FairSpec
CONSTANTS
  r1 = r1  r2 = r2
  Runs = {r1, r2}
  Devices = {1, 2}
  Only <- AllDevices
  MaxDevices = 1
  Concurrency = 1
  MaxTrouble = 1
  Faults = {"crash", "late"}
  NoRun = NoRun
INVARIANTS TypeOK ExclusiveGroups
PROPERTIES TokenIsLease LostTokenEnds DeactivationEnds EveryDeviceServed
CHECK_DEADLOCK FALSE
