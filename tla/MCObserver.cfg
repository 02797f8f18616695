SPECIFICATION FairSpec
CONSTANTS
  phone = phone
  Tracker = "tracker"
  Main = "main"
  Devices <- MCDevices
  Levels <- MCLevels
  LowBattery = 20
  Ssids <- MCSsids
  MaxChanges = 2
  MaxPolls = 1
CHECK_DEADLOCK FALSE
INVARIANTS
  ConnectionFollowsTracker
  ViewFollowsState
PROPERTIES
  TrackerCatchesUp
