SPECIFICATION FairSpec
CONSTANTS
  Devices <- MCDevices
  Bodies <- MCBodies
  Files <- MCFiles
  Workers = {w1, w2}
  Reloaders = {h1}
  JoinMayTimeOut = FALSE
  QueueSize = 1
  MaxEvents = 2
  MaxTime = 1
  MaxReloads = 1
CHECK_DEADLOCK FALSE
INVARIANTS
  CooldownHolds
  FiringsAccounted
  StoppedIsQuiet
PROPERTIES
  PoolNeverStarves
  DisconnectCancels
