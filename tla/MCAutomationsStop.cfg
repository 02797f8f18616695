SPECIFICATION Spec
CONSTANTS
  Devices <- MCDevices
  Bodies <- MCBodies
  Files <- StopFiles
  Workers = {w1, w2}
  Reloaders = {}
  JoinMayTimeOut = TRUE
  QueueSize = 2
  MaxEvents = 2
  MaxTime = 0
  MaxReloads = 0
CHECK_DEADLOCK FALSE
INVARIANTS
  CancelledAtStop
