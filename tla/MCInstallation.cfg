SPECIFICATION Spec
CONSTANTS
  c1 = c1
  c2 = c2
  pixel = pixel
  galaxy = galaxy
  nobody = nobody
  Nobody = nobody
  Commands <- MCCommands
  Phones <- MCPhones
  Worlds <- MCWorlds
PROPERTIES
  ReadyDaemonServes
  NothingRemovedBeneath
CHECK_DEADLOCK FALSE
