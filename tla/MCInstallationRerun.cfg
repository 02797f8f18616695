SPECIFICATION Spec
CONSTANTS
  c1 = c1
  c2 = c2
  pixel = pixel
  galaxy = galaxy
  nobody = nobody
  Nobody = nobody
  Commands <- MCCommands
  Phones <- MCPhones
  Worlds <- RerunWorlds
INVARIANT
  ReadyIsEnabled
CHECK_DEADLOCK FALSE
