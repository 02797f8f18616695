SPECIFICATION Spec
CONSTANTS
  c1 = c1
  c2 = c2
  c3 = c3
  home = home
  work = work
  p1 = p1
  p2 = p2
  a1 = a1
  a2 = a2
  None = None
  NoFile = NoFile
  Commands <- MCCommands
  Worlds <- MCWorlds
  Names = {home, work}
  Phones = {p1, p2}
  Addresses = {a1, a2}
  Ids = {"tool", "other"}
  Devices = {home, work}
  Folders = {"photos", "pictures"}
PROPERTIES
  ConfigStaysUsable
  ChangesSurvive
  RightPhone
  RevokedIsRefused
CHECK_DEADLOCK FALSE
