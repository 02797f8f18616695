SPECIFICATION Spec
CONSTANTS
  c1 = c1
  c2 = c2
  Commands <- MCCommands
  Worlds <- MCWorlds
  Quiet = 1
  Loudest = 3
  Items = 2
INVARIANTS
  RingerRestored
  NothingLeftBehind
  NotifiedOnce
  SinkIsTracked
  SendTells
  RetryRepeatsNothing
PROPERTIES
  PublishedFaithfully
  NoEcho
CHECK_DEADLOCK FALSE
