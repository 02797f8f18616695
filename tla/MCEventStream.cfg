SPECIFICATION FairSpec
CONSTANTS
  Tracker = "tracker"
  Main = "main"
  c1 = c1
  Clients <- MCClients
  Kinds <- MCKinds
  Wanted <- MCWanted
  QueueSize = 2
  MaxStreams = 1
  MaxEvents = 2
  MaxConnects = 2
  MaxCrashes = 1
CHECK_DEADLOCK FALSE
INVARIANTS
  OncePerConnection
  NoEventMissed
  SeqNamesOneEvent
PROPERTIES
  StreamsEnd
