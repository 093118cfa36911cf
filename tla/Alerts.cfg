SPECIFICATION AlertsSpec
CONSTANTS
  b1 = b1
  b2 = b2
  s1 = s1
  s2 = s2
  p1 = p1
  c1 = c1
  ReadLoop = ReadLoop
  Topology = Topology
  Indexer = Indexer
  Brokers = {b1, b2}
  SubRounds = {s1, s2}
  PubRounds = {p1}
  NodeOf <- MCNodeOf
  MaxRestarts = 1
  Emitters = {ReadLoop, Topology, Indexer}
  Clients = {c1}
  Capacity = 1
  Free = Free
  NoEvent = NoEvent
  Found <- MCFound
  Watched = b1
  NoRound = NoRound
CHECK_DEADLOCK FALSE
  
PROPERTIES EmitReturns WatchersHear
