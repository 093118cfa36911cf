SPECIFICATION LayerSpec
CONSTANTS
  Bits = 4
  ByteSize = 2
  localID <- MCLocal
  Peers <- MCPeers
  Addrs = {a1}
  K = 2
  ChanSize = 1
  Handlers = {readLoop, listener}
  NoContact = NoContact
  Nodes = {1, 2, 3}
  Seed = 1
  Alpha = 3
  Settings <- MCSettings
  MaxFaults = 1
CHECK_DEADLOCK FALSE
INVARIANTS OnlyFullBucketsRefuse AnnouncedOnce NeverBelow JoinersMeet
PROPERTY SwarmConverges
