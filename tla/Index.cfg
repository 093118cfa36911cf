SPECIFICATION Spec
CONSTANTS
  Sharers = {2, 3, 4}
  Incoming <- MCIncoming
  Remote <- MCRemote
  Cap = 2
  Collisions = TRUE
  Expires = TRUE
  NoIndex = NoIndex
  Chunk = Chunk
  NoView = NoView
CHECK_DEADLOCK FALSE
INVARIANT WellFormed
PROPERTY MergesAlone
