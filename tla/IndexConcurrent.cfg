SPECIFICATION Spec
CONSTANTS
  Sharers = {2, 3, 4}
  Incoming = {}
  Remote = {}
  Cap = 6
  Collisions = FALSE
  Expires = FALSE
  NoIndex = NoIndex
  Chunk = Chunk
  NoView = NoView
CHECK_DEADLOCK FALSE
PROPERTY MergesConcurrently
