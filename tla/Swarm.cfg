SPECIFICATION BothSpec
CONSTANTS
  n1 = n1
  n2 = n2
  n3 = n3
  memo = memo
  book = book
  c1 = c1
  seg = seg
  manifest = manifest
  topic = topic
  Nodes = {n1, n2}
  Contents = {memo}
  Ids = {c1, topic}
  Keywords = {topic}
  ChunksOf <- MCChunksOf
  KeywordsOf <- MCKeywordsOf
  ShareStates <- MCShareStates
  Indexed = {n2}
  Oversized = {topic}
  Expiring = {topic}
  NoKey = NoKey
  Replicas = {n1, n2}
  Day = 3
  GCPeriod = 2
  RepPeriod = 12
  MaxShares = 2
  MaxRestarts = 1
INVARIANTS WIPStaysLocal  NeverRenewed
PROPERTIES  CommittedSpreads
