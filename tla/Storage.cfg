SPECIFICATION Spec
CONSTANTS
  k1 = k1
  k2 = k2
  small = small
  huge = huge
  alice = alice
  Keys = {k1, k2}
  Blobs = {small, huge}
  BlobSize <- MCBlobSize
  BlobAuthor <- MCBlobAuthor
  Authors = {alice}
  NoAuthor = NoAuthor
  MaxStorage = 2
  StoreStates = {"", "committed"}
  Hour = 1
  Day = 1
  Scores <- MCScores
  NoMeta = NoMeta
  NoFile = NoFile
  Torn = Torn
  TornMeta = TornMeta
  NoReq = NoReq
  MaxClock = 2
  MaxCrashes = 1
  MaxSaves = 1
  MaxDrift = 3
  MaxFaults = 1
SYMMETRY Symmetry
INVARIANTS
  CommittedIntact
  NeverOvercounts
  QuotaOrAlone
  AccountingExact
  SavedAtRest
PROPERTY EvictionNeeded
