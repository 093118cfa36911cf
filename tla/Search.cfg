SPECIFICATION FairSpec
CONSTANTS
  go = go
  raft = raft
  note = note
  book = book
  page = page
  alice = alice
  Keywords = {go, raft}
  Data = {note}
  Manifests = {book}
  Segments = {page}
  Pointers <- MCPointers
  SegmentsOf <- MCSegmentsOf
  AuthorOf <- MCAuthorOf
  Authors = {alice}
  NoAuthor = NoAuthor
  Rejected = {}
  MinReputation <- MCMinReputation
  Scores <- MCScores
  Exact = {book, raft, note}
  Several = {{go, raft}}
  NoTarget = NoTarget
CHECK_DEADLOCK FALSE
INVARIANTS ListedUnderAll TrustedResults  SeveralTermsComplete
 
