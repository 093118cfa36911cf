SPECIFICATION LookupsSpec
CONSTANTS
  Contacts <- MCContacts
  Holders <- MCHolders
  K = 3
  Alpha = 2
  MaxReply = 3
CHECK_DEADLOCK FALSE
INVARIANTS AskedOnce ResultComplete 
PROPERTIES Termination QueriesEnd EndsWithoutValue
