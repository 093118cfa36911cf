SPECIFICATION FairSpec
CONSTANTS
  Contacts <- MCContacts
  Holders <- MCHolders
  K = 3
  Alpha = 3
  MaxReply = 2
CHECK_DEADLOCK FALSE
PROPERTY FindValueReturns
