SPECIFICATION NodeSpec
CONSTANTS
  MaxSwitches = 2
  Authors = {a1}
  a1 = a1
  Deltas <- MCDeltas
  NoFile = NoFile
  Torn = Torn
  MaxRatings = 2
  MaxFaults = 1
  MaxLines = 2
  MaxStarts = 2
  MaxCrashes = 1
CHECK_DEADLOCK FALSE
INVARIANTS OneSetOfWorkers RatingsKept 
 
