SPECIFICATION FairSpec
CONSTANTS
  Capacity = 2
  MaxSentences = 3
  MaxFrames = 3
INVARIANTS AudioComplete ClosesWithFinal
PROPERTIES IsResponse ResponseEnds
CHECK_DEADLOCK FALSE
