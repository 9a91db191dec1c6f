SPECIFICATION FairSpec
CONSTANTS
  Turn = {t1, t2, t3}
  MaxConcurrent = 2
  MaxSentences = 2
INVARIANTS PoolBalanced WaitersNotForgotten OneCallPerTurn NoSecondAnswer
PROPERTIES TurnEnds
CHECK_DEADLOCK FALSE
