SPECIFICATION Spec
CONSTANTS
  Turn = {t1, t2}
  MaxConcurrent = 1
  MaxSentences = 2
INVARIANTS
  StreamsWithinLimit
CHECK_DEADLOCK FALSE
