SPECIFICATION Spec
CONSTANTS
  OnsetThreshold = 3
  HangoverThreshold = 15
  MaxFrames = 40
INVARIANTS CountsExact NothingClipped
PROPERTIES IsUtteranceStream
CHECK_DEADLOCK FALSE
