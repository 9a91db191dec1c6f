SPECIFICATION FairSpec
CONSTANTS
  s1 = s1 s2 = s2
  Session = {s1, s2}
  MinPieces = 2
  MaxPieces = 1
  OutputCapacity = 1
  TtsCapacity = 1
  Lengths <- LongBesideShort
  MaxClips = 2
  MaxPackets = 1
INVARIANTS ClipsGapless OutputsNeverGoBack EveryClipAnswered
PROPERTIES ClipSettles ClosedStreamEnds
CHECK_DEADLOCK FALSE
