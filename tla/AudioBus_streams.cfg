SPECIFICATION FairSpec
CONSTANTS
  s1 = s1 s2 = s2 d1 = d1
  Session = {s1, s2}
  Device = {d1}
  DeviceOf <- OneDevice
  Nothing = Nothing
  BusCapacity = 1
  SessionCapacity = 1
  SequenceRange = 2
  InitialBackoff = 1
  MaxBackoff = 2
  MaxFrames <- TwoThenOne
  MaxStreams = 2
INVARIANTS InOrderOnce DrainedWithItsStream ConfigOnFirstStart
PROPERTIES FrameAccepted CancelledClientReturns
CHECK_DEADLOCK FALSE
