SPECIFICATION FairSpec
CONSTANTS
  d1 = d1
  d2 = d2
  s1 = s1
  s2 = s2
  s3 = s3
  Session = {s1, s2}
  Device = {d1}
  DeviceOf <- OneDevice
  NoSession = NoSession
  BusCapacity = 1
  TtsCapacity = 1
INVARIANTS NoStaleRegistration NoAbandonedSubscription
PROPERTIES SessionEnds
CHECK_DEADLOCK FALSE
