SPECIFICATION Spec
CONSTANTS
  Settings <- RealtimeSession
  InputSize = 1
  OutputSize = 1
  MaxGen = 2
  MaxFrames = 0
  MaxDeltas = 0
  SegmentSize = 1
  WireSize = 1
  MaxServed = 1
INVARIANTS RevokedIsSilent
CHECK_DEADLOCK FALSE
