SPECIFICATION FairSpec
CONSTANTS
  Settings <- EachKind
  InputSize = 1
  OutputSize = 1
  MaxGen = 2
  MaxFrames = 1
  MaxDeltas = 2
  SegmentSize = 1
  WireSize = 1
  MaxServed = 1
INVARIANTS
  TypeOK
  CompleteMeansSpoken
  OneVoice
PROPERTIES
  HostGetsOn
  EverythingStops
CHECK_DEADLOCK FALSE
