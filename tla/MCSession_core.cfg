SPECIFICATION Spec
CONSTANTS
  SpeechOn = 62
  SpeechOff = 34
  BargeInCommit = 100
  MinimumUserTurn = 100
  BackchannelAfter = 200
  BackchannelSpacing = 300
  Frame = 100
  Levels <- MCLevels
  ProfileSet <- MCProfiles
  Offsets = {0, 150}
  Outputs = {"partial", "audio", "audio_dropped", "generating", "complete"}
  TaskIds = {}
  Deadlines = {}
  SafetyEnabled = FALSE
  MaxClock = 500
  MaxGen = 3
INVARIANTS
  TypeOK
  FloorFollowsGeneration
  YieldSilencesEverything
  StartDecisionServed
  RepairNamesLastAnswer
PROPERTIES
  CancelReachesProvider
  TurnsSpec
CHECK_DEADLOCK FALSE
