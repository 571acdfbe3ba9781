SPECIFICATION Spec
CONSTANTS
  SpeechOn = 62
  SpeechOff = 34
  BargeInCommit = 100
  MinimumUserTurn = 100
  BackchannelAfter = 200
  BackchannelSpacing = 300
  Frame = 100
  Levels <- MCLevels
  ProfileSet <- MCProfiles
  Offsets = {0, 150}
  Outputs <- MCTaskOutputs
  TaskIds = {}
  Deadlines = {}
  SafetyEnabled = FALSE
  MaxClock = 200
  MaxGen = 2
INVARIANTS
  CancelIsDecided
CHECK_DEADLOCK FALSE
