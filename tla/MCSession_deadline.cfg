SPECIFICATION FairSpec
CONSTANTS
  SpeechOn = 62
  SpeechOff = 34
  BargeInCommit = 100
  MinimumUserTurn = 100
  BackchannelAfter = 200
  BackchannelSpacing = 300
  Frame = 100
  Levels <- MCQuiet
  ProfileSet <- MCProfiles
  Offsets = {0, 150}
  Outputs <- MCTaskOutputs
  TaskIds = {"t1"}
  Deadlines = {100}
  SafetyEnabled = FALSE
  MaxClock = 200
  MaxGen = 2
PROPERTIES
  DeadlineEnforced
CHECK_DEADLOCK FALSE
