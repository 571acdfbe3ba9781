SPECIFICATION Spec
CONSTANTS
  SpeechOn = 62
  SpeechOff = 34
  BargeInCommit = 100
  MinimumUserTurn = 100
  BackchannelAfter = 200
  BackchannelSpacing = 300
  Frame = 100
  Levels <- MCQuiet
  ProfileSet <- MCProfiles
  Offsets = {0}
  Outputs <- MCCascadeOutputs
  TaskIds = {}
  Deadlines = {}
  SafetyEnabled = TRUE
  MaxClock = 200
  MaxGen = 2
INVARIANTS
  GateIsPerGeneration
CHECK_DEADLOCK FALSE
