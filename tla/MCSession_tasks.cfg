SPECIFICATION Spec
CONSTANTS
  SpeechOn = 62
  SpeechOff = 34
  BargeInCommit = 100
  MinimumUserTurn = 100
  BackchannelAfter = 200
  BackchannelSpacing = 300
  Frame = 100
  Levels <- MCQuiet
  ProfileSet <- MCProfiles
  Offsets = {0}
  Outputs <- MCTaskOutputs
  TaskIds = {t1, t2}
  Deadlines = {100}
  SafetyEnabled = TRUE
  MaxClock = 200
  MaxGen = 2
INVARIANTS
  EvidenceStaysInTurn
PROPERTIES
  InterventionHolds
  SuccessOnlyByOwnGeneration
  LedgerSpec
SYMMETRY TaskSymmetry
CHECK_DEADLOCK FALSE
