SPECIFICATION Spec
CONSTANTS
  SpeechOn = 62
  SpeechOff = 34
  BargeInCommit = 180
  MinimumUserTurn = 280
  BackchannelAfter = 200
  BackchannelSpacing = 300
  Frame = 100
  Levels <- MCLevels
  ProfileSet <- MCProfiles
  MaxClock = 900
  MaxGen = 2
INVARIANTS
  TypeOK
  YieldIsSustained
  ResponseFollowsPause
  DuckIsSettled
CHECK_DEADLOCK FALSE
