SPECIFICATION FairSpec
CONSTANTS
  Tasks = {t1}
  Proofs = {p1}
  Settled = {"success"}
  QueueSize = 1
  MaxSessions = 2
  MaxSequence = 3
  MaxFaults = 1
INVARIANTS
  TypeOK
  NothingSkipped
  SeenOnceInOrder
  SeenCanBeRead
  OutcomesAgree
PROPERTIES SessionsAreReleased
CHECK_DEADLOCK FALSE
