SPECIFICATION Spec
CONSTANTS
  Tasks = {t1}
  Proofs = {}
  Settled = {"success"}
  QueueSize = 1
  MaxSessions = 2
  MaxSequence = 5
  MaxFaults = 0
INVARIANTS
  ReceiptSurvivesReconnect
CHECK_DEADLOCK FALSE
