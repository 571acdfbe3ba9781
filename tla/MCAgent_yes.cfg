SPECIFICATION Spec
CONSTANTS
  Requests = {r1}
  Facts = {"f", "g", "h", "i"}
  MaxEntries = 3
  MaxFacts = 3
  Paths = {"p", "q"}
  MaxPending = 3
  MaxActions = 5
  MaxJobs = 2
  MaxAgents = 3
  Sizes = {1, 3}
  Width = 2
  Workloads <- EachWorkload
  Sessions = {"s"}
  MaxTurns = 3
  MaxTicks = 1
PROPERTIES
  YesIsToTheQuestion
CHECK_DEADLOCK FALSE
