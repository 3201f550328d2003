SPECIFICATION Spec
CONSTANTS
  u1 = u1
  u2 = u2
  d1 = d1
  d2 = d2
  Users = {u1, u2}
  FirstUser = u1
  Docs = {d1, d2}
  MaxPendingWrites = 2
  Budgets <- Scenarios
INVARIANTS
  ResponsesMatchPipeline
  AssertionsHold
  NoWriteLost
  OwnWritesShown
  SettledMeansEqual
PROPERTIES
  QueueSpec
  EverythingSettles
CHECK_DEADLOCK FALSE
