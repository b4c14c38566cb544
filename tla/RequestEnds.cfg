SPECIFICATION Spec
CONSTANTS
  r1 = r1
  r2 = r2
  Requests = {r1, r2}
  QueueCap = 1
  BatchMax = 2
  MaxTasks = 1
  MaxDirect = 1
INVARIANTS TypeOK NothingForgotten
PROPERTIES KeepsLedger EndIsWritten
CHECK_DEADLOCK FALSE
