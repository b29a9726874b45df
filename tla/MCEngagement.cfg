CONSTANTS
  Pollers = {p1, p2}
  Opens = {1, 2}
  Clicks = {}
  Deliveries = {}
  Bounces = {3}
  Complaints = {4}
  Junk = {}
  Unstorable = {}
  OpenWindow = 2
  ClickWindow = 1
  MaxBatch = 1
  FaultKinds = {"read", "update", "publish", "ack", "crash"}
  MaxFaults = 1
SYMMETRY Symmetry
SPECIFICATION Spec
CHECK_DEADLOCK FALSE
INVARIANTS TypeOK SummaryExact AckedIsRecorded NoticeOnce
PROPERTIES NothingForgotten ImplementsTally
