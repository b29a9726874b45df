CONSTANTS
  Pollers = {p1, p2}
  Opens = {}
  Clicks = {1, 2, 3}
  Deliveries = {}
  Bounces = {}
  Complaints = {}
  Junk = {}
  Unstorable = {}
  OpenWindow = 1
  ClickWindow = 1
  MaxBatch = 1
  FaultKinds = {"update", "ack", "crash"}
  MaxFaults = 2
SYMMETRY Symmetry
SPECIFICATION Spec
CHECK_DEADLOCK FALSE
INVARIANTS NoticesDistinct CountCoversAcked
