CONSTANTS
  Pollers = {p1}
  Opens = {1, 2}
  Clicks = {}
  Deliveries = {}
  Bounces = {}
  Complaints = {}
  Junk = {}
  Unstorable = {}
  OpenWindow = 2
  ClickWindow = 1
  MaxBatch = 1
  FaultKinds = {"update"}
  MaxFaults = 1
SPECIFICATION Spec
CHECK_DEADLOCK FALSE
INVARIANTS NewEventPublished
