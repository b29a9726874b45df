CONSTANTS
  Pollers = {p1, p2}
  Opens = {1}
  Clicks = {}
  Deliveries = {2}
  Bounces = {}
  Complaints = {}
  Junk = {3}
  Unstorable = {2}
  OpenWindow = 1
  ClickWindow = 1
  MaxBatch = 2
  FaultKinds = {"read", "update", "publish", "ack", "crash"}
  MaxFaults = 1
SPECIFICATION FairSpec
CHECK_DEADLOCK FALSE
PROPERTIES EveryEventSettled
