CONSTANTS
  Replicas = {r1, r2}
  Requests = {q1, q2, q3}
  Forged = Forged
  None = None
  MaxGroupEmails = 2
  StoreModes = {"kv", "null"}
SPECIFICATION FairSpec
INVARIANTS
  IssuedHandleWorks
  OnlyIssuedGroups
PROPERTIES
  EveryRequestAnswered
