CONSTANTS
  Own = {e1, e2}
  Foreign = {}
  Malformed = {x1}
  MaxGroupEmails = 3
  MaxGroupStatusLimit = 3
  DefaultLimit = 2
  Chunk = 2
  RecordSize = 2
  MaxPayload = 7
  MaxOpens = 1
  MaxFaults = 1

SPECIFICATION FairSpec
PROPERTIES EveryWalkEnds
