CONSTANTS
  Own = {e1, e2, e3}
  Foreign = {f1}
  Malformed = {}
  MaxGroupEmails = 4
  MaxGroupStatusLimit = 2
  DefaultLimit = 2
  Chunk = 2
  RecordSize = 2
  MaxPayload = 7
  MaxOpens = 1
  MaxFaults = 1
SYMMETRY Symmetry
SPECIFICATION Spec
INVARIANTS TypeOK WalkComplete WalkInOrder AnalyticsBracketed PageSizeExact
