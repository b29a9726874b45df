CONSTANTS
  Opens = {o1, o2, o3, o4, o5}
  Clicks = {c1, c2, c3}
  ShortLink = c1
  Flags = {delivered, failed}
  OpenBytes = 2
  IdBytes = 1
  EntryBytes <- ClickBytes
  BaseBytes = 2
  MaxScalarBytes = 2
  MaxKVRecordBytes = 8
  CompactAboveBytes = 9
  MaxOpenEvents = 3
  MaxClickEventIDs = 2
  TrimStep = 2
  MaxValueBytes = 12
  MaxApplied = 2
SYMMETRY Symmetry
SPECIFICATION Spec
INVARIANTS Storable CountsSurviveTrimming
PROPERTIES ReplayNotCounted ForgottenOnlyWhenFull TrimsOldestOnly
