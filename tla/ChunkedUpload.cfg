\* Two overlapping requests on two sessions of two chunks; the table of
\* sessions holds one, so the second session evicts the first.
SPECIFICATION UploadSpec
CONSTANTS
  Clients = {c1, c2}
  MaxIds = 2
  NumChunks = 2
  MaxSessions = 1
\* The behaviour stops when every session the bound allows is deleted and old.
CHECK_DEADLOCK FALSE
SYMMETRY Symmetry
INVARIANTS UploadTypeOK OneMergePerSession MergingIsUnderWay
PROPERTIES MergedIsWhole SettledMergeStays
