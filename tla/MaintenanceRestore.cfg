\* Two restores, one after the other or overlapping, one writing request and
\* one job.
SPECIFICATION FairRestoreSpec
CONSTANTS
  Restores = {r1, r2}
  Writers = {w1}
  Jobs = {j1}
\* Every thread runs once, and a torn database keeps the process down.
CHECK_DEADLOCK FALSE
INVARIANTS RestoreTypeOK AcknowledgedWritesStay UsableAfterRestore
PROPERTIES MaintenanceEnds
