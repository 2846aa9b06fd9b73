\* Two machines with the same ids: a sends full and incremental packages, b confirms
\* them, two at a time.
SPECIFICATION PackagesSpec
CONSTANTS
  a = a
  b = b
  v1 = v1
  v2 = v2
  v3 = v3
  p1 = p1
  p2 = p2
  p3 = p3
  p4 = p4
  NoKey = NoKey
  Machines = {a, b}
  Clients = {c1, c2}
  Villages = {v1, v2, v3}
  Projects = {p1, p2, p3, p4}
  KeyOf <- Keys
  Invalid = {p4}
  Entered <- ByHand
  Senders = {a}
  Receivers = {b}
  Start <- InUse
  Orders <- ParentsFirst
  Modes = {"overwrite", "newer"}
  GroupLimit = 1
  MaxTime = 2
  MaxPackages = 2
  MaxRecords = 2
\* The behaviour stops when every bound is reached.
CHECK_DEADLOCK FALSE
SYMMETRY Symmetry
CONSTRAINT ExportsApart
INVARIANTS PackageTypeOK ReceiptIsTrue
PROPERTIES NoRowIsTakenOver GuardedImportKeepsEdits ProjectsFollowVillages
