\* Two overlapping requests on one task of a two-level workflow.
SPECIFICATION Spec
CONSTANTS
  boss = boss
  chief = chief
  twoLevel = twoLevel
  NoUser = NoUser
  NoChange = NoChange
  Clients = {c1, c2}
  Users = {alice, boss, chief}
  Superusers = {chief}
  Entities = {e1}
  Changes = {ch1}
  Workflows = {twoLevel}
  Chain <- MCChain
  FailOn = {"approved", "rejected"}
  MaxTasks = 1
  MaxRecords = 4
SYMMETRY Symmetry
INVARIANTS TypeOK OneDecisionPerLevel ApprovedAtEveryLevel
