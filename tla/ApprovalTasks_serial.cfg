\* Requests one after the other, two workflows, every kind of failure.
SPECIFICATION Spec
CONSTANTS
  boss = boss
  chief = chief
  twoLevel = twoLevel
  NoUser = NoUser
  NoChange = NoChange
  Clients = {c1}
  Users = {alice, boss, chief}
  Superusers = {chief}
  Entities = {e1}
  Changes = {ch1, ch2}
  Workflows = {twoLevel, default}
  Chain <- MCChain
  FailOn = {"approved", "rejected", "pending"}
  MaxTasks = 1
  MaxRecords = 4
INVARIANTS ApprovedInThisRound LevelOwnersDecide
PROPERTIES DecidedByAssignee ImplementsLedger
