\* A withdrawal that overlaps the approval of the task.
SPECIFICATION Spec
CONSTANTS
  boss = boss
  chief = chief
  twoLevel = twoLevel
  NoUser = NoUser
  NoChange = NoChange
  Clients = {c1, c2}
  Users = {alice, boss, chief}
  Superusers = {chief}
  Entities = {e1}
  Changes = {ch1}
  Workflows = {default}
  Chain <- MCChain
  FailOn = {}
  MaxTasks = 1
  MaxRecords = 2
PROPERTIES WithdrawOnlyPending
