\* A change is filed and rejected.
SPECIFICATION GateSpec
CONSTANTS
  boss = boss
  chief = chief
  twoLevel = twoLevel
  NoUser = NoUser
  NoChange = NoChange
  Deletion = Deletion
  Original = Original
  Clients = {c1}
  Users = {boss, chief}
  Superusers = {chief}
  Admins = {chief}
  Entities = {v1}
  Changes = {ch1, Deletion}
  Workflows = {default}
  Chain <- MCChain
  FailOn = {}
  MaxTasks = 1
  MaxRecords = 1
PROPERTIES RejectionChangesNothing
