\* One request at a time: a change and a deletion of one entity.
SPECIFICATION GateSpec
CONSTANTS
  boss = boss
  chief = chief
  twoLevel = twoLevel
  NoUser = NoUser
  NoChange = NoChange
  Deletion = Deletion
  Original = Original
  Clients = {c1}
  Users = {boss, chief}
  Superusers = {chief}
  Admins = {chief}
  Entities = {v1}
  Changes = {ch1, Deletion}
  Workflows = {twoLevel}
  Chain <- MCChain
  FailOn = {"approved", "rejected"}
  MaxTasks = 1
  MaxRecords = 3
INVARIANTS GateTypeOK
PROPERTIES ApprovedChangeInEffect
