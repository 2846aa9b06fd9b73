\* Two overlapping requests on a fund with one task.
SPECIFICATION FundSpec
CONSTANTS
  boss = chief
  chief = chief
  twoLevel = twoLevel
  NoUser = NoUser
  NoChange = NoChange
  Clients = {c1, c2}
  Users = {chief}
  Superusers = {chief}
  Entities = {f1}
  Changes = {ch1}
  Workflows = {default}
  Chain <- MCChain
  FailOn = {}
  MaxTasks = 1
  MaxRecords = 1
SYMMETRY Symmetry
INVARIANTS LastEntryIsStatus MoneyNeedsApproval
