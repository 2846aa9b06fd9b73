\* The write-back of an approval fails and is retried.
SPECIFICATION FundSpec
CONSTANTS
  boss = boss
  chief = chief
  twoLevel = twoLevel
  NoUser = NoUser
  NoChange = NoChange
  Clients = {c1}
  Users = {alice, chief}
  Superusers = {chief}
  Entities = {f1}
  Changes = {ch1}
  Workflows = {default}
  Chain <- MCChain
  FailOn = {"approved"}
  MaxTasks = 1
  MaxRecords = 2
PROPERTIES RetryTakesEffect
