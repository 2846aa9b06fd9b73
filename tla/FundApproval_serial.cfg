\* One request at a time on a fund and two tasks of two levels; every user is a
\* superuser and approves every level.  The write-back of an approval does not
\* fail here: FundApproval_retry.cfg shows what its retry does.
SPECIFICATION FundSpec
CONSTANTS
  boss = chief
  chief = chief
  twoLevel = twoLevel
  NoUser = NoUser
  NoChange = NoChange
  Clients = {c1}
  Users = {chief}
  Superusers = {chief}
  Entities = {f1}
  Changes = {ch1}
  Workflows = {twoLevel}
  Chain <- MCChain
  FailOn = {"pending", "rejected"}
  MaxTasks = 2
  MaxRecords = 2
INVARIANTS FundTypeOK ApprovedTaskApprovedFund HistoryIsChain DirectDecisionSettlesTasks
PROPERTIES VerdictTakesEffect SkipsNoStage
