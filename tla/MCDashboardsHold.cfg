SPECIFICATION FairHoldSpec
CONSTANTS
  Watch = watch
  Samplers = {sampler}
  Saves = {save1}
  RestartBudget = 1
  MaxPolls = 2
  MaxTrouble = 2
INVARIANTS
  NoOrphanZero
PROPERTIES
  DashboardsComesUp
