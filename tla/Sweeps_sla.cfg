SPECIFICATION FairSpec
CONSTANTS
  Gateways = {"g", "h"}
  GatewayRank <- MCGatewayRank
  Gone = Gone
  Backbones = {"g", "h"}
  SweepEnabled = {"g", "h"}
  CoordinatorIds = {"g", "h", "e"}
  TaskOrder <- MCOneTask
  Contract = {"t1"}
  Recipients <- MCRecipients
  AcceptWithin = 0
  ProgressWithin = 0
  CompleteWithin = 0
  Every = 1
  MaxMessages = 2
  MaxTime = 3
  MaxWrites = 2
  Never = Never
CHECK_DEADLOCK FALSE
INVARIANTS TypeOK ToldOnce BudgetNearlyKept
PROPERTIES MissedIsStamped
