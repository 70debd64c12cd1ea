SPECIFICATION Spec
CONSTANTS
  Replicas <- MCOneGateway
  Tasks <- MCTwoTasks
  Agents <- MCAgents
  Candidates <- MCCandidates
  Requester <- MCRequester
  Admin <- MCAdmin
  Contract = {"t1"}
  HighRisk = {"t1"}
  Unmetered <- MCDistribution
  Distribution <- MCDistribution
  Ineligible = {"a"}
  ClientKeys = {k}
  MaxConcurrent = 1
  MaxQueueDepth = 1
  RetryBudget = 1
  Coordinators = {"g"}
  ReplicaRank <- MCReplicaRank
  MaxWrites = 5
  NoAgent = NoAgent
CHECK_DEADLOCK FALSE
INVARIANTS TypeOK ExecutionIsLicensed OncePerKey RetriesBounded
PROPERTIES AgreedClaimIsFinal
