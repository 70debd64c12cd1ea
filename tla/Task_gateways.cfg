SPECIFICATION Spec
CONSTANTS
  Replicas <- MCTwoGateways
  Tasks <- MCOneTask
  Agents <- MCAgents
  Candidates <- MCCandidates
  Requester <- MCRequester
  Admin <- MCAdmin
  Contract = {"t1"}
  HighRisk = {"t1"}
  Unmetered <- MCDistribution
  Distribution <- MCDistribution
  Ineligible = {"a"}
  ClientKeys = {}
  MaxConcurrent = 1
  MaxQueueDepth = 1
  RetryBudget = 1
  Coordinators = {"g"}
  ReplicaRank <- MCReplicaRank
  MaxWrites = 3
  NoAgent = NoAgent
CHECK_DEADLOCK FALSE
INVARIANTS ExecutionIsLicensed
PROPERTIES AgreedClaimIsFinal
