SPECIFICATION Spec
CONSTANTS
  Gateways <- MCGateways
  GatewayRank <- MCGatewayRank
  Agents <- MCAgents
  Host <- MCHost
  VersionOrder <- MCVersionOrder
  Offers <- MCFirstOnly
  Admin <- MCAdmin
  TrustedKeys = {"key"}
  AllowUnsigned = TRUE
  Restarting = {"g"}
  MaxRequests = 3
  MaxFaults = 1
  FailurePoints = {1, 3}
  NoVersion = NoVersion
  NoAgent = NoAgent
CHECK_DEADLOCK FALSE
INVARIANTS SkillsRehydrated
