SPECIFICATION Spec
CONSTANTS
  Gateways = {"g", "h"}
  GatewayRank <- MCGatewayRank
  Gone = Gone
  Legacy = {"g-host"}
  Canonical <- MCCanonical
  AdminGateways = {"g", "h"}
  Agents = {"g", "h", "g-host", "x"}
  Locals <- MCLocals
  Residue <- MCResidue
  ConfigAdmin <- MCConfigAdmin
  MaxRequests = 6
  MaxInvites = 2
  NoAgent = NoAgent
  NoGateway = NoGateway
CHECK_DEADLOCK FALSE
INVARIANTS TypeOK SomeAdminEnabled SpentInvitesClosed DisabledExternalStaysOut EligibilityAgrees
