SPECIFICATION Spec
CONSTANTS
  Gateways = {"g", "h"}
  GatewayRank <- MCGatewayRank
  Gone = Gone
  Nodes = {"g", "h", "n"}
  Founders = {"g"}
  Bindings = {"n", Anyone}
  RequireTicket = FALSE
  MaxRequests = 5
  MaxInvites = 1
  MaxTickets = 1
  MaxExpiries = 1
  Anyone = Anyone
CHECK_DEADLOCK FALSE
INVARIANTS TypeOK OncePerGateway SingleUse NodesAsInvited SomeBackboneLeft
