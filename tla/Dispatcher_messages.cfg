SPECIFICATION Spec
CONSTANTS
  Msgs <- MCMsgs
  Tasks <- MCNone
  LocalAgents <- MCLocal
  RemoteAgents <- MCRemote
  NodeAgent = "n"
  From <- MCFrom
  To <- MCTo
  NeedsSkill = {}
  Blocked = {}
  Rank <- MCRank
  AgentRank <- MCAgentRank
  MaxAttempts = 2
  Passes = {p1, p2}
  MaxCrashes = 0
  NoKey = NoKey
  NoAgent = NoAgent
SYMMETRY Symmetry
INVARIANTS TypeOK InFlightOwned OnceUnlessOverlapped AttemptsOvershoot MessageDuplicatesBounded
PROPERTIES MessageStaysDelivered
