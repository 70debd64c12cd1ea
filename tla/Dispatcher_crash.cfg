SPECIFICATION FairSpec
CONSTANTS
  Msgs <- MCOneMsg
  Tasks <- MCNone
  LocalAgents <- MCLocal
  RemoteAgents <- MCRemote
  NodeAgent = "n"
  From <- MCFrom
  To <- MCToA
  NeedsSkill = {}
  Blocked = {}
  Rank <- MCRank
  AgentRank <- MCAgentRank
  MaxAttempts = 2
  Passes = {p1, p2}
  MaxCrashes = 2
  NoKey = NoKey
  NoAgent = NoAgent
INVARIANTS NoFalseDelivery
PROPERTIES NothingForgotten KeepsPromise
