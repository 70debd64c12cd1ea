SPECIFICATION FairSpec
CONSTANTS
  Msgs <- MCNone
  Tasks <- MCTasks
  LocalAgents <- MCLocal
  RemoteAgents <- MCRemote
  NodeAgent = "n"
  From <- MCFrom
  To <- MCTo
  NeedsSkill = {"t1"}
  Blocked = {}
  Rank <- MCRank
  AgentRank <- MCAgentRank
  MaxAttempts = 2
  Passes = {p1, p2}
  MaxCrashes = 0
  NoKey = NoKey
  NoAgent = NoAgent
INVARIANTS OnceUnlessOverlapped AttemptsOvershoot
PROPERTIES NothingForgotten
