--------------------------- MODULE AgentRegistry ---------------------------
(***************************************************************************)
(* The agent registry (src/tools.ts, src/service.ts): who is registered,   *)
(* where, with a token or not, disabled or not, who administers which      *)
(* gateway, and the invites for external agents.  All of it is in maps of  *)
(* the shared document, of which every gateway changes its own replica;    *)
(* replicas exchange what they have at any time later.                     *)
(***************************************************************************)
EXTENDS Replica

\* Gateways: the authorized nodes.
CONSTANTS
  Legacy,          \* former node ids some records still name
  Canonical,       \* canonicalGatewayId, on the ids of nodes and of agents
  AdminGateways,   \* the nodes with the capability "admin"
  Agents,          \* nodes are agents too
  Locals,          \* per gateway: its own agents (itself and injectContextAgents)
  Residue,         \* per former node id: internal agents still bound to it
  ConfigAdmin,     \* per gateway: adminAgentId of its configuration, registered or not
  MaxRequests,     \* bound on calls (invite tools count once, others and restarts twice)
  MaxInvites,      \* bound on invites
  NoAgent, NoGateway

GatewayIds == Gateways \union Legacy
Invites == 1..MaxInvites

ASSUME SetsAssumption ==
  /\ IsFiniteSet(Agents) /\ Gateways \intersect Legacy = {}
  /\ NoAgent \notin Agents /\ NoGateway \notin GatewayIds
  /\ \A g, h \in Gateways : Canonical[g] = Canonical[h] => g = h
  /\ AdminGateways \subseteq Gateways
  /\ Locals \in [Gateways -> SUBSET Agents]
  /\ Residue \in [Legacy -> SUBSET Agents]
  /\ ConfigAdmin \in [Gateways -> Agents]

ASSUME BoundsAssumption == MaxRequests \in Nat /\ MaxInvites \in Nat

VARIABLES
  doc,       \* per gateway and key: the value, and the writes that led to it
  expired,   \* invites past their expiresAt
  issued,    \* the number of invites so far
  \* History.
  requests,
  raced,     \* a call was made on a gateway that had not received everything
  spent,     \* invites accepted, or outstanding when another was accepted
  banned     \* agents whose last disabling has not been followed by an enabling

vars == <<doc, expired, issued, requests, raced, spent, banned>>

-----------------------------------------------------------------------------
AgentKey(a) == <<"agent", a>>
AdminKey(g) == <<"admin", g>>
InviteKey(i) == <<"invite", i>>
PolicyKey == <<"policy", NoAgent>>
Keys == {AgentKey(a) : a \in Agents} \union {AdminKey(g) : g \in Gateways}
          \union {InviteKey(i) : i \in Invites} \union {PolicyKey}

AgentRecord ==
  [type : {"none", "internal", "external"}, gateway : GatewayIds \union {NoGateway},
   disabled : BOOLEAN, token : BOOLEAN, optIn : BOOLEAN]
InviteRecord == [agent : Agents \union {NoAgent}, status : {"none", "open", "used", "revoked"}]

\* What registerInternalAgents writes for an agent of gateway g.
Internal(g) ==
  [type |-> "internal", gateway |-> g, disabled |-> FALSE, token |-> FALSE, optIn |-> FALSE]
External == [Internal(NoGateway) EXCEPT !.type = "external"]
Unregistered == [External EXCEPT !.type = "none"]
NoInvite == [agent |-> NoAgent, status |-> "none"]

ValueOf(k) ==
  CASE k[1] = "agent" -> AgentRecord
    [] k[1] = "admin" -> Agents \union {NoAgent}
    [] k[1] = "invite" -> InviteRecord
    [] k[1] = "policy" -> {"all", "strict"}

ASSUME GoneAssumption ==
  Gone \notin AgentRecord \union InviteRecord \union Agents \union {NoAgent, "all", "strict"}

TypeOK ==
  /\ \A g \in Gateways, k \in Keys :
       /\ IsEntry(doc[g][k], ValueOf(k))
       /\ k[1] = "agent" => \* internal agents, and no others, are bound to a gateway
            (doc[g][k].val.type = "internal" <=> doc[g][k].val.gateway # NoGateway)
  /\ expired \subseteq Invites /\ issued \in 0..MaxInvites
  /\ requests \in 0..MaxRequests /\ raced \in BOOLEAN
  /\ spent \subseteq Invites /\ banned \subseteq Agents

\* Where an agent may be registered at first: by one of the gateways it belongs to.
Homes(a) ==
  LET own == {g \in Gateways : a \in Locals[g]}
      old == {g \in Legacy : a \in Residue[g]}
  IN CASE own # {} -> own
       [] own = {} /\ old # {} -> old
       [] own = {} /\ old = {} -> {NoGateway}

Start(k, home) ==
  CASE k[1] = "agent" ->
         IF home[k[2]] = NoGateway THEN Unregistered ELSE Internal(home[k[2]])
    [] k[1] = "admin" -> NoAgent
    [] k[1] = "invite" -> NoInvite
    [] k[1] = "policy" -> "all"

\* The gateways have started, registered their own agents, and exchanged them.
Init ==
  /\ \E home \in [Agents -> GatewayIds \union {NoGateway}] :
       /\ \A a \in Agents : home[a] \in Homes(a)
       /\ doc = [g \in Gateways |-> [k \in Keys |-> First(Start(k, home))]]
  /\ expired = {}
  /\ issued = 0
  /\ requests = 0
  /\ raced = FALSE
  /\ spent = {}
  /\ banned = {}

Agent(g, a) == doc[g][AgentKey(a)].val
Invite(g, i) == LET v == doc[g][InviteKey(i)].val IN IF v = Gone THEN NoInvite ELSE v
IsRegistered(g, a) == Agent(g, a).type # "none"

-----------------------------------------------------------------------------
(***************************************************************************)
(* Replication.                                                            *)
(***************************************************************************)

\* Gateway g writes f[k] to each key k of the domain of f.
Writes(g, f) ==
  doc' = [doc EXCEPT ![g] = [k \in Keys |->
    IF k \in DOMAIN f THEN Set(@[k], g, f[k]) ELSE @[k]]]

WritesOne(g, k, v) == Writes(g, [x \in {k} |-> v])

Received(g, h) == [k \in Keys |-> Merge(doc[h][k], doc[g][k])]

\* Gateway h receives everything g has.
Receive(g, h) ==
  /\ Received(g, h) # doc[h]
  /\ doc' = [doc EXCEPT ![h] = Received(g, h)]
  /\ UNCHANGED <<expired, issued, requests, raced, spent, banned>>

UpToDate(g) == \A h \in Gateways : Received(h, g) = doc[g]
Settled == \A g \in Gateways : UpToDate(g)

Expire(i) ==
  /\ i \in 1..issued /\ i \notin expired
  /\ expired' = expired \union {i}
  /\ UNCHANGED <<doc, issued, requests, raced, spent, banned>>

\* A call on gateway g.  Bounds: n, what it counts for, and that only calls of the
\* invite tools (for which it is 1) follow a race.
Call(g, n) ==
  /\ requests + n <= MaxRequests /\ (raced => n = 1)
  /\ requests' = requests + n
  /\ raced' = (raced \/ ~UpToDate(g))

-----------------------------------------------------------------------------
(***************************************************************************)
(* Who may act.                                                            *)
(***************************************************************************)

\* resolveRequiredAdminAgentId of gateway h, as the replica of g has it.  (Aliases
\* need no lookup: no two authorized nodes have one canonical id.)
AdminAgent(g, h) ==
  LET nominated == doc[g][AdminKey(h)].val
  IN IF nominated # NoAgent THEN nominated ELSE ConfigAdmin[h]

Enabled(g, a) == IsRegistered(g, a) /\ ~Agent(g, a).disabled

\* resolveAdminActorOrError: somebody can call as a, with the token of a or, if a is
\* internal and of this gateway, without.
CanCallAs(g, a) ==
  /\ Enabled(g, a)
  /\ \/ Agent(g, a).token
     \/ /\ Agent(g, a).type = "internal"
        /\ Agent(g, a).gateway # NoGateway
        /\ Canonical[Agent(g, a).gateway] = Canonical[g]

\* requireAdmin, then requireAdminActor of whom the call is made as.
AdminCall(g, n) ==
  /\ g \in AdminGateways
  /\ CanCallAs(g, AdminAgent(g, g))
  /\ Call(g, n)

-----------------------------------------------------------------------------
(***************************************************************************)
(* The registry's tools.                                                   *)
(***************************************************************************)

\* Nobody is asked who he is; the id must be new to this replica.
Register(g, a, type, home) ==
  /\ ~IsRegistered(g, a)
  /\ Call(g, 2)
  /\ WritesOne(g, AgentKey(a),
       [IF type = "internal" THEN Internal(home) ELSE External EXCEPT !.token = TRUE])
  /\ UNCHANGED <<expired, issued, spent, banned>>

IssueToken(g, a) ==
  /\ AdminCall(g, 2)
  /\ IsRegistered(g, a)
  /\ WritesOne(g, AgentKey(a), [Agent(g, a) EXCEPT !.token = TRUE])
  /\ UNCHANGED <<expired, issued, spent, banned>>

\* Fault: anybody may be bound to a gateway.
BindsAnybody(g, a, h) == IsRegistered(g, a) /\ Agent(g, a).gateway # h

MayRebind(g, a, h) == Agent(g, a).type = "internal" /\ Agent(g, a).gateway # h

Rebind(g, a, h) ==
  /\ MayRebind(g, a, h)
  /\ AdminCall(g, 2)
  /\ WritesOne(g, AgentKey(a), [Agent(g, a) EXCEPT !.gateway = h])
  /\ UNCHANGED <<expired, issued, spent, banned>>

\* Whom normalize moves: internal agents bound to an id that is no node's, but has
\* the canonical form of one.
Movable(g) ==
  {a \in Agents :
     /\ Agent(g, a).type = "internal" /\ Agent(g, a).gateway \in Legacy
     /\ \E h \in Gateways : Canonical[h] = Canonical[Agent(g, a).gateway]}

Normalize(g) ==
  /\ AdminCall(g, 2)
  /\ Writes(g, [k \in {AgentKey(a) : a \in Movable(g)} |->
       LET r == doc[g][k].val
       IN [r EXCEPT !.gateway = CHOOSE h \in Gateways : Canonical[h] = Canonical[@]]])
  /\ UNCHANGED <<expired, issued, spent, banned>>

\* Fault: an admin may disable himself.
DisablesAnybody(g, a) == IsRegistered(g, a) /\ ~Agent(g, a).disabled

MayDisable(g, a) ==
  /\ a # AdminAgent(g, g)
  /\ IsRegistered(g, a) /\ ~Agent(g, a).disabled

Disable(g, a) ==
  /\ MayDisable(g, a)
  /\ AdminCall(g, 2)
  /\ WritesOne(g, AgentKey(a), [Agent(g, a) EXCEPT !.disabled = TRUE])
  /\ banned' = banned \union {a}
  /\ UNCHANGED <<expired, issued, spent>>

Enable(g, a) ==
  /\ AdminCall(g, 2)
  /\ Agent(g, a).disabled
  /\ WritesOne(g, AgentKey(a), [Agent(g, a) EXCEPT !.disabled = FALSE])
  /\ banned' = banned \ {a}
  /\ UNCHANGED <<expired, issued, spent>>

\* Of gateway h, by the admin of this one.
SetGatewayAdmin(g, h, a) ==
  /\ AdminCall(g, 2)
  /\ Enabled(g, a)
  /\ WritesOne(g, AdminKey(h), a)
  /\ UNCHANGED <<expired, issued, spent, banned>>

SeedGatewayAdmins(g, a) ==
  /\ AdminCall(g, 2)
  /\ Enabled(g, a)
  /\ Writes(g, [k \in {AdminKey(h) : h \in {x \in Gateways : doc[g][AdminKey(x)].val = NoAgent}}
                  |-> a])
  /\ UNCHANGED <<expired, issued, spent, banned>>

SetDistributionPolicy(g, mode) ==
  /\ AdminCall(g, 2)
  /\ WritesOne(g, PolicyKey, mode)
  /\ UNCHANGED <<expired, issued, spent, banned>>

SetOptIn(g, a, optIn) ==
  /\ AdminCall(g, 2)
  /\ Agent(g, a).type = "external"
  /\ WritesOne(g, AgentKey(a), [Agent(g, a) EXCEPT !.optIn = optIn])
  /\ UNCHANGED <<expired, issued, spent, banned>>

-----------------------------------------------------------------------------
(***************************************************************************)
(* Invites.                                                                *)
(***************************************************************************)

\* pruneExpiredAgentInvites: the open ones that have expired are deleted.
Pruned(g) == {i \in Invites : Invite(g, i).status = "open" /\ i \in expired}

\* What `Writes' does, after pruning.
PruneThenWrites(g, f) ==
  doc' = [doc EXCEPT ![g] = [k \in Keys |->
    IF k \in DOMAIN f THEN Set(@[k], g, f[k])
    ELSE IF k \in {InviteKey(i) : i \in Pruned(g)} THEN Delete(@[k]) ELSE @[k]]]

\* A new external agent is registered right away, without a token.
InviteAgent(g, a) ==
  /\ AdminCall(g, 1)
  /\ issued < MaxInvites
  /\ Agent(g, a).type \in {"none", "external"}
  /\ issued' = issued + 1
  /\ PruneThenWrites(g,
       [k \in {InviteKey(issued')} \union (IF IsRegistered(g, a) THEN {} ELSE {AgentKey(a)}) |->
          IF k = AgentKey(a) THEN External ELSE [agent |-> a, status |-> "open"]])
  /\ UNCHANGED <<expired, spent, banned>>

\* findInviteByToken.
IsOpen(g, i) == Invite(g, i).status = "open" /\ i \notin expired

\* Fault: the record is written anew, not over the old one.
AcceptedAnew(r) == [External EXCEPT !.token = TRUE]

\* The record of an agent who accepts: a new token, external, everything else kept.
Accepted(r) == [r EXCEPT !.type = "external", !.gateway = NoGateway, !.token = TRUE]

\* Fault: the other invites of the agent stay open.
SupersedeNone(g, i) == {}

\* The invites revoked when i is accepted.
Superseded(g, i) ==
  {j \in Invites \ {i} : IsOpen(g, j) /\ Invite(g, j).agent = Invite(g, i).agent}

AcceptInvite(g, i) ==
  LET a == Invite(g, i).agent
  IN /\ IsOpen(g, i)
     /\ Agent(g, a).type \in {"none", "external"}
     /\ Call(g, 1)
     /\ PruneThenWrites(g,
          [k \in {AgentKey(a)} \union {InviteKey(j) : j \in {i} \union Superseded(g, i)} |->
             IF k = AgentKey(a) THEN Accepted(Agent(g, a))
             ELSE [agent |-> a, status |-> IF k = InviteKey(i) THEN "used" ELSE "revoked"]])
     /\ spent' = spent \union {i} \union
                   {j \in Invites : IsOpen(g, j) /\ Invite(g, j).agent = a}
     /\ UNCHANGED <<expired, issued, banned>>

\* registerInternalAgents, at every start: the gateway's own agents are written
\* over, unless the id is an external agent's.
Restart(g) ==
  /\ Call(g, 2)
  /\ Writes(g, [k \in {AgentKey(a) : a \in {x \in Locals[g] : Agent(g, x).type # "external"}}
                  |-> Internal(g)])
  /\ UNCHANGED <<expired, issued, spent, banned>>

Next ==
  \/ \E g \in Gateways :
       \/ \E a \in Agents, home \in Gateways : Register(g, a, "internal", home)
       \/ \E a \in Agents : \/ Register(g, a, "external", NoGateway)
                            \/ IssueToken(g, a) \/ Disable(g, a) \/ Enable(g, a)
                            \/ SeedGatewayAdmins(g, a) \/ InviteAgent(g, a)
                            \/ \E h \in Gateways : Rebind(g, a, h) \/ SetGatewayAdmin(g, h, a)
                            \/ \E optIn \in BOOLEAN : SetOptIn(g, a, optIn)
       \/ \E mode \in {"all", "strict"} : SetDistributionPolicy(g, mode)
       \/ \E i \in Invites : AcceptInvite(g, i)
       \/ Normalize(g) \/ Restart(g)
  \/ \E g, h \in Gateways : Receive(g, h)
  \/ \E i \in Invites : Expire(i)

Spec == Init /\ [][Next]_vars

-----------------------------------------------------------------------------
(***************************************************************************)
(* Whom a skill is distributed to.  The code asks twice, in two functions: *)
(* when it makes the tasks, and when it cleans up after a while.           *)
(***************************************************************************)

Mode(g) == doc[g][PolicyKey].val

\* listCanonicalNodeIds.
NodeIds == Gateways \union {Canonical[g] : g \in Gateways}

\* What is left of an agent named like its gateway's node from before a rename.
IsAlias(a, home) == Canonical[a] = Canonical[home] /\ a # home

\* isDistributionEligibleAgent.
IsEligible(g, a, owner) ==
  LET r == Agent(g, a)
  IN /\ a # owner
     /\ Enabled(g, a)
     /\ \/ r.type = "external" /\ (Mode(g) = "all" \/ r.optIn)
        \/ /\ r.type = "internal" /\ r.gateway # NoGateway
           /\ ~IsAlias(a, r.gateway)
           /\ r.gateway \in NodeIds

\* Fault: the clean-up does not ask whether the agent has been disabled.
IssueWithDisabled(g, a, owner) ==
  LET r == Agent(g, a)
  IN CASE a = owner -> "none"
       [] r.type = "none" -> "assignee_not_registered"
       [] r.type = "external" ->
            IF Mode(g) = "strict" /\ ~r.optIn THEN "external_not_opted_in" ELSE "none"
       [] OTHER ->
            IF r.gateway = NoGateway THEN "missing_gateway_binding"
            ELSE IF IsAlias(a, r.gateway) THEN "legacy_alias_identity"
            ELSE IF r.gateway \notin NodeIds THEN "gateway_not_authorized" ELSE "none"

\* getDistributionEligibilityIssue: why a task is failed by the clean-up.
Issue(g, a, owner) ==
  LET r == Agent(g, a)
  IN CASE a = owner -> "none"
       [] a # owner /\ r.type = "none" -> "assignee_not_registered"
       [] a # owner /\ r.type # "none" /\ r.disabled -> "assignee_disabled"
       [] a # owner /\ r.type = "external" /\ ~r.disabled ->
            IF Mode(g) = "strict" /\ ~r.optIn THEN "external_not_opted_in" ELSE "none"
       [] a # owner /\ r.type = "internal" /\ ~r.disabled ->
            IF r.gateway = NoGateway THEN "missing_gateway_binding"
            ELSE IF IsAlias(a, r.gateway) THEN "legacy_alias_identity"
            ELSE IF r.gateway \notin NodeIds THEN "gateway_not_authorized" ELSE "none"

-----------------------------------------------------------------------------
(***************************************************************************)
(* Properties.                                                             *)
(***************************************************************************)

\* Whom a configuration names as admin is registered by nobody at first, unless it is
\* an agent of a gateway.  Once one of them is registered, somebody is the admin of a
\* gateway and enabled, and somebody always will be: an admin cannot disable himself,
\* but he can disable the admin of another gateway, hand over his own, and be disabled
\* in turn, and however they go about it, one call after the other, one is left.
SomeAdminEnabled ==
  ~raced /\ Settled => \A g \in Gateways :
    (\E h \in Gateways : IsRegistered(g, ConfigAdmin[h])) =>
      \E h \in Gateways : Enabled(g, AdminAgent(g, h))

\* An invite that was accepted, or was outstanding when another one of the agent was
\* accepted, is closed for good once the replicas agree: also if it was accepted,
\* superseded and pruned on different gateways at the same time.
SpentInvitesClosed == Settled => \A g \in Gateways, i \in spent : ~IsOpen(g, i)

\* An external agent that was disabled stays so until an admin enables it: no invite,
\* token, opt-in or restart brings it back.
DisabledExternalStaysOut ==
  ~raced /\ Settled => \A g \in Gateways, a \in banned :
    Agent(g, a).type = "external" => Agent(g, a).disabled

\* On whatever replica, the clean-up fails exactly the tasks for agents that a new
\* distribution would leave out.
EligibilityAgrees ==
  \A g \in Gateways, a, owner \in Agents :
    a # owner => (IsEligible(g, a, owner) <=> Issue(g, a, owner) = "none")
=============================================================================
