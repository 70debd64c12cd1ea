--------------------------- MODULE RegistryProofs ---------------------------
(***************************************************************************)
(* Proofs about AgentRegistry, for any gateways, agents and bounds.        *)
(*                                                                         *)
(* A call is described by what it writes: the values fit their maps, an    *)
(* agent that is registered stays so, an invite is opened once and closed  *)
(* from open.  From that follow the types, and the two directions the      *)
(* properties take: what holds of the latest state while no call races     *)
(* with another one, and what the counts of writes say of an invite        *)
(* whatever races.                                                         *)
(***************************************************************************)
EXTENDS AgentRegistry, ReplicaProofs

-----------------------------------------------------------------------------
(***************************************************************************)
(* Values.                                                                 *)
(***************************************************************************)

\* Internal agents are those bound to a gateway, and whoever is disabled is registered.
GoodAgents ==
  {r \in AgentRecord : /\ r.type = "internal" <=> r.gateway # NoGateway
                       /\ r.disabled => r.type # "none"}

\* An open invite is somebody's.
GoodInvites == {v \in InviteRecord : v.status = "open" => v.agent \in Agents}

\* What the map of key k may hold; only invites are ever deleted.
Good(k) ==
  CASE k[1] = "agent" -> GoodAgents
    [] k[1] = "admin" -> Agents \union {NoAgent}
    [] k[1] = "invite" -> GoodInvites
    [] k[1] = "policy" -> {"all", "strict"}

IsInviteKey(k) == \E i \in Invites : k = InviteKey(i)

Types == [k \in Keys |-> Good(k)]

DocOK ==
  /\ doc = [g \in Gateways |-> [k \in Keys |-> doc[g][k]]]
  /\ IsDocument(doc, Keys, Types)
  /\ \A g \in Gateways, k \in Keys : doc[g][k].val = Gone => IsInviteKey(k)

\* Every key has its map.
LEMMA AllKeys ==
  /\ \A a \in Agents : AgentKey(a) \in Keys /\ Good(AgentKey(a)) = GoodAgents
                         /\ ValueOf(AgentKey(a)) = AgentRecord /\ AgentKey(a)[1] = "agent"
  /\ \A g \in Gateways : AdminKey(g) \in Keys /\ Good(AdminKey(g)) = Agents \union {NoAgent}
                           /\ ValueOf(AdminKey(g)) = Agents \union {NoAgent}
                           /\ AdminKey(g)[1] = "admin"
  /\ \A i \in Invites : InviteKey(i) \in Keys /\ Good(InviteKey(i)) = GoodInvites
                          /\ ValueOf(InviteKey(i)) = InviteRecord /\ InviteKey(i)[1] = "invite"
  /\ PolicyKey \in Keys /\ Good(PolicyKey) = {"all", "strict"}
       /\ ValueOf(PolicyKey) = {"all", "strict"} /\ PolicyKey[1] = "policy"
  /\ \A k \in Keys : \/ \E a \in Agents : k = AgentKey(a)
                     \/ \E g \in Gateways : k = AdminKey(g)
                     \/ \E i \in Invites : k = InviteKey(i)
                     \/ k = PolicyKey
BY DEF Keys, AgentKey, AdminKey, InviteKey, PolicyKey, Good, ValueOf

\* Different keys have different names.
LEMMA KeyNames ==
  /\ \A a, g, i : /\ AgentKey(a) # AdminKey(g) /\ AgentKey(a) # InviteKey(i) /\ AgentKey(a) # PolicyKey
                  /\ AdminKey(g) # InviteKey(i) /\ AdminKey(g) # PolicyKey
                  /\ InviteKey(i) # PolicyKey
  /\ \A x, y : /\ AgentKey(x) = AgentKey(y) => x = y
               /\ AdminKey(x) = AdminKey(y) => x = y
               /\ InviteKey(x) = InviteKey(y) => x = y
BY DEF AgentKey, AdminKey, InviteKey, PolicyKey

\* No value of a map is Gone.
LEMMA NotGone ==
  /\ \A r \in GoodAgents : r # Gone
  /\ \A v \in GoodInvites : v # Gone
  /\ \A a \in Agents \union {NoAgent} : a # Gone
  /\ \A p \in {"all", "strict"} : p # Gone
  /\ \A k \in Keys : Gone \notin Good(k)
<1>1. /\ \A r \in GoodAgents : r # Gone
      /\ \A v \in GoodInvites : v # Gone
      /\ \A a \in Agents \union {NoAgent} : a # Gone
      /\ \A p \in {"all", "strict"} : p # Gone
  BY GoneAssumption DEF GoodAgents, GoodInvites
<1> QED BY <1>1, AllKeys

\* What a replica holds.
LEMMA HeldValues ==
  ASSUME DocOK, NEW g \in Gateways
  PROVE  /\ \A a \in Agents : Agent(g, a) \in GoodAgents
         /\ \A h \in Gateways : doc[g][AdminKey(h)].val \in Agents \union {NoAgent}
         /\ \A i \in Invites : doc[g][InviteKey(i)].val \in GoodInvites \union {Gone}
         /\ \A i \in Invites : Invite(g, i) \in GoodInvites
         /\ Mode(g) \in {"all", "strict"}
<1>1. \A k \in Keys : doc[g][k].val \in Good(k) \/ (doc[g][k].val = Gone /\ IsInviteKey(k))
  BY DEF DocOK, IsDocument, IsEntry, Types
<1>2. NoInvite \in GoodInvites
  BY DEF NoInvite, GoodInvites, InviteRecord
<1>3. \A a \in Agents : Agent(g, a) \in GoodAgents
  BY <1>1, AllKeys, KeyNames DEF Agent, IsInviteKey
<1>4. \A h \in Gateways : doc[g][AdminKey(h)].val \in Agents \union {NoAgent}
  BY <1>1, AllKeys, KeyNames DEF IsInviteKey
<1>5. \A i \in Invites : doc[g][InviteKey(i)].val \in GoodInvites \union {Gone}
  BY <1>1, AllKeys, KeyNames
<1>6. Mode(g) \in {"all", "strict"}
  BY <1>1, AllKeys, KeyNames DEF Mode, IsInviteKey
<1>7. \A i \in Invites : Invite(g, i) \in GoodInvites
  BY <1>2, <1>5 DEF Invite
<1> QED BY <1>3, <1>4, <1>5, <1>6, <1>7

\* The records the tools make of one another.
LEMMA Records ==
  /\ External \in GoodAgents /\ Unregistered \in GoodAgents
  /\ External.type = "external" /\ ~External.disabled
  /\ Unregistered.type = "none" /\ ~Unregistered.disabled
  /\ External.gateway = NoGateway /\ Unregistered.gateway = NoGateway
  /\ \A g \in GatewayIds :
       /\ Internal(g) \in GoodAgents
       /\ Internal(g).type = "internal" /\ ~Internal(g).disabled /\ Internal(g).gateway = g
  /\ \A r \in GoodAgents :
       /\ \A b \in BOOLEAN :
            /\ [r EXCEPT !.token = b] \in GoodAgents
            /\ [r EXCEPT !.token = b].type = r.type /\ [r EXCEPT !.token = b].disabled = r.disabled
            /\ [r EXCEPT !.optIn = b] \in GoodAgents
            /\ [r EXCEPT !.optIn = b].type = r.type /\ [r EXCEPT !.optIn = b].disabled = r.disabled
            /\ r.type # "none" => [r EXCEPT !.disabled = b] \in GoodAgents
            /\ [r EXCEPT !.disabled = b].type = r.type /\ [r EXCEPT !.disabled = b].disabled = b
       /\ Accepted(r) \in GoodAgents
       /\ Accepted(r).type = "external" /\ Accepted(r).disabled = r.disabled
       /\ r.type = "internal" => \A h \in Gateways :
            /\ [r EXCEPT !.gateway = h] \in GoodAgents
            /\ [r EXCEPT !.gateway = h].type = r.type /\ [r EXCEPT !.gateway = h].disabled = r.disabled
<1>1. NoGateway \notin GatewayIds /\ Gateways \subseteq GatewayIds
  BY SetsAssumption DEF GatewayIds
<1>2. \A g : Internal(g) = [type |-> "internal", gateway |-> g, disabled |-> FALSE,
                          token |-> FALSE, optIn |-> FALSE]
  BY DEF Internal
<1>3. ASSUME NEW r \in AgentRecord, NEW t \in {"none", "internal", "external"}
      PROVE  /\ [r EXCEPT !.type = t] \in AgentRecord
             /\ [r EXCEPT !.type = t].type = t
             /\ [r EXCEPT !.type = t].gateway = r.gateway /\ [r EXCEPT !.type = t].disabled = r.disabled
  BY <1>3 DEF AgentRecord
<1>4. /\ \A g \in GatewayIds \union {NoGateway} :
           /\ Internal(g) \in AgentRecord
           /\ Internal(g).type = "internal" /\ Internal(g).gateway = g /\ ~Internal(g).disabled
  BY <1>2 DEF AgentRecord
<1>5. /\ External \in AgentRecord /\ External.type = "external"
      /\ External.gateway = NoGateway /\ ~External.disabled
  <2>1. /\ Internal(NoGateway) \in AgentRecord
        /\ Internal(NoGateway).gateway = NoGateway /\ ~Internal(NoGateway).disabled
    BY <1>4
  <2>2. \A r : r = Internal(NoGateway) => External = [r EXCEPT !.type = "external"]
    BY DEF External
  <2> QED BY <1>3, <2>1, <2>2
<1>6. /\ Unregistered \in AgentRecord /\ Unregistered.type = "none"
      /\ Unregistered.gateway = NoGateway /\ ~Unregistered.disabled
  BY <1>3, <1>5 DEF Unregistered
<1>7. ASSUME NEW r \in GoodAgents, NEW b \in BOOLEAN
      PROVE  /\ [r EXCEPT !.token = b] \in GoodAgents
             /\ [r EXCEPT !.token = b].type = r.type /\ [r EXCEPT !.token = b].disabled = r.disabled
             /\ [r EXCEPT !.optIn = b] \in GoodAgents
             /\ [r EXCEPT !.optIn = b].type = r.type /\ [r EXCEPT !.optIn = b].disabled = r.disabled
             /\ r.type # "none" => [r EXCEPT !.disabled = b] \in GoodAgents
             /\ [r EXCEPT !.disabled = b].type = r.type /\ [r EXCEPT !.disabled = b].disabled = b
  BY <1>7 DEF GoodAgents, AgentRecord
<1>8. ASSUME NEW r \in GoodAgents
      PROVE  /\ Accepted(r) \in GoodAgents
             /\ Accepted(r).type = "external" /\ Accepted(r).disabled = r.disabled
  BY <1>8 DEF GoodAgents, AgentRecord, Accepted
<1>9. ASSUME NEW r \in GoodAgents, r.type = "internal", NEW h \in Gateways
      PROVE  /\ [r EXCEPT !.gateway = h] \in GoodAgents
             /\ [r EXCEPT !.gateway = h].type = r.type /\ [r EXCEPT !.gateway = h].disabled = r.disabled
  BY <1>1, <1>9 DEF GoodAgents, AgentRecord
<1> QED BY <1>1, <1>4, <1>5, <1>6, <1>7, <1>8, <1>9 DEF GoodAgents

\* On whatever replica, the clean-up fails exactly the tasks for agents a new
\* distribution leaves out: isDistributionEligibleAgent (src/tools.ts) and
\* getDistributionEligibilityIssue (src/service.ts) agree on well-typed records.
LEMMA TypesAgree ==
  ASSUME DocOK
  PROVE  EligibilityAgrees
<1>1. SUFFICES ASSUME NEW g \in Gateways, NEW a \in Agents, NEW owner \in Agents, a # owner
               PROVE  IsEligible(g, a, owner) <=> Issue(g, a, owner) = "none"
  BY DEF EligibilityAgrees
<1>2. /\ Agent(g, a).type \in {"none", "internal", "external"}
      /\ Agent(g, a).disabled \in BOOLEAN /\ Agent(g, a).optIn \in BOOLEAN
      /\ Agent(g, a).type = "internal" <=> Agent(g, a).gateway # NoGateway
      /\ Mode(g) \in {"all", "strict"}
  BY HeldValues DEF GoodAgents, AgentRecord
<1>3. CASE Agent(g, a).type = "none" \/ Agent(g, a).disabled
  BY <1>1, <1>2, <1>3 DEF IsEligible, Issue, Enabled, IsRegistered
<1>4. CASE Agent(g, a).type = "external" /\ ~Agent(g, a).disabled
  BY <1>1, <1>2, <1>4 DEF IsEligible, Issue, Enabled, IsRegistered
<1>5. CASE Agent(g, a).type = "internal" /\ ~Agent(g, a).disabled
  BY <1>1, <1>2, <1>5 DEF IsEligible, Issue, Enabled, IsRegistered
<1> QED BY <1>2, <1>3, <1>4, <1>5

-----------------------------------------------------------------------------
(***************************************************************************)
(* What the calls write.                                                   *)
(***************************************************************************)

\* Gateway g writes f, and deletes the invites is: Writes and PruneThenWrites.
Wrote(g, f, is) ==
  /\ doc'[g] = [k \in Keys |->
       IF k \in DOMAIN f THEN Set(doc[g][k], g, f[k])
       ELSE IF k \in {InviteKey(i) : i \in is} THEN Delete(doc[g][k]) ELSE doc[g][k]]
  /\ \A h \in Gateways \ {g} : doc'[h] = doc[h]
  /\ doc' = [h \in Gateways |-> [k \in Keys |-> doc'[h][k]]]

\* Agent r is written over with s: who is registered stays so, nobody internal
\* becomes external, and who is external and disabled stays disabled, unless enabled.
KeepsAgents(g, f) ==
  \A a \in Agents : AgentKey(a) \in DOMAIN f =>
    LET r == Agent(g, a)
        s == f[AgentKey(a)]
    IN r.type # "none" =>
         /\ s.type # "none"
         /\ s.type = "external" => r.type = "external"
         /\ s.type = "external" /\ r.disabled /\ a \in banned' => s.disabled

\* Who gets banned is written disabled.
BansWritten(f) ==
  \A a \in banned' \ banned :
    AgentKey(a) \in DOMAIN f /\ f[AgentKey(a)].type # "none" /\ f[AgentKey(a)].disabled

Enables(g, f, a) ==
  IF AgentKey(a) \in DOMAIN f
  THEN f[AgentKey(a)].type # "none" /\ ~f[AgentKey(a)].disabled
  ELSE Enabled(g, a)

\* A call leaves the admins and whom it finds enabled, or leaves the caller's admin,
\* or makes somebody an admin who is enabled.
LeavesAdmin(g, f) ==
  \/ /\ \A h \in Gateways : AdminKey(h) \notin DOMAIN f
     /\ \/ \A a \in Agents : Enabled(g, a) => Enables(g, f, a)
        \/ Enables(g, f, AdminAgent(g, g))
  \/ \E h \in Gateways :
       AdminKey(h) \in DOMAIN f /\ f[AdminKey(h)] # NoAgent /\ Enables(g, f, f[AdminKey(h)])

\* Only an admin nominates admins, and a new agent is not disabled.
FindsAdmin(g, f) ==
  /\ (\E h \in Gateways : AdminKey(h) \in DOMAIN f) => Enabled(g, AdminAgent(g, g))
  /\ \A a \in Agents :
       AgentKey(a) \in DOMAIN f /\ ~IsRegistered(g, a) /\ f[AgentKey(a)].type # "none" =>
         ~f[AgentKey(a)].disabled

\* An invite is opened once, when it is new, and then closed from open.
WritesInvites(g, f) ==
  \A i \in Invites : InviteKey(i) \in DOMAIN f =>
    \/ i = issued + 1 /\ issued' = i
    \/ Invite(g, i).status = "open" /\ f[InviteKey(i)].status # "open"

SpendsWritten(g, f) ==
  \A i \in spent' \ spent :
    InviteKey(i) \in DOMAIN f /\ Invite(g, i).status = "open" /\ f[InviteKey(i)].status # "open"

LegalWrite(g, f, is) ==
  /\ Wrote(g, f, is) /\ is \subseteq Pruned(g)
  /\ \A k \in Keys : k \in DOMAIN f => f[k] \in Good(k)
  /\ KeepsAgents(g, f) /\ BansWritten(f) /\ LeavesAdmin(g, f) /\ FindsAdmin(g, f)
  /\ WritesInvites(g, f) /\ SpendsWritten(g, f)

Called(g) ==
  /\ raced' = (raced \/ ~UpToDate(g))
  /\ issued' \in {issued, issued + 1}
  /\ UNCHANGED expired
  /\ spent \subseteq spent'
  /\ \E f, is : LegalWrite(g, f, is)

\* The two ways of the code to write are one.
LEMMA WriteForms ==
  ASSUME DocOK, NEW g \in Gateways, NEW f
  PROVE  /\ Writes(g, f) => Wrote(g, f, {})
         /\ PruneThenWrites(g, f) => Wrote(g, f, Pruned(g))
<1>1. ASSUME NEW row, doc' = [doc EXCEPT ![g] = [k \in Keys |-> row[k]]]
      PROVE  /\ doc'[g] = [k \in Keys |-> row[k]]
             /\ \A h \in Gateways \ {g} : doc'[h] = doc[h]
             /\ doc' = [h \in Gateways |-> [k \in Keys |-> doc'[h][k]]]
  BY <1>1 DEF DocOK
<1>2. ASSUME Writes(g, f)
      PROVE  Wrote(g, f, {})
  <2> DEFINE row == [k \in Keys |-> IF k \in DOMAIN f THEN Set(doc[g][k], g, f[k]) ELSE doc[g][k]]
  <2>1. doc' = [doc EXCEPT ![g] = [k \in Keys |-> row[k]]]
    BY <1>2 DEF Writes, DocOK
  <2>2. [k \in Keys |-> row[k]] =
          [k \in Keys |-> IF k \in DOMAIN f THEN Set(doc[g][k], g, f[k])
                         ELSE IF k \in {InviteKey(i) : i \in {}} THEN Delete(doc[g][k]) ELSE doc[g][k]]
    OBVIOUS
  <2> HIDE DEF row
  <2> QED BY <1>1, <2>1, <2>2 DEF Wrote
<1>3. ASSUME PruneThenWrites(g, f)
      PROVE  Wrote(g, f, Pruned(g))
  <2> DEFINE row == [k \in Keys |->
                      IF k \in DOMAIN f THEN Set(doc[g][k], g, f[k])
                      ELSE IF k \in {InviteKey(i) : i \in Pruned(g)} THEN Delete(doc[g][k])
                      ELSE doc[g][k]]
  <2>1. doc' = [doc EXCEPT ![g] = [k \in Keys |-> row[k]]]
    BY <1>3 DEF PruneThenWrites, DocOK
  <2>2. [k \in Keys |-> row[k]] =
          [k \in Keys |-> IF k \in DOMAIN f THEN Set(doc[g][k], g, f[k])
                         ELSE IF k \in {InviteKey(i) : i \in Pruned(g)} THEN Delete(doc[g][k])
                         ELSE doc[g][k]]
    OBVIOUS
  <2> HIDE DEF row
  <2> QED BY <1>1, <2>1, <2>2 DEF Wrote
<1> QED BY <1>2, <1>3

\* The entries a legal write leaves.
LEMMA LegalValues ==
  ASSUME DocOK, NEW g \in Gateways, NEW f, NEW is, LegalWrite(g, f, is)
  PROVE  /\ DocOK'
         /\ \A h \in Gateways \ {g} : doc'[h] = doc[h]
         /\ \A k \in Keys : Follows(doc'[g][k], doc[g][k])
         /\ \A k \in Keys : k \in DOMAIN f => doc'[g][k] = Set(doc[g][k], g, f[k])
         /\ \A k \in Keys : k \notin DOMAIN f =>
              \/ doc'[g][k] = doc[g][k]
              \/ IsInviteKey(k) /\ doc'[g][k] = Delete(doc[g][k])
<1>1. /\ \A k \in Keys : doc'[g][k] =
           IF k \in DOMAIN f THEN Set(doc[g][k], g, f[k])
           ELSE IF k \in {InviteKey(i) : i \in is} THEN Delete(doc[g][k]) ELSE doc[g][k]
      /\ \A h \in Gateways \ {g} : doc'[h] = doc[h]
      /\ doc' = [h \in Gateways |-> [k \in Keys |-> doc'[h][k]]]
      /\ \A k \in Keys : k \in DOMAIN f => f[k] \in Good(k)
      /\ is \subseteq Invites
  BY DEF LegalWrite, Wrote, Pruned
<1>2. ASSUME NEW k \in Keys
      PROVE  /\ IsEntry(doc'[g][k], Good(k))
             /\ doc'[g][k].val = Gone => IsInviteKey(k)
             /\ Follows(doc'[g][k], doc[g][k])
             /\ k \notin DOMAIN f => \/ doc'[g][k] = doc[g][k]
                                     \/ IsInviteKey(k) /\ doc'[g][k] = Delete(doc[g][k])
  <2>1. IsEntry(doc[g][k], Good(k)) /\ (doc[g][k].val = Gone => IsInviteKey(k))
    BY DEF DocOK, IsDocument, Types
  <2>2. CASE k \in DOMAIN f
    <3>1. doc'[g][k] = Set(doc[g][k], g, f[k]) /\ f[k] \in Good(k) /\ f[k] # Gone
      BY <1>1, <2>2, NotGone
    <3> QED BY <2>1, <2>2, <3>1, SetEntry, WritesFollow
  <2>3. CASE k \notin DOMAIN f /\ k \in {InviteKey(i) : i \in is}
    <3>1. doc'[g][k] = Delete(doc[g][k]) /\ IsInviteKey(k)
      BY <1>1, <2>3 DEF IsInviteKey
    <3> QED BY <2>1, <3>1, DeleteEntry, WritesFollow
  <2>4. CASE k \notin DOMAIN f /\ k \notin {InviteKey(i) : i \in is}
    <3>1. doc'[g][k] = doc[g][k]
      BY <1>1, <2>4
    <3> QED BY <2>1, <3>1 DEF Follows
  <2> QED BY <2>2, <2>3, <2>4
<1>3. DocOK'
  <2>1. ASSUME NEW h \in Gateways, NEW k \in Keys
        PROVE  IsEntry(doc'[h][k], Good(k)) /\ (doc'[h][k].val = Gone => IsInviteKey(k))
    <3>1. CASE h = g
      BY <1>2, <3>1
    <3>2. CASE h # g
      BY <1>1, <3>2 DEF DocOK, IsDocument, Types
    <3> QED BY <3>1, <3>2
  <2> QED BY <1>1, <2>1 DEF DocOK, IsDocument, Types
<1> QED BY <1>1, <1>2, <1>3

-----------------------------------------------------------------------------
(***************************************************************************)
(* Every call writes legally.                                              *)
(***************************************************************************)

\* Who calls as admin is an agent, registered and enabled.
LEMMA AdminCallers ==
  ASSUME DocOK, NEW g \in Gateways
  PROVE  /\ \A h \in Gateways : AdminAgent(g, h) \in Agents
         /\ \A n : AdminCall(g, n) => Enabled(g, AdminAgent(g, g)) /\ Call(g, n)
BY HeldValues, SetsAssumption DEF AdminAgent, AdminCall, CanCallAs

\* What a call on one agent has to respect.
LEMMA OneAgentCalls ==
  ASSUME DocOK, issued \in Nat, NEW g \in Gateways, NEW a \in Agents, NEW s \in GoodAgents,
         WritesOne(g, AgentKey(a), s),
         raced' = (raced \/ ~UpToDate(g)), UNCHANGED <<expired, issued, spent>>,
         Agent(g, a).type # "none" =>
           /\ s.type # "none"
           /\ s.type = "external" => Agent(g, a).type = "external"
           /\ s.type = "external" /\ Agent(g, a).disabled /\ a \in banned' => s.disabled,
         \A b \in banned' \ banned : b = a /\ s.type # "none" /\ s.disabled,
         \/ Enabled(g, a) => s.type # "none" /\ ~s.disabled
         \/ a # AdminAgent(g, g) /\ Enabled(g, AdminAgent(g, g)),
         ~IsRegistered(g, a) => ~s.disabled
  PROVE  Called(g)
<1> DEFINE f == [x \in {AgentKey(a)} |-> s]
<1>1. Wrote(g, f, {})
  BY WriteForms DEF WritesOne
<1>2. DOMAIN f = {AgentKey(a)} /\ f[AgentKey(a)] = s
  OBVIOUS
<1> HIDE DEF f
<1>3. /\ \A b \in Agents : AgentKey(b) \in DOMAIN f <=> b = a
      /\ \A h \in Gateways : AdminKey(h) \notin DOMAIN f
      /\ \A i \in Invites : InviteKey(i) \notin DOMAIN f
  BY <1>2, AllKeys, KeyNames
<1>4. \A k \in Keys : k \in DOMAIN f => f[k] \in Good(k)
  BY <1>2, AllKeys, KeyNames
<1>5. KeepsAgents(g, f)
  BY <1>2, <1>3 DEF KeepsAgents
<1>6. BansWritten(f)
  BY <1>2 DEF BansWritten
<1>7. LeavesAdmin(g, f)
  BY <1>2, <1>3, AdminCallers DEF LeavesAdmin, Enables
<1>8. FindsAdmin(g, f)
  BY <1>2, <1>3 DEF FindsAdmin
<1>9. WritesInvites(g, f) /\ SpendsWritten(g, f)
  BY <1>3 DEF WritesInvites, SpendsWritten
<1>10. LegalWrite(g, f, {})
  BY <1>1, <1>4, <1>5, <1>6, <1>7, <1>8, <1>9 DEF LegalWrite
<1> QED BY <1>10 DEF Called

LEMMA RegisterCalls ==
  ASSUME DocOK, issued \in Nat, NEW g \in Gateways, NEW a \in Agents, NEW type, NEW home,
         (type = "internal" /\ home \in Gateways) \/ (type = "external" /\ home = NoGateway),
         Register(g, a, type, home)
  PROVE  Called(g)
<1> DEFINE r == IF type = "internal" THEN Internal(home) ELSE External
           s == [r EXCEPT !.token = TRUE]
<1>1. r \in GoodAgents /\ ~r.disabled
  BY Records DEF GatewayIds
<1>2. WritesOne(g, AgentKey(a), s) /\ ~IsRegistered(g, a) /\ Call(g, 2)
        /\ UNCHANGED <<expired, issued, spent, banned>>
  BY DEF Register
<1> HIDE DEF r
<1>3. s \in GoodAgents /\ ~s.disabled
  BY <1>1, Records
<1> HIDE DEF s
<1> QED BY <1>2, <1>3, OneAgentCalls DEF Call, IsRegistered, Enabled

LEMMA IssueTokenCalls ==
  ASSUME DocOK, issued \in Nat, NEW g \in Gateways, NEW a \in Agents, IssueToken(g, a)
  PROVE  Called(g)
<1> DEFINE s == [Agent(g, a) EXCEPT !.token = TRUE]
<1>1. /\ s \in GoodAgents /\ s.type = Agent(g, a).type /\ s.disabled = Agent(g, a).disabled
      /\ IsRegistered(g, a)
  BY HeldValues, Records DEF IssueToken
<1>2. WritesOne(g, AgentKey(a), s) /\ Call(g, 2) /\ UNCHANGED <<expired, issued, spent, banned>>
  BY AdminCallers DEF IssueToken
<1> HIDE DEF s
<1> QED BY <1>1, <1>2, OneAgentCalls DEF Call, IsRegistered, Enabled

LEMMA SetOptInCalls ==
  ASSUME DocOK, issued \in Nat, NEW g \in Gateways, NEW a \in Agents, NEW optIn \in BOOLEAN,
         SetOptIn(g, a, optIn)
  PROVE  Called(g)
<1> DEFINE s == [Agent(g, a) EXCEPT !.optIn = optIn]
<1>1. s \in GoodAgents /\ s.type = Agent(g, a).type /\ s.disabled = Agent(g, a).disabled
  <2>1. Agent(g, a) \in GoodAgents
    BY HeldValues
  <2>2. ASSUME NEW r \in GoodAgents
        PROVE  /\ [r EXCEPT !.optIn = optIn] \in GoodAgents
               /\ [r EXCEPT !.optIn = optIn].type = r.type
               /\ [r EXCEPT !.optIn = optIn].disabled = r.disabled
    BY DEF GoodAgents, AgentRecord
  <2> QED BY <2>1, <2>2
<1>2. /\ WritesOne(g, AgentKey(a), s) /\ Call(g, 2) /\ UNCHANGED <<expired, issued, spent, banned>>
      /\ Agent(g, a).type = "external"
  BY AdminCallers DEF SetOptIn
<1> HIDE DEF s
<1> QED BY <1>1, <1>2, OneAgentCalls DEF Call, IsRegistered, Enabled

LEMMA RebindCalls ==
  ASSUME DocOK, issued \in Nat, NEW g \in Gateways, NEW a \in Agents, NEW h \in Gateways,
         Rebind(g, a, h)
  PROVE  Called(g)
<1> DEFINE s == [Agent(g, a) EXCEPT !.gateway = h]
<1>1. /\ s \in GoodAgents /\ s.type = Agent(g, a).type /\ s.disabled = Agent(g, a).disabled
      /\ Agent(g, a).type = "internal"
  BY HeldValues, Records DEF Rebind, MayRebind
<1>2. WritesOne(g, AgentKey(a), s) /\ Call(g, 2) /\ UNCHANGED <<expired, issued, spent, banned>>
  BY AdminCallers DEF Rebind
<1> HIDE DEF s
<1> QED BY <1>1, <1>2, OneAgentCalls DEF Call, IsRegistered, Enabled

LEMMA DisableCalls ==
  ASSUME DocOK, issued \in Nat, NEW g \in Gateways, NEW a \in Agents, Disable(g, a)
  PROVE  Called(g)
<1> DEFINE s == [Agent(g, a) EXCEPT !.disabled = TRUE]
<1>1. s \in GoodAgents /\ s.type = Agent(g, a).type /\ s.disabled
  BY HeldValues, Records DEF Disable, MayDisable, IsRegistered
<1>2. /\ WritesOne(g, AgentKey(a), s) /\ AdminCall(g, 2) /\ UNCHANGED <<expired, issued, spent>>
      /\ banned' = banned \union {a} /\ a # AdminAgent(g, g) /\ Agent(g, a).type # "none"
  BY DEF Disable, MayDisable, IsRegistered
<1>3. Enabled(g, AdminAgent(g, g)) /\ raced' = (raced \/ ~UpToDate(g))
  BY <1>2, AdminCallers DEF Call
<1> HIDE DEF s
<1> QED BY <1>1, <1>2, <1>3, OneAgentCalls DEF IsRegistered

LEMMA EnableCalls ==
  ASSUME DocOK, issued \in Nat, NEW g \in Gateways, NEW a \in Agents, Enable(g, a)
  PROVE  Called(g)
<1> DEFINE s == [Agent(g, a) EXCEPT !.disabled = FALSE]
<1>1. s \in GoodAgents /\ s.type = Agent(g, a).type /\ ~s.disabled
  <2>1. Agent(g, a) \in GoodAgents /\ Agent(g, a).type # "none"
    BY HeldValues DEF Enable, GoodAgents
  <2> QED BY <2>1, Records
<1>2. /\ WritesOne(g, AgentKey(a), s) /\ Call(g, 2) /\ UNCHANGED <<expired, issued, spent>>
      /\ banned' = banned \ {a}
  BY AdminCallers DEF Enable
<1> HIDE DEF s
<1> QED BY <1>1, <1>2, OneAgentCalls DEF Call, IsRegistered, Enabled

\* A call that writes agents only, keeping what each of them is, or none.
LEMMA ManyAgentsCall ==
  ASSUME DocOK, issued \in Nat, NEW g \in Gateways, NEW f, Writes(g, f),
         raced' = (raced \/ ~UpToDate(g)), UNCHANGED <<expired, issued, spent, banned>>,
         \A k \in DOMAIN f : \E a \in Agents :
           /\ k = AgentKey(a) /\ f[k] \in GoodAgents
           /\ f[k].type # "none"
           /\ f[k].type = "external" =>
                Agent(g, a).type = "external" /\ f[k].disabled = Agent(g, a).disabled
           /\ Enabled(g, a) => ~f[k].disabled
           /\ ~IsRegistered(g, a) => ~f[k].disabled
  PROVE  Called(g)
<1>1. Wrote(g, f, {})
  BY WriteForms
<1>2. /\ \A h \in Gateways : AdminKey(h) \notin DOMAIN f
      /\ \A i \in Invites : InviteKey(i) \notin DOMAIN f
      /\ \A k \in Keys : k \in DOMAIN f => f[k] \in Good(k)
  BY AllKeys, KeyNames
<1>3. ASSUME NEW a \in Agents, AgentKey(a) \in DOMAIN f
      PROVE  LET s == f[AgentKey(a)] IN
             /\ s.type # "none"
             /\ s.type = "external" =>
                  Agent(g, a).type = "external" /\ s.disabled = Agent(g, a).disabled
             /\ Enabled(g, a) => ~s.disabled
             /\ ~IsRegistered(g, a) => ~s.disabled
  <2>1. PICK b \in Agents :
          /\ AgentKey(a) = AgentKey(b)
          /\ f[AgentKey(a)].type # "none"
          /\ f[AgentKey(a)].type = "external" =>
               Agent(g, b).type = "external" /\ f[AgentKey(a)].disabled = Agent(g, b).disabled
          /\ Enabled(g, b) => ~f[AgentKey(a)].disabled
          /\ ~IsRegistered(g, b) => ~f[AgentKey(a)].disabled
    BY <1>3
  <2>2. b = a
    BY <2>1, AllKeys, KeyNames
  <2> QED BY <2>1, <2>2
<1>4. KeepsAgents(g, f) /\ BansWritten(f)
  BY <1>3 DEF KeepsAgents, BansWritten
<1>5. LeavesAdmin(g, f) /\ FindsAdmin(g, f)
  BY <1>2, <1>3 DEF LeavesAdmin, FindsAdmin, Enables
<1>6. WritesInvites(g, f) /\ SpendsWritten(g, f)
  BY <1>2 DEF WritesInvites, SpendsWritten
<1>7. LegalWrite(g, f, {})
  BY <1>1, <1>2, <1>4, <1>5, <1>6 DEF LegalWrite
<1> QED BY <1>7 DEF Called

LEMMA NormalizeCalls ==
  ASSUME DocOK, issued \in Nat, NEW g \in Gateways, Normalize(g)
  PROVE  Called(g)
<1> DEFINE f == [k \in {AgentKey(a) : a \in Movable(g)} |->
                   LET r == doc[g][k].val
                   IN [r EXCEPT !.gateway = CHOOSE h \in Gateways : Canonical[h] = Canonical[@]]]
<1>1. Writes(g, f) /\ Call(g, 2) /\ UNCHANGED <<expired, issued, spent, banned>>
  BY AdminCallers DEF Normalize
<1>2. ASSUME NEW k \in DOMAIN f
      PROVE  \E a \in Agents :
           /\ k = AgentKey(a) /\ f[k] \in GoodAgents
           /\ f[k].type # "none"
           /\ f[k].type = "external" =>
                Agent(g, a).type = "external" /\ f[k].disabled = Agent(g, a).disabled
           /\ Enabled(g, a) => ~f[k].disabled
           /\ ~IsRegistered(g, a) => ~f[k].disabled
  <2>1. PICK a \in Movable(g) : k = AgentKey(a)
    OBVIOUS
  <2>2. /\ a \in Agents /\ Agent(g, a).type = "internal" /\ Agent(g, a) \in GoodAgents
        /\ \E h \in Gateways : Canonical[h] = Canonical[Agent(g, a).gateway]
    BY <2>1, HeldValues DEF Movable
  <2> DEFINE home == CHOOSE h \in Gateways : Canonical[h] = Canonical[Agent(g, a).gateway]
  <2>3. home \in Gateways
    BY <2>2
  <2>4. f[k] = [Agent(g, a) EXCEPT !.gateway = home]
    BY <2>1 DEF Agent
  <2> HIDE DEF home, f
  <2>5. f[k] \in GoodAgents /\ f[k].type = "internal" /\ f[k].disabled = Agent(g, a).disabled
    BY <2>2, <2>3, <2>4, Records
  <2> QED BY <2>1, <2>2, <2>5 DEF Enabled, IsRegistered
<1> HIDE DEF f
<1> QED BY <1>1, <1>2, ManyAgentsCall DEF Call

LEMMA RestartCalls ==
  ASSUME DocOK, issued \in Nat, NEW g \in Gateways, Restart(g)
  PROVE  Called(g)
<1> DEFINE f == [k \in {AgentKey(a) : a \in {x \in Locals[g] : Agent(g, x).type # "external"}}
                   |-> Internal(g)]
<1>1. Writes(g, f) /\ Call(g, 2) /\ UNCHANGED <<expired, issued, spent, banned>>
  BY DEF Restart
<1>2. /\ Internal(g) \in GoodAgents /\ Internal(g).type = "internal" /\ ~Internal(g).disabled
      /\ Locals[g] \subseteq Agents
  BY Records, SetsAssumption DEF GatewayIds
<1>3. \A k \in DOMAIN f : f[k] = Internal(g) /\ \E a \in Agents : k = AgentKey(a)
  BY <1>2
<1> HIDE DEF f
<1> QED BY <1>1, <1>2, <1>3, ManyAgentsCall DEF Call

LEMMA SetDistributionPolicyCalls ==
  ASSUME DocOK, issued \in Nat, NEW g \in Gateways, NEW mode \in {"all", "strict"},
         SetDistributionPolicy(g, mode)
  PROVE  Called(g)
<1> DEFINE f == [x \in {PolicyKey} |-> mode]
<1>1. Wrote(g, f, {}) /\ Call(g, 2) /\ UNCHANGED <<expired, issued, spent, banned>>
  BY WriteForms, AdminCallers DEF SetDistributionPolicy, WritesOne
<1>2. DOMAIN f = {PolicyKey} /\ f[PolicyKey] = mode
  OBVIOUS
<1> HIDE DEF f
<1>3. /\ \A a \in Agents : AgentKey(a) \notin DOMAIN f
      /\ \A h \in Gateways : AdminKey(h) \notin DOMAIN f
      /\ \A i \in Invites : InviteKey(i) \notin DOMAIN f
      /\ \A k \in Keys : k \in DOMAIN f => f[k] \in Good(k)
  BY <1>2, AllKeys, KeyNames
<1>4. /\ KeepsAgents(g, f) /\ BansWritten(f) /\ LeavesAdmin(g, f)
      /\ WritesInvites(g, f) /\ SpendsWritten(g, f)
  BY <1>1, <1>3 DEF KeepsAgents, BansWritten, LeavesAdmin, Enables, WritesInvites, SpendsWritten
<1>5. FindsAdmin(g, f)
  BY <1>3 DEF FindsAdmin
<1> QED BY <1>1, <1>3, <1>4, <1>5 DEF Called, LegalWrite, Call

\* The two tools that nominate admins.
LEMMA NominationCalls ==
  ASSUME DocOK, issued \in Nat, NEW g \in Gateways, NEW a \in Agents, NEW hs \in SUBSET Gateways,
         Writes(g, [k \in {AdminKey(h) : h \in hs} |-> a]),
         AdminCall(g, 2), Enabled(g, a), UNCHANGED <<expired, issued, spent, banned>>
  PROVE  Called(g)
<1> DEFINE f == [k \in {AdminKey(h) : h \in hs} |-> a]
<1>1. Wrote(g, f, {}) /\ Call(g, 2) /\ Enabled(g, AdminAgent(g, g))
  BY WriteForms, AdminCallers
<1>2. DOMAIN f = {AdminKey(h) : h \in hs} /\ \A k \in DOMAIN f : f[k] = a
  OBVIOUS
<1> HIDE DEF f
<1>3. /\ \A b \in Agents : AgentKey(b) \notin DOMAIN f
      /\ \A i \in Invites : InviteKey(i) \notin DOMAIN f
      /\ \A h \in Gateways : AdminKey(h) \in DOMAIN f <=> h \in hs
      /\ \A k \in Keys : k \in DOMAIN f => f[k] \in Good(k)
  <2>1. \A b \in Agents : AgentKey(b) \notin DOMAIN f
    BY <1>2, KeyNames
  <2>2. \A i \in Invites : InviteKey(i) \notin DOMAIN f
    BY <1>2, KeyNames
  <2>3. \A h \in Gateways : AdminKey(h) \in DOMAIN f <=> h \in hs
    BY <1>2, KeyNames
  <2>4. ASSUME NEW k \in Keys, k \in DOMAIN f
        PROVE  f[k] \in Good(k)
    <3>1. PICK h \in hs : k = AdminKey(h)
      BY <1>2, <2>4
    <3>2. Good(k) = Agents \union {NoAgent}
      BY <3>1, AllKeys, KeyNames
    <3> QED BY <1>2, <2>4, <3>2
  <2> QED BY <2>1, <2>2, <2>3, <2>4
<1>4. a # NoAgent
  BY SetsAssumption
<1>5. LeavesAdmin(g, f)
  <2>1. CASE hs = {}
    BY <1>3, <2>1 DEF LeavesAdmin, Enables
  <2>2. CASE hs # {}
    BY <1>2, <1>3, <1>4, <2>2 DEF LeavesAdmin, Enables
  <2> QED BY <2>1, <2>2
<1>6. /\ KeepsAgents(g, f) /\ BansWritten(f) /\ FindsAdmin(g, f)
      /\ WritesInvites(g, f) /\ SpendsWritten(g, f)
  BY <1>1, <1>3 DEF KeepsAgents, BansWritten, FindsAdmin, WritesInvites, SpendsWritten
<1> QED BY <1>1, <1>3, <1>5, <1>6 DEF Called, LegalWrite, Call

LEMMA SetGatewayAdminCalls ==
  ASSUME DocOK, issued \in Nat, NEW g \in Gateways, NEW h \in Gateways, NEW a \in Agents,
         SetGatewayAdmin(g, h, a)
  PROVE  Called(g)
<1>1. {AdminKey(x) : x \in {h}} = {AdminKey(h)}
  OBVIOUS
<1>2. Writes(g, [k \in {AdminKey(x) : x \in {h}} |-> a])
  BY <1>1 DEF SetGatewayAdmin, WritesOne
<1> QED BY <1>2, NominationCalls DEF SetGatewayAdmin

LEMMA SeedGatewayAdminsCalls ==
  ASSUME DocOK, issued \in Nat, NEW g \in Gateways, NEW a \in Agents, SeedGatewayAdmins(g, a)
  PROVE  Called(g)
<1> DEFINE hs == {x \in Gateways : doc[g][AdminKey(x)].val = NoAgent}
<1>1. Writes(g, [k \in {AdminKey(h) : h \in hs} |-> a])
  BY DEF SeedGatewayAdmins
<1>2. hs \in SUBSET Gateways
  OBVIOUS
<1> HIDE DEF hs
<1> QED BY <1>1, <1>2, NominationCalls DEF SeedGatewayAdmins

LEMMA InviteAgentCalls ==
  ASSUME DocOK, issued \in Nat, NEW g \in Gateways, NEW a \in Agents, InviteAgent(g, a)
  PROVE  Called(g)
<1> DEFINE v == [agent |-> a, status |-> "open"]
           ks == {InviteKey(issued + 1)} \union (IF IsRegistered(g, a) THEN {} ELSE {AgentKey(a)})
           f == [k \in ks |-> IF k = AgentKey(a) THEN External ELSE v]
<1>1. /\ PruneThenWrites(g, f) /\ Call(g, 1) /\ issued' = issued + 1
      /\ UNCHANGED <<expired, spent, banned>>
  BY AdminCallers DEF InviteAgent
<1>2. DOMAIN f = ks /\ \A k \in ks : f[k] = IF k = AgentKey(a) THEN External ELSE v
  OBVIOUS
<1>3. v \in GoodInvites
  BY DEF GoodInvites, InviteRecord
<1> HIDE DEF f, v
<1>4. Wrote(g, f, Pruned(g))
  BY <1>1, WriteForms
<1>5. /\ \A b \in Agents : AgentKey(b) \in DOMAIN f => b = a /\ ~IsRegistered(g, a)
      /\ \A h \in Gateways : AdminKey(h) \notin DOMAIN f
      /\ \A i \in Invites : InviteKey(i) \in DOMAIN f => i = issued + 1
  BY <1>2, AllKeys, KeyNames
<1>6. ASSUME NEW k \in Keys, k \in DOMAIN f
      PROVE  f[k] \in Good(k)
  <2>1. CASE k = AgentKey(a)
    BY <1>2, <1>6, <2>1, AllKeys, KeyNames, Records
  <2>2. CASE k # AgentKey(a)
    <3>1. k = InviteKey(issued + 1) /\ f[k] = v
      BY <1>2, <1>6, <2>2
    <3>2. \E i \in Invites : k = InviteKey(i)
      BY <1>6, <3>1, AllKeys, KeyNames
    <3> QED BY <1>3, <3>1, <3>2, AllKeys, KeyNames
  <2> QED BY <2>1, <2>2
<1>7. KeepsAgents(g, f) /\ BansWritten(f)
  BY <1>1, <1>5 DEF KeepsAgents, BansWritten, IsRegistered
<1>8. LeavesAdmin(g, f) /\ FindsAdmin(g, f)
  <2>1. \A b \in Agents : AgentKey(b) \in DOMAIN f => ~f[AgentKey(b)].disabled
    BY <1>2, <1>5, Records
  <2> QED BY <1>5, <2>1 DEF LeavesAdmin, FindsAdmin, Enables, Enabled
<1>9. WritesInvites(g, f) /\ SpendsWritten(g, f)
  BY <1>1, <1>5 DEF WritesInvites, SpendsWritten
<1> QED BY <1>1, <1>4, <1>6, <1>7, <1>8, <1>9 DEF Called, LegalWrite, Call

LEMMA AcceptInviteCalls ==
  ASSUME DocOK, issued \in Nat, NEW g \in Gateways, NEW i \in Invites, AcceptInvite(g, i)
  PROVE  Called(g)
<1> DEFINE a == Invite(g, i).agent
           closed == {i} \union Superseded(g, i)
           status(k) == IF k = InviteKey(i) THEN "used" ELSE "revoked"
           f == [k \in {AgentKey(a)} \union {InviteKey(j) : j \in closed} |->
                   IF k = AgentKey(a) THEN Accepted(Agent(g, a))
                   ELSE [agent |-> a, status |-> status(k)]]
<1>1. /\ PruneThenWrites(g, f) /\ Call(g, 1)
      /\ Agent(g, a).type \in {"none", "external"}
      /\ spent' = spent \union {i} \union {j \in Invites : IsOpen(g, j) /\ Invite(g, j).agent = a}
      /\ UNCHANGED <<expired, issued, banned>>
  BY DEF AcceptInvite
<1>2. a \in Agents
  BY HeldValues DEF AcceptInvite, IsOpen, GoodInvites
<1>3. /\ closed \subseteq Invites
      /\ \A j \in closed : Invite(g, j).status = "open"
      /\ i \in closed /\ {j \in Invites : IsOpen(g, j) /\ Invite(g, j).agent = a} \subseteq closed
  BY DEF AcceptInvite, Superseded, IsOpen
<1>4. /\ Accepted(Agent(g, a)) \in GoodAgents
      /\ Accepted(Agent(g, a)).type = "external"
      /\ Accepted(Agent(g, a)).disabled = Agent(g, a).disabled
  BY <1>2, HeldValues, Records
<1>5. \A k : [agent |-> a, status |-> status(k)] \in GoodInvites
               /\ [agent |-> a, status |-> status(k)].status # "open"
  BY <1>2 DEF GoodInvites, InviteRecord
<1>6. /\ DOMAIN f = {AgentKey(a)} \union {InviteKey(j) : j \in closed}
      /\ f[AgentKey(a)] = Accepted(Agent(g, a))
      /\ \A k \in DOMAIN f : k # AgentKey(a) => f[k] = [agent |-> a, status |-> status(k)]
  OBVIOUS
<1> HIDE DEF f, closed, status
<1>7. /\ \A b \in Agents : AgentKey(b) \in DOMAIN f => b = a
      /\ \A h \in Gateways : AdminKey(h) \notin DOMAIN f
      /\ \A j \in Invites : InviteKey(j) \in DOMAIN f <=> j \in closed
  <2>1. \A b \in Agents : AgentKey(b) \in DOMAIN f => b = a
    BY <1>6, KeyNames
  <2>2. \A h \in Gateways : AdminKey(h) \notin DOMAIN f
    BY <1>6, KeyNames
  <2>3. \A j \in Invites : InviteKey(j) \in DOMAIN f <=> j \in closed
    BY <1>6, KeyNames
  <2> QED BY <2>1, <2>2, <2>3
<1>8. \A j \in Invites : InviteKey(j) \in DOMAIN f =>
        f[InviteKey(j)] \in GoodInvites /\ f[InviteKey(j)].status # "open"
  BY <1>5, <1>6, KeyNames
<1>9. \A k \in Keys : k \in DOMAIN f => f[k] \in Good(k)
  <2>1. SUFFICES ASSUME NEW k \in Keys, k \in DOMAIN f
                 PROVE  f[k] \in Good(k)
    OBVIOUS
  <2>2. CASE k = AgentKey(a)
    BY <1>2, <1>4, <1>6, <2>2, AllKeys, KeyNames
  <2>3. CASE \E j \in Invites : k = InviteKey(j)
    BY <1>8, <2>1, <2>3, AllKeys, KeyNames
  <2> QED BY <1>3, <1>6, <2>1, <2>2, <2>3
<1>10. Wrote(g, f, Pruned(g))
  BY <1>1, WriteForms
<1>11. KeepsAgents(g, f) /\ BansWritten(f)
  BY <1>1, <1>4, <1>6, <1>7 DEF KeepsAgents, BansWritten
<1>12. LeavesAdmin(g, f) /\ FindsAdmin(g, f)
  <2>1. ~IsRegistered(g, a) => ~f[AgentKey(a)].disabled
    BY <1>2, <1>4, <1>6, HeldValues DEF GoodAgents, IsRegistered
  <2> QED BY <1>4, <1>6, <1>7, <2>1 DEF LeavesAdmin, FindsAdmin, Enables, Enabled
<1>13. \A j \in spent' \ spent : j \in closed
  BY <1>1, <1>3
<1>14. WritesInvites(g, f) /\ SpendsWritten(g, f)
  BY <1>3, <1>7, <1>8, <1>13 DEF WritesInvites, SpendsWritten
<1> QED BY <1>1, <1>9, <1>10, <1>11, <1>12, <1>14 DEF Called, LegalWrite, Call

\* So a step leaves all but the clock, is a call, or brings what another gateway has.
LEMMA StepsAre ==
  ASSUME DocOK, issued \in Nat, [Next]_vars
  PROVE  \/ UNCHANGED <<doc, issued, raced, spent, banned>> /\ expired \subseteq expired'
         \/ \E g \in Gateways : Called(g)
         \/ \E g, h \in Gateways : Receive(g, h)
<1>1. CASE UNCHANGED vars
  BY <1>1 DEF vars
<1>2. ASSUME NEW i \in Invites, Expire(i)
      PROVE  UNCHANGED <<doc, issued, raced, spent, banned>> /\ expired \subseteq expired'
  BY <1>2 DEF Expire
<1>3. ASSUME NEW g \in Gateways, NEW a \in Agents,
             \/ \E home \in Gateways : Register(g, a, "internal", home)
             \/ Register(g, a, "external", NoGateway)
             \/ IssueToken(g, a) \/ Disable(g, a) \/ Enable(g, a)
             \/ SeedGatewayAdmins(g, a) \/ InviteAgent(g, a)
             \/ \E h \in Gateways : Rebind(g, a, h) \/ SetGatewayAdmin(g, h, a)
             \/ \E optIn \in BOOLEAN : SetOptIn(g, a, optIn)
      PROVE  Called(g)
  BY <1>3, RegisterCalls, IssueTokenCalls, DisableCalls, EnableCalls, SeedGatewayAdminsCalls,
     InviteAgentCalls, RebindCalls, SetGatewayAdminCalls, SetOptInCalls
<1>4. ASSUME NEW g \in Gateways,
             \/ \E mode \in {"all", "strict"} : SetDistributionPolicy(g, mode)
             \/ \E i \in Invites : AcceptInvite(g, i)
             \/ Normalize(g) \/ Restart(g)
      PROVE  Called(g)
  BY <1>4, SetDistributionPolicyCalls, AcceptInviteCalls, NormalizeCalls, RestartCalls
<1> QED BY <1>1, <1>2, <1>3, <1>4 DEF Next

-----------------------------------------------------------------------------
(***************************************************************************)
(* Types.                                                                  *)
(***************************************************************************)

ScalarsOK ==
  /\ expired \subseteq Invites /\ issued \in 0..MaxInvites
  /\ requests \in 0..MaxRequests /\ raced \in BOOLEAN
  /\ spent \subseteq Invites /\ banned \subseteq Agents

TInv == DocOK /\ ScalarsOK

LEMMA TInvTypes == TInv => TypeOK
<1>1. SUFFICES ASSUME TInv, NEW g \in Gateways, NEW k \in Keys
               PROVE  /\ IsEntry(doc[g][k], ValueOf(k))
                      /\ k[1] = "agent" =>
                           (doc[g][k].val.type = "internal" <=> doc[g][k].val.gateway # NoGateway)
  BY DEF TypeOK, TInv, ScalarsOK
<1>2. IsEntry(doc[g][k], Good(k))
  BY <1>1 DEF TInv, DocOK, IsDocument, Types
<1>3. Good(k) \subseteq ValueOf(k)
  BY AllKeys DEF GoodAgents, GoodInvites
<1>4. IsEntry(doc[g][k], ValueOf(k))
  BY <1>2, <1>3 DEF IsEntry
<1>5. ASSUME k[1] = "agent"
      PROVE  doc[g][k].val.type = "internal" <=> doc[g][k].val.gateway # NoGateway
  <2>1. PICK a \in Agents : k = AgentKey(a)
    BY <1>5, AllKeys
  <2>2. doc[g][k].val \in GoodAgents
    BY <1>1, <2>1, HeldValues DEF TInv, Agent
  <2> QED BY <2>2 DEF GoodAgents
<1> QED BY <1>4, <1>5

\* The document the gateways start from.
LEMMA StartValues ==
  ASSUME NEW home, \A a \in Agents : home[a] \in Homes(a)
  PROVE  /\ \A k \in Keys : Start(k, home) \in Good(k)
         /\ \A a \in Agents : ~Start(AgentKey(a), home).disabled
         /\ \A g \in Gateways : Start(AdminKey(g), home) = NoAgent
         /\ \A i \in Invites : Start(InviteKey(i), home) = NoInvite
<1>1. /\ \A g \in Gateways : Start(AdminKey(g), home) = NoAgent
      /\ \A i \in Invites : Start(InviteKey(i), home) = NoInvite
      /\ Start(PolicyKey, home) = "all"
  BY DEF Start, AdminKey, InviteKey, PolicyKey
<1>2. ASSUME NEW a \in Agents
      PROVE  Start(AgentKey(a), home) \in GoodAgents /\ ~Start(AgentKey(a), home).disabled
  <2>1. Start(AgentKey(a), home) =
          IF home[a] = NoGateway THEN Unregistered ELSE Internal(home[a])
    BY DEF Start, AgentKey
  <2>2. home[a] \in GatewayIds \union {NoGateway}
    BY DEF Homes, GatewayIds
  <2> QED BY <2>1, <2>2, Records
<1>3. NoInvite \in GoodInvites
  BY DEF NoInvite, GoodInvites, InviteRecord
<1>4. ASSUME NEW k \in Keys
      PROVE  Start(k, home) \in Good(k)
  <2>1. CASE \E a \in Agents : k = AgentKey(a)
    BY <1>2, <2>1, AllKeys
  <2>2. CASE \E g \in Gateways : k = AdminKey(g)
    BY <1>1, <2>2, AllKeys
  <2>3. CASE \E i \in Invites : k = InviteKey(i)
    BY <1>1, <1>3, <2>3, AllKeys
  <2>4. CASE k = PolicyKey
    BY <1>1, <2>4, AllKeys
  <2> QED BY <2>1, <2>2, <2>3, <2>4, AllKeys
<1> QED BY <1>1, <1>2, <1>4

LEMMA InitTInv == Init => TInv
<1>1. SUFFICES ASSUME Init
               PROVE  TInv
  OBVIOUS
<1>2. PICK home :
        /\ \A a \in Agents : home[a] \in Homes(a)
        /\ doc = [g \in Gateways |-> [k \in Keys |-> First(Start(k, home))]]
  BY <1>1 DEF Init
<1>3. ASSUME NEW g \in Gateways, NEW k \in Keys
      PROVE  IsEntry(doc[g][k], Good(k)) /\ doc[g][k].val # Gone
  <2>1. doc[g][k] = First(Start(k, home)) /\ Start(k, home) \in Good(k)
    BY <1>2, StartValues
  <2>2. IsEntry(First(Start(k, home)), Good(k))
    BY <2>1, FirstEntry
  <2>3. First(Start(k, home)).val = Start(k, home)
    BY DEF First
  <2> QED BY <2>1, <2>2, <2>3, NotGone
<1>4. DocOK
  BY <1>2, <1>3 DEF DocOK, IsDocument, Types
<1>5. ScalarsOK
  <2>1. 0 \in 0..MaxInvites /\ 0 \in 0..MaxRequests
    BY BoundsAssumption
  <2> QED BY <1>1, <2>1 DEF Init, ScalarsOK
<1> QED BY <1>4, <1>5 DEF TInv

LEMMA ScalarsStep ==
  ASSUME ScalarsOK, [Next]_vars
  PROVE  ScalarsOK'
<1> USE BoundsAssumption
<1>1. ASSUME NEW g, NEW n \in {1, 2}, Call(g, n)
      PROVE  (requests \in 0..MaxRequests /\ raced \in BOOLEAN)'
  BY <1>1 DEF Call, ScalarsOK
<1>2. CASE UNCHANGED vars
  BY <1>2 DEF vars, ScalarsOK
<1>3. ASSUME NEW i, Expire(i)
      PROVE  ScalarsOK'
  BY <1>3 DEF Expire, ScalarsOK, Invites
<1>4. ASSUME NEW g, NEW h, Receive(g, h)
      PROVE  ScalarsOK'
  BY <1>4 DEF Receive, ScalarsOK
<1>5. ASSUME NEW g, NEW a, NEW x, NEW y,
             \/ Register(g, a, x, y) \/ IssueToken(g, a) \/ SeedGatewayAdmins(g, a)
             \/ Rebind(g, a, x) \/ SetGatewayAdmin(g, x, a) \/ SetOptIn(g, a, x)
             \/ SetDistributionPolicy(g, x) \/ Normalize(g) \/ Restart(g)
      PROVE  ScalarsOK'
  <2>1. Call(g, 2) /\ UNCHANGED <<expired, issued, spent, banned>>
    BY <1>5 DEF Register, IssueToken, SeedGatewayAdmins, Rebind, SetGatewayAdmin, SetOptIn,
                SetDistributionPolicy, Normalize, Restart, AdminCall
  <2> QED BY <1>1, <2>1 DEF ScalarsOK
<1>6. ASSUME NEW g, NEW a \in Agents, Disable(g, a) \/ Enable(g, a)
      PROVE  ScalarsOK'
  BY <1>1, <1>6 DEF Disable, Enable, AdminCall, ScalarsOK
<1>7. ASSUME NEW g, NEW a, InviteAgent(g, a)
      PROVE  ScalarsOK'
  BY <1>1, <1>7 DEF InviteAgent, AdminCall, ScalarsOK
<1>8. ASSUME NEW g, NEW i \in Invites, AcceptInvite(g, i)
      PROVE  ScalarsOK'
  BY <1>1, <1>8 DEF AcceptInvite, ScalarsOK
<1> QED BY <1>2, <1>3, <1>4, <1>5, <1>6, <1>7, <1>8 DEF Next

\* Receiving leaves a document that brings what the other gateway has.
LEMMA ReceivedValues ==
  ASSUME DocOK, NEW g \in Gateways, NEW h \in Gateways, Receive(g, h)
  PROVE  DocOK' /\ Brings(doc, doc', Keys, g, h)
<1>1. /\ doc' = [x \in Gateways |-> [k \in Keys |-> doc'[x][k]]]
      /\ \A x \in Gateways \ {h} : doc'[x] = doc[x]
      /\ \A k \in Keys : doc'[h][k] = Merge(doc[h][k], doc[g][k])
  BY DEF Receive, Received, DocOK
<1>2. ASSUME NEW k \in Keys
      PROVE  IsEntry(doc'[h][k], Good(k)) /\ (doc'[h][k].val = Gone => IsInviteKey(k))
  <2>1. /\ IsEntry(doc[h][k], Good(k)) /\ (doc[h][k].val = Gone => IsInviteKey(k))
        /\ IsEntry(doc[g][k], Good(k)) /\ (doc[g][k].val = Gone => IsInviteKey(k))
    BY DEF DocOK, IsDocument, Types
  <2>2. doc'[h][k] = Merge(doc[h][k], doc[g][k])
    BY <1>1
  <2>3. /\ IsEntry(Merge(doc[h][k], doc[g][k]), Good(k))
        /\ Merge(doc[h][k], doc[g][k]).val \in {doc[h][k].val, doc[g][k].val}
    BY <2>1, MergeEntry
  <2> QED BY <2>1, <2>2, <2>3
<1>3. ASSUME NEW x \in Gateways, NEW k \in Keys
      PROVE  IsEntry(doc'[x][k], Good(k)) /\ (doc'[x][k].val = Gone => IsInviteKey(k))
  <2>1. CASE x = h
    BY <1>2, <2>1
  <2>2. CASE x # h
    BY <1>1, <2>2 DEF DocOK, IsDocument, Types
  <2> QED BY <2>1, <2>2
<1> QED BY <1>1, <1>3 DEF DocOK, IsDocument, Types, Brings

LEMMA NextTInv ==
  ASSUME TInv, [Next]_vars
  PROVE  TInv'
<1>1. DocOK /\ issued \in Nat
  BY DEF TInv, ScalarsOK
<1>2. ScalarsOK'
  BY ScalarsStep DEF TInv
<1>3. DocOK'
  <2>1. CASE UNCHANGED doc
    BY <1>1, <2>1 DEF DocOK, IsDocument
  <2>2. ASSUME NEW g \in Gateways, Called(g)
        PROVE  DocOK'
    BY <1>1, <2>2, LegalValues DEF Called
  <2> QED BY <1>1, <2>1, <2>2, StepsAre, ReceivedValues
<1> QED BY <1>2, <1>3 DEF TInv

THEOREM WellTyped == Spec => []TInv
<1>1. TInv /\ [Next]_vars => TInv'
  BY NextTInv
<1> QED BY InitTInv, <1>1, PTL DEF Spec

\* Every variable has its type, internal agents and no others are bound to a
\* gateway, and nothing but invites is ever deleted (src/tools.ts, src/service.ts).
THEOREM TypeCorrect == Spec => []TypeOK
BY WellTyped, TInvTypes, PTL

\* The distribution of a skill and the clean-up after it agree on whom it is for, on
\* every replica at any time: also on what merging leaves of concurrent calls.
THEOREM CleanUpAgrees == Spec => []EligibilityAgrees
<1>1. TInv => EligibilityAgrees
  BY TypesAgree DEF TInv
<1> QED BY WellTyped, <1>1, PTL

-----------------------------------------------------------------------------
(***************************************************************************)
(* The latest state.  As long as every call is made where all earlier ones *)
(* have been received, the replicas are a chain and one of them has the    *)
(* latest state; every call is made on it and keeps what it promises.      *)
(***************************************************************************)

\* What the latest state promises of who may act: a gateway has an admin who is
\* enabled, or none of those who could be the first one has been registered yet; and
\* who is banned is disabled, unless internal.
HasAdmin(y) == \E h \in Gateways : Enabled(y, AdminAgent(y, h))
NobodyYet(y) ==
  \A h \in Gateways : doc[y][AdminKey(h)].val = NoAgent /\ ~IsRegistered(y, ConfigAdmin[h])
KeepsBans(y) ==
  \A a \in banned : /\ IsRegistered(y, a)
                    /\ Agent(y, a).type = "external" => Agent(y, a).disabled

LatestOK(y) == (HasAdmin(y) \/ NobodyYet(y)) /\ KeepsBans(y)

LatestInv ==
  ~raced =>
    /\ IsChain(doc, Keys)
    /\ \E y \in Gateways : IsLatest(doc, Keys, y) /\ LatestOK(y)

\* What a legal write makes of an agent and of a nomination.
LEMMA WrittenAgents ==
  ASSUME DocOK, NEW g \in Gateways, NEW f, NEW is, LegalWrite(g, f, is)
  PROVE  /\ \A a \in Agents :
              Agent(g, a)' = IF AgentKey(a) \in DOMAIN f THEN f[AgentKey(a)] ELSE Agent(g, a)
         /\ \A h \in Gateways : doc'[g][AdminKey(h)].val =
              IF AdminKey(h) \in DOMAIN f THEN f[AdminKey(h)] ELSE doc[g][AdminKey(h)].val
<1>1. ASSUME NEW k \in Keys, k \in DOMAIN f
      PROVE  doc'[g][k].val = f[k]
  <2>1. doc'[g][k] = Set(doc[g][k], g, f[k])
    BY <1>1, LegalValues
  <2>2. IsEntry(doc[g][k], Good(k)) /\ f[k] \in Good(k)
    BY <1>1 DEF DocOK, IsDocument, Types, LegalWrite
  <2> QED BY <2>1, <2>2, SetEntry
<1>2. ASSUME NEW k \in Keys, k \notin DOMAIN f, ~IsInviteKey(k)
      PROVE  doc'[g][k].val = doc[g][k].val
  BY <1>2, LegalValues
<1>3. /\ \A a \in Agents : AgentKey(a) \in Keys /\ ~IsInviteKey(AgentKey(a))
      /\ \A h \in Gateways : AdminKey(h) \in Keys /\ ~IsInviteKey(AdminKey(h))
  BY AllKeys, KeyNames DEF IsInviteKey
<1> QED BY <1>1, <1>2, <1>3 DEF Agent

LEMMA LegalWriteKeepsLatest ==
  ASSUME DocOK, banned \subseteq Agents, banned' \subseteq Agents,
         NEW g \in Gateways, NEW f, NEW is, LegalWrite(g, f, is), LatestOK(g)
  PROVE  LatestOK(g)'
<1>1. \A a \in Agents : Enabled(g, a)' <=> Enables(g, f, a)
  BY WrittenAgents DEF Enabled, Enables, IsRegistered
<1>2. \A h \in Gateways : AdminAgent(g, h) \in Agents
  BY AdminCallers
<1>3. ASSUME HasAdmin(g)
      PROVE  \E h \in Gateways : Enabled(g, AdminAgent(g, h))'
  <2>1. CASE \A h \in Gateways : AdminKey(h) \notin DOMAIN f
    <3>1. \A h \in Gateways : AdminAgent(g, h)' = AdminAgent(g, h)
      BY <2>1, WrittenAgents DEF AdminAgent
    <3>2. PICK h \in Gateways : Enabled(g, AdminAgent(g, h))
      BY <1>3 DEF HasAdmin
    <3>3. \/ Enables(g, f, AdminAgent(g, h)) \/ Enables(g, f, AdminAgent(g, g))
      BY <1>2, <2>1, <3>2 DEF LegalWrite, LeavesAdmin
    <3>4. ASSUME NEW x \in Gateways, Enables(g, f, AdminAgent(g, x))
          PROVE  Enabled(g, AdminAgent(g, x))'
      <4>1. PICK a \in Agents : a = AdminAgent(g, x)
        BY <1>2
      <4>2. Enabled(g, a)' /\ AdminAgent(g, x)' = a
        BY <1>1, <3>1, <3>4, <4>1
      <4> QED BY <4>2 DEF Enabled, IsRegistered, Agent
    <3> QED BY <3>3, <3>4
  <2>2. CASE \E h \in Gateways : AdminKey(h) \in DOMAIN f
    <3>1. PICK h \in Gateways :
            AdminKey(h) \in DOMAIN f /\ f[AdminKey(h)] # NoAgent /\ Enables(g, f, f[AdminKey(h)])
      BY <2>2 DEF LegalWrite, LeavesAdmin
    <3>2. f[AdminKey(h)] \in Agents
      BY <3>1, AllKeys DEF LegalWrite
    <3>3. PICK a \in Agents : a = f[AdminKey(h)]
      BY <3>2
    <3>4. Enabled(g, a)' /\ AdminAgent(g, h)' = a
      BY <1>1, <3>1, <3>3, WrittenAgents DEF AdminAgent
    <3>5. Enabled(g, AdminAgent(g, h))'
      BY <3>4 DEF Enabled, IsRegistered, Agent
    <3> QED BY <3>5
  <2> QED BY <2>1, <2>2
<1>4. ASSUME NEW a \in banned'
      PROVE  /\ IsRegistered(g, a)'
             /\ (Agent(g, a).type = "external" => Agent(g, a).disabled)'
  <2>1. a \in Agents /\ Agent(g, a)' = IF AgentKey(a) \in DOMAIN f THEN f[AgentKey(a)] ELSE Agent(g, a)
    BY WrittenAgents
  <2>2. CASE a \in banned
    <3>1. IsRegistered(g, a) /\ (Agent(g, a).type = "external" => Agent(g, a).disabled)
      BY <2>2 DEF LatestOK, KeepsBans
    <3>2. AgentKey(a) \in DOMAIN f =>
            /\ f[AgentKey(a)].type # "none"
            /\ f[AgentKey(a)].type = "external" => Agent(g, a).type = "external"
            /\ f[AgentKey(a)].type = "external" /\ Agent(g, a).disabled => f[AgentKey(a)].disabled
      BY <2>1, <3>1, <1>4 DEF LegalWrite, KeepsAgents, IsRegistered
    <3> QED BY <2>1, <3>1, <3>2 DEF IsRegistered
  <2>3. CASE a \notin banned
    <3>1. AgentKey(a) \in DOMAIN f /\ f[AgentKey(a)].type # "none" /\ f[AgentKey(a)].disabled
      BY <1>4, <2>3 DEF LegalWrite, BansWritten
    <3> QED BY <2>1, <3>1 DEF IsRegistered
  <2> QED BY <2>2, <2>3
<1>5. ASSUME NobodyYet(g)
      PROVE  HasAdmin(g)' \/ NobodyYet(g)'
  <2>1. \A h \in Gateways : AdminKey(h) \notin DOMAIN f
    BY <1>5 DEF LegalWrite, FindsAdmin, NobodyYet, AdminAgent, Enabled
  <2>2. \A h \in Gateways : doc'[g][AdminKey(h)].val = NoAgent /\ AdminAgent(g, h)' = ConfigAdmin[h]
    BY <1>5, <2>1, WrittenAgents DEF NobodyYet, AdminAgent
  <2>3. CASE \A h \in Gateways : ~IsRegistered(g, ConfigAdmin[h])'
    BY <2>2, <2>3 DEF NobodyYet, IsRegistered, Agent
  <2>4. CASE \E h \in Gateways : IsRegistered(g, ConfigAdmin[h])'
    <3>1. PICK h \in Gateways : IsRegistered(g, ConfigAdmin[h])'
      BY <2>4
    <3>2. PICK a \in Agents : a = ConfigAdmin[h]
      BY SetsAssumption
    <3>3. ~IsRegistered(g, a) /\ Agent(g, a)'.type # "none"
      BY <1>5, <3>1, <3>2 DEF NobodyYet, IsRegistered, Agent
    <3>4. AgentKey(a) \in DOMAIN f /\ f[AgentKey(a)].type # "none"
      BY <3>3, WrittenAgents DEF IsRegistered
    <3>5. Enables(g, f, a)
      BY <3>3, <3>4 DEF LegalWrite, FindsAdmin, Enables
    <3>6. Enabled(g, a)' /\ AdminAgent(g, h)' = a
      BY <1>1, <2>2, <3>2, <3>5
    <3> QED BY <3>6 DEF HasAdmin, Enabled, IsRegistered, Agent
  <2> QED BY <2>3, <2>4
<1> QED BY <1>3, <1>4, <1>5 DEF LatestOK, HasAdmin, KeepsBans

\* Gateways that hold the same promise the same.
LEMMA SameLatest ==
  ASSUME DocOK, banned \subseteq Agents,
         NEW y \in Gateways, NEW g \in Gateways, \A k \in Keys : doc[g][k] = doc[y][k]
  PROVE  /\ LatestOK(y) <=> LatestOK(g)
         /\ \A a \in Agents : Agent(g, a) = Agent(y, a)
         /\ \A h \in Gateways : doc[g][AdminKey(h)].val = doc[y][AdminKey(h)].val
         /\ \A h \in Gateways : AdminAgent(g, h) = AdminAgent(y, h)
<1>1. /\ \A a \in Agents : Agent(g, a) = Agent(y, a)
      /\ \A h \in Gateways : doc[g][AdminKey(h)].val = doc[y][AdminKey(h)].val
  BY AllKeys DEF Agent
<1>2. \A h \in Gateways : AdminAgent(g, h) = AdminAgent(y, h)
  BY <1>1 DEF AdminAgent
<1>3. ASSUME NEW a, NEW b, Agent(g, b) = Agent(y, a)
      PROVE  /\ Enabled(y, a) <=> Enabled(g, b)
             /\ IsRegistered(y, a) <=> IsRegistered(g, b)
  <2>1. PICK r : Agent(y, a) = r /\ Agent(g, b) = r
    BY <1>3
  <2> QED BY <2>1 DEF Enabled, IsRegistered
<1>4. \A h \in Gateways : Agent(g, AdminAgent(g, h)) = Agent(y, AdminAgent(y, h))
  BY <1>1, <1>2, AdminCallers
<1>5. (HasAdmin(y) <=> HasAdmin(g)) /\ (NobodyYet(y) <=> NobodyYet(g))
  <2>1. HasAdmin(y) <=> HasAdmin(g)
    BY <1>3, <1>4 DEF HasAdmin
  <2>2. \A h \in Gateways : ConfigAdmin[h] \in Agents
    BY SetsAssumption
  <2>3. NobodyYet(y) <=> NobodyYet(g)
    BY <1>1, <1>3, <2>2 DEF NobodyYet
  <2> QED BY <2>1, <2>3
<1>6. KeepsBans(y) <=> KeepsBans(g)
  BY <1>1, <1>3 DEF KeepsBans
<1> QED BY <1>1, <1>2, <1>5, <1>6 DEF LatestOK

LEMMA InitLatest == Init => LatestInv
<1>1. SUFFICES ASSUME Init
               PROVE  LatestInv
  OBVIOUS
<1>2. PICK home :
        /\ \A a \in Agents : home[a] \in Homes(a)
        /\ doc = [g \in Gateways |-> [k \in Keys |-> First(Start(k, home))]]
        /\ banned = {}
  BY <1>1 DEF Init
<1>3. \A g, h \in Gateways : doc[g] = doc[h]
  BY <1>2
<1>4. PICK y \in Gateways : TRUE
  BY ReplicaAssumption
<1>5. IsLatest(doc, Keys, y)
  BY <1>3 DEF IsLatest, HasAllOf, Follows
<1>6. \A k \in Keys : doc[y][k].val = Start(k, home)
  <2>1. \A v : First(v).val = v
    BY DEF First
  <2> QED BY <1>2, <2>1
<1>7. HasAdmin(y) \/ NobodyYet(y)
  <2>1. /\ \A h \in Gateways : doc[y][AdminKey(h)].val = NoAgent
        /\ \A a \in Agents : ~Agent(y, a).disabled
    BY <1>2, <1>6, StartValues, AllKeys DEF Agent
  <2>2. \A h \in Gateways : AdminAgent(y, h) = ConfigAdmin[h] /\ ConfigAdmin[h] \in Agents
    BY <2>1, SetsAssumption DEF AdminAgent
  <2> QED BY <2>1, <2>2 DEF HasAdmin, NobodyYet, Enabled
<1>8. KeepsBans(y)
  BY <1>2 DEF KeepsBans
<1> QED BY <1>3, <1>5, <1>7, <1>8, ChainOfEquals DEF LatestInv, LatestOK

\* What UpToDate says key by key.
LEMMA UpToDateKeys ==
  ASSUME DocOK, NEW g \in Gateways, UpToDate(g)
  PROVE  \A h \in Gateways, k \in Keys : Merge(doc[g][k], doc[h][k]) = doc[g][k]
<1>1. SUFFICES ASSUME NEW h \in Gateways, NEW k \in Keys
               PROVE  Merge(doc[g][k], doc[h][k]) = doc[g][k]
  OBVIOUS
<1>2. Received(h, g) = doc[g]
  BY DEF UpToDate
<1>3. Received(h, g)[k] = Merge(doc[g][k], doc[h][k])
  BY DEF Received
<1> QED BY <1>2, <1>3

LEMMA CallKeepsLatest ==
  ASSUME TInv, TInv', LatestInv, NEW g \in Gateways, Called(g)
  PROVE  LatestInv'
<1>1. SUFFICES ASSUME ~raced'
               PROVE  /\ IsChain(doc', Keys)
                      /\ \E y \in Gateways : IsLatest(doc', Keys, y) /\ LatestOK(y)'
  BY DEF LatestInv
<1>2. DocOK /\ banned \subseteq Agents /\ banned' \subseteq Agents /\ raced \in BOOLEAN
  BY DEF TInv, ScalarsOK
<1>3. ~raced /\ UpToDate(g)
  BY <1>1, <1>2 DEF Called
<1>4. /\ IsDocument(doc, Keys, Types)
      /\ \A h \in Gateways, k \in Keys : Merge(doc[g][k], doc[h][k]) = doc[g][k]
  BY <1>2, <1>3, UpToDateKeys DEF DocOK
<1>5. IsChain(doc, Keys)
  BY <1>3 DEF LatestInv
<1>6. PICK y \in Gateways : IsLatest(doc, Keys, y) /\ LatestOK(y)
  BY <1>3 DEF LatestInv
<1>7. (\A k \in Keys : doc[g][k] = doc[y][k]) /\ IsLatest(doc, Keys, g)
  BY <1>4, <1>6, UpToDateIsLatest
<1>8. LatestOK(g)
  BY <1>2, <1>6, <1>7, SameLatest
<1>9. PICK f, is : LegalWrite(g, f, is)
  BY DEF Called
<1>10. /\ IsDocument(doc', Keys, Types)
       /\ \A h \in Gateways \ {g} : doc'[h] = doc[h]
       /\ \A k \in Keys : Follows(doc'[g][k], doc[g][k])
  BY <1>2, <1>9, LegalValues DEF DocOK
<1>11. IsChain(doc', Keys)
  BY <1>4, <1>5, <1>10, WriteKeepsChain
<1>12. IsLatest(doc', Keys, g)
  BY <1>4, <1>7, <1>10, WriteIsLatest
<1>13. LatestOK(g)'
  BY <1>2, <1>8, <1>9, LegalWriteKeepsLatest
<1> QED BY <1>11, <1>12, <1>13

LEMMA ReceiveKeepsLatestState ==
  ASSUME TInv, LatestInv, NEW g \in Gateways, NEW h \in Gateways, Receive(g, h)
  PROVE  LatestInv'
<1>1. UNCHANGED <<raced, banned>>
  BY DEF Receive
<1>2. SUFFICES ASSUME ~raced
               PROVE  /\ IsChain(doc', Keys)
                      /\ \E y \in Gateways : IsLatest(doc', Keys, y) /\ LatestOK(y)'
  BY <1>1 DEF LatestInv
<1>3. DocOK /\ banned \subseteq Agents /\ IsDocument(doc, Keys, Types)
  BY DEF TInv, ScalarsOK, DocOK
<1>4. DocOK' /\ Brings(doc, doc', Keys, g, h)
  BY <1>3, ReceivedValues
<1>5. IsChain(doc, Keys)
  BY <1>2 DEF LatestInv
<1>6. PICK y \in Gateways : IsLatest(doc, Keys, y) /\ LatestOK(y)
  BY <1>2 DEF LatestInv
<1>7. IsChain(doc', Keys)
  BY <1>3, <1>4, <1>5, ReceiveKeepsChain
<1>8. TakesAll(doc, doc', Keys, y, y) /\ IsLatest(doc', Keys, y)
  BY <1>3, <1>4, <1>5, <1>6, ReceiveKeepsLatest
<1>9. LatestOK(y)'
  <2>1. \A k \in Keys : doc'[y][k] = doc[y][k]
    BY <1>8 DEF TakesAll
  <2>2. \A a \in Agents : Agent(y, a)' = Agent(y, a)
    BY <2>1, AllKeys DEF Agent
  <2>3. \A x \in Gateways : AdminAgent(y, x)' = AdminAgent(y, x) /\ AdminAgent(y, x) \in Agents
    BY <1>3, <2>1, AllKeys, AdminCallers DEF AdminAgent
  <2>4. ASSUME HasAdmin(y)
        PROVE  HasAdmin(y)'
    <3>1. PICK x \in Gateways : Enabled(y, AdminAgent(y, x))
      BY <2>4 DEF HasAdmin
    <3>2. PICK a \in Agents : a = AdminAgent(y, x) /\ AdminAgent(y, x)' = a
      BY <2>3
    <3>3. Agent(y, a).type # "none" /\ ~Agent(y, a).disabled
      BY <3>1, <3>2 DEF Enabled, IsRegistered
    <3>4. Agent(y, AdminAgent(y, x))' = Agent(y, a)
      BY <2>2, <3>2 DEF Agent
    <3> QED BY <3>3, <3>4 DEF HasAdmin, Enabled, IsRegistered
  <2>5. KeepsBans(y)'
    BY <1>1, <1>3, <1>6, <2>2 DEF LatestOK, KeepsBans, IsRegistered
  <2>6. ASSUME NobodyYet(y)
        PROVE  NobodyYet(y)'
    <3>1. SUFFICES ASSUME NEW x \in Gateways
                   PROVE  doc'[y][AdminKey(x)].val = NoAgent /\ Agent(y, ConfigAdmin[x])'.type = "none"
      BY DEF NobodyYet, IsRegistered, Agent
    <3>2. PICK a \in Agents : a = ConfigAdmin[x]
      BY SetsAssumption
    <3>3. doc[y][AdminKey(x)].val = NoAgent /\ Agent(y, a).type = "none"
      BY <2>6, <3>2 DEF NobodyYet, IsRegistered
    <3> QED BY <2>1, <2>2, <3>2, <3>3, AllKeys DEF Agent
  <2> QED BY <1>6, <2>4, <2>5, <2>6 DEF LatestOK
<1> QED BY <1>7, <1>8, <1>9

LEMMA NextLatest ==
  ASSUME TInv, TInv', LatestInv, [Next]_vars
  PROVE  LatestInv'
<1>1. DocOK /\ issued \in Nat
  BY DEF TInv, ScalarsOK
<1>2. CASE UNCHANGED <<doc, issued, raced, spent, banned>>
  BY <1>2 DEF LatestInv, LatestOK, HasAdmin, NobodyYet, KeepsBans, Enabled, IsRegistered, AdminAgent, Agent
<1> QED BY <1>1, <1>2, StepsAre, CallKeepsLatest, ReceiveKeepsLatestState

THEOREM LatestStateHolds == Spec => [](TInv /\ LatestInv)
<1>1. TInv /\ LatestInv /\ [Next]_vars => (TInv /\ LatestInv)'
  BY NextTInv, NextLatest
<1> QED BY InitTInv, InitLatest, <1>1, PTL DEF Spec

\* When the replicas have settled every one of them has the latest state.
LEMMA SettledIsLatest ==
  ASSUME TInv, LatestInv, ~raced, Settled, NEW g \in Gateways
  PROVE  LatestOK(g)
<1>1. DocOK /\ banned \subseteq Agents /\ IsDocument(doc, Keys, Types)
  BY DEF TInv, ScalarsOK, DocOK
<1>2. PICK y \in Gateways : IsLatest(doc, Keys, y) /\ LatestOK(y)
  BY DEF LatestInv
<1>3. \A h \in Gateways, k \in Keys : Merge(doc[g][k], doc[h][k]) = doc[g][k]
  BY <1>1, UpToDateKeys DEF Settled
<1>4. \A k \in Keys : doc[g][k] = doc[y][k]
  BY <1>1, <1>2, <1>3, UpToDateIsLatest
<1> QED BY <1>1, <1>2, <1>4, SameLatest

\* However the admins disable, hand over and are disabled, one call after the other
\* (requireAdminActor, disable_agent and set_gateway_admin in src/tools.ts): where the
\* replicas agree and an agent some configuration names as admin is registered, a
\* gateway has an admin who is enabled.
THEOREM SomeAdminLeft == Spec => []SomeAdminEnabled
<1>1. TInv /\ LatestInv => SomeAdminEnabled
  BY SettledIsLatest DEF SomeAdminEnabled, LatestOK, HasAdmin, NobodyYet
<1> QED BY LatestStateHolds, <1>1, PTL

\* No invite, token, opt-in or restart brings an external agent back that an admin
\* disabled, until an admin enables it (accept_invite writes over the record it finds).
THEOREM DisabledStayOut == Spec => []DisabledExternalStaysOut
<1>1. TInv /\ LatestInv => DisabledExternalStaysOut
  BY SettledIsLatest DEF DisabledExternalStaysOut, LatestOK, KeepsBans
<1> QED BY LatestStateHolds, <1>1, PTL

-----------------------------------------------------------------------------
(***************************************************************************)
(* Invites, whatever races.  An invite is opened by one write and closed   *)
(* by a later one, so where it is open that one write is all that has been *)
(* seen of it.  Once a write that closes it has been received, it is not.  *)
(***************************************************************************)

\* Seen: the write of gateway m that opens an invite, and nothing else.
SeenOf(m) == [g \in Gateways |-> IF g = m THEN 1 ELSE 0]

EntryOpen(e) == e.val # Gone /\ e.val.status = "open"

\* The entry of an invite that m opens, or has opened.
InviteShape(e, m) ==
  /\ e.seen[m] = 0 => e = First(NoInvite)
  /\ EntryOpen(e) => e.seen = SeenOf(m)

\* More has been seen of it than that.
Passed(e, m) == e.seen[m] >= 1 /\ e.seen # SeenOf(m)

InviteEntry(g, i) == doc[g][InviteKey(i)]

OpenedBy(i, m) ==
  /\ \A g \in Gateways : InviteShape(InviteEntry(g, i), m)
  /\ i \in spent => \E x \in Gateways : Passed(InviteEntry(x, i), m)

InvitesInv ==
  \A i \in Invites :
    /\ i > issued => \A g \in Gateways : InviteEntry(g, i) = First(NoInvite)
    /\ \E m \in Gateways : OpenedBy(i, m)

LEMMA ShapeOfFirst ==
  ASSUME NEW m \in Gateways
  PROVE  /\ InviteShape(First(NoInvite), m) /\ ~EntryOpen(First(NoInvite))
         /\ ~Passed(First(NoInvite), m)
         /\ First(NoInvite).seen \in [Gateways -> Nat]
         /\ \A g \in Gateways : First(NoInvite).seen[g] = 0
<1>1. /\ First(NoInvite).val = NoInvite /\ NoInvite.status = "none"
      /\ First(NoInvite).seen = [g \in Gateways |-> 0]
  BY DEF First, NoInvite
<1> QED BY <1>1 DEF InviteShape, EntryOpen, Passed

LEMMA ShapeOfOpening ==
  ASSUME NEW m \in Gateways, NEW v
  PROVE  InviteShape(Set(First(NoInvite), m, v), m)
<1> DEFINE e == Set(First(NoInvite), m, v)
<1>1. First(NoInvite).seen = [g \in Gateways |-> 0]
  BY DEF First
<1>2. e.seen = [First(NoInvite).seen EXCEPT ![m] = @ + 1]
  BY DEF Set
<1>3. e.seen = SeenOf(m)
  BY <1>1, <1>2 DEF SeenOf
<1> HIDE DEF e
<1>4. e.seen[m] = 1
  BY <1>3 DEF SeenOf
<1> QED BY <1>3, <1>4 DEF InviteShape, e

LEMMA ShapeOfClosing ==
  ASSUME NEW m \in Gateways, NEW e, IsEntry(e, GoodInvites), InviteShape(e, m), EntryOpen(e),
         NEW g \in Gateways, NEW v \in GoodInvites, v.status # "open"
  PROVE  InviteShape(Set(e, g, v), m) /\ Passed(Set(e, g, v), m)
<1>1. Set(e, g, v).val = v
  BY SetEntry
<1>2. Set(e, g, v).seen = [e.seen EXCEPT ![g] = @ + 1]
  BY DEF Set
<1>3. e.seen = SeenOf(m)
  BY DEF InviteShape
<1>4. PICK s : s = Set(e, g, v).seen
  OBVIOUS
<1>5. s[m] >= 1 /\ s # SeenOf(m)
  <2>1. s = [SeenOf(m) EXCEPT ![g] = @ + 1]
    BY <1>2, <1>3, <1>4
  <2>2. s[g] = SeenOf(m)[g] + 1 /\ (m # g => s[m] = SeenOf(m)[m])
    BY <2>1 DEF SeenOf
  <2>3. SeenOf(m)[m] = 1 /\ SeenOf(m)[g] \in Nat
    BY DEF SeenOf
  <2> QED BY <2>2, <2>3
<1>6. s[m] # 0
  BY <1>5
<1>7. ~EntryOpen(Set(e, g, v))
  BY <1>1 DEF EntryOpen
<1> QED BY <1>4, <1>5, <1>6, <1>7 DEF InviteShape, Passed

LEMMA ShapeOfPruning ==
  ASSUME NEW m \in Gateways, NEW e, IsEntry(e, GoodInvites), InviteShape(e, m), EntryOpen(e)
  PROVE  /\ InviteShape(Delete(e), m)
         /\ Passed(e, m) => Passed(Delete(e), m)
<1>1. Delete(e).val = Gone /\ Delete(e).seen = e.seen
  BY DeleteEntry
<1>2. e.seen[m] = 1
  BY DEF InviteShape, SeenOf
<1>3. ~EntryOpen(Delete(e))
  BY <1>1 DEF EntryOpen
<1> QED BY <1>1, <1>2, <1>3 DEF InviteShape, Passed

LEMMA ShapeOfMerge ==
  ASSUME NEW m \in Gateways, NEW e, NEW f, IsEntry(e, GoodInvites), IsEntry(f, GoodInvites),
         InviteShape(e, m), InviteShape(f, m)
  PROVE  /\ InviteShape(Merge(e, f), m)
         /\ Passed(e, m) \/ Passed(f, m) => Passed(Merge(e, f), m)
<1>1. PICK r : r = Merge(e, f)
  OBVIOUS
<1>2. /\ IsEntry(r, GoodInvites) /\ r.val \in {e.val, f.val}
      /\ Includes(r, e) /\ Includes(r, f)
  BY <1>1, MergeEntry
<1>3. /\ e.seen \in [Gateways -> Nat] /\ f.seen \in [Gateways -> Nat]
      /\ r.seen \in [Gateways -> Nat] /\ SeenOf(m) \in [Gateways -> Nat]
  BY <1>2 DEF IsEntry, SeenOf
<1>4. r = e \/ r = f \/ (~Includes(e, f) /\ ~Includes(f, e))
  BY <1>1 DEF Merge
<1>5. ASSUME NEW x, NEW y, x.seen \in [Gateways -> Nat], y.seen \in [Gateways -> Nat],
             InviteShape(y, m), ~Includes(x, y)
      PROVE  y.seen[m] # 0
  <2>1. SUFFICES ASSUME y.seen[m] = 0
                 PROVE  FALSE
    OBVIOUS
  <2>2. y = First(NoInvite)
    BY <1>5, <2>1 DEF InviteShape
  <2>3. \A g \in Gateways : y.seen[g] = 0
    BY <2>2, ShapeOfFirst
  <2> QED BY <1>5, <2>3 DEF Includes
<1>6. InviteShape(r, m)
  <2>1. CASE r = e \/ r = f
    BY <2>1
  <2>2. CASE ~Includes(e, f) /\ ~Includes(f, e)
    <3>1. e.seen[m] # 0 /\ f.seen[m] # 0
      BY <1>3, <1>5, <2>2
    <3>2. r.seen[m] # 0
      BY <1>2, <1>3, <3>1 DEF Includes
    <3>3. ASSUME NEW x, NEW y, x.seen \in [Gateways -> Nat], y.seen \in [Gateways -> Nat],
                 InviteShape(x, m), y.seen[m] # 0, ~Includes(y, x)
          PROVE  ~EntryOpen(x)
      <4>1. SUFFICES ASSUME x.seen = SeenOf(m)
                     PROVE  FALSE
        BY <3>3 DEF InviteShape
      <4>2. \A g \in Gateways : x.seen[g] = IF g = m THEN 1 ELSE 0
        BY <4>1 DEF SeenOf
      <4> QED BY <3>3, <4>2 DEF Includes
    <3>4. ~EntryOpen(e) /\ ~EntryOpen(f)
      BY <1>3, <2>2, <3>1, <3>3
    <3>5. ~EntryOpen(r)
      BY <1>2, <3>4 DEF EntryOpen
    <3> QED BY <3>2, <3>5 DEF InviteShape
  <2> QED BY <1>4, <2>1, <2>2
<1>7. ASSUME NEW x, x.seen \in [Gateways -> Nat], Includes(r, x), Passed(x, m)
      PROVE  Passed(r, m)
  <2>1. PICK g \in Gateways : x.seen[g] # SeenOf(m)[g]
    BY <1>3, <1>7 DEF Passed
  <2>2. x.seen[m] >= 1 /\ x.seen[g] > SeenOf(m)[g]
    BY <1>7, <2>1 DEF Passed, SeenOf
  <2>3. r.seen[g] >= x.seen[g] /\ r.seen[m] >= x.seen[m]
    BY <1>7 DEF Includes
  <2>4. r.seen[m] >= 1 /\ r.seen[g] > SeenOf(m)[g]
    BY <1>3, <1>7, <2>2, <2>3
  <2>5. r.seen # SeenOf(m)
    BY <1>3, <2>4
  <2> QED BY <2>4, <2>5 DEF Passed
<1> QED BY <1>1, <1>2, <1>3, <1>6, <1>7

\* What a call and what receiving make of the entries of an invite.
LEMMA WrittenInvites ==
  ASSUME DocOK, NEW g \in Gateways, NEW f, NEW is, LegalWrite(g, f, is), NEW i \in Invites
  PROVE  /\ \A h \in Gateways \ {g} : InviteEntry(h, i)' = InviteEntry(h, i)
         /\ InviteKey(i) \in DOMAIN f =>
              /\ f[InviteKey(i)] \in GoodInvites
              /\ InviteEntry(g, i)' = Set(InviteEntry(g, i), g, f[InviteKey(i)])
         /\ InviteKey(i) \notin DOMAIN f =>
              \/ InviteEntry(g, i)' = InviteEntry(g, i)
              \/ /\ EntryOpen(InviteEntry(g, i))
                 /\ InviteEntry(g, i)' = Delete(InviteEntry(g, i))
<1>1. InviteKey(i) \in Keys /\ Good(InviteKey(i)) = GoodInvites
  BY AllKeys
<1>2. /\ \A h \in Gateways \ {g} : doc'[h] = doc[h]
      /\ InviteKey(i) \in DOMAIN f =>
           /\ f[InviteKey(i)] \in GoodInvites
           /\ doc'[g][InviteKey(i)] = Set(doc[g][InviteKey(i)], g, f[InviteKey(i)])
  BY <1>1, LegalValues DEF LegalWrite
<1>3. ASSUME InviteKey(i) \notin DOMAIN f
      PROVE  \/ doc'[g][InviteKey(i)] = doc[g][InviteKey(i)]
             \/ i \in is /\ doc'[g][InviteKey(i)] = Delete(doc[g][InviteKey(i)])
  <2>1. doc'[g][InviteKey(i)] =
          IF InviteKey(i) \in {InviteKey(j) : j \in is} THEN Delete(doc[g][InviteKey(i)])
          ELSE doc[g][InviteKey(i)]
    BY <1>1, <1>3 DEF LegalWrite, Wrote
  <2>2. InviteKey(i) \in {InviteKey(j) : j \in is} => i \in is
    BY KeyNames
  <2> QED BY <2>1, <2>2
<1>4. i \in is => EntryOpen(InviteEntry(g, i))
  <2>1. i \in is => Invite(g, i).status = "open"
    BY DEF LegalWrite, Pruned
  <2>2. Invite(g, i).status = "open" => EntryOpen(InviteEntry(g, i))
    BY DEF Invite, EntryOpen, InviteEntry, NoInvite
  <2> QED BY <2>1, <2>2
<1> QED BY <1>2, <1>3, <1>4 DEF InviteEntry

\* Opened by the first write: the invite is new everywhere until then.
LEMMA OpeningStarts ==
  ASSUME NEW m \in Gateways, NEW i \in Invites, NEW v,
         \A g \in Gateways : InviteEntry(g, i) = First(NoInvite),
         InviteEntry(m, i)' = Set(InviteEntry(m, i), m, v),
         \A h \in Gateways \ {m} : InviteEntry(h, i)' = InviteEntry(h, i)
  PROVE  \A g \in Gateways : InviteShape(InviteEntry(g, i)', m)
<1>1. ASSUME NEW g \in Gateways
      PROVE  InviteShape(InviteEntry(g, i)', m)
  <2>1. CASE g = m
    BY <2>1, ShapeOfOpening
  <2>2. CASE g # m
    BY <2>2, ShapeOfFirst
  <2> QED BY <2>1, <2>2
<1> QED BY <1>1

LEMMA CallKeepsInvites ==
  ASSUME TInv, InvitesInv, NEW g \in Gateways, Called(g)
  PROVE  InvitesInv'
<1>1. DocOK /\ issued \in Nat /\ issued' \in {issued, issued + 1} /\ spent \subseteq spent'
  BY DEF TInv, ScalarsOK, Called
<1>2. PICK f, is : LegalWrite(g, f, is)
  BY DEF Called
<1>3. SUFFICES ASSUME NEW i \in Invites
               PROVE  /\ i > issued' => \A h \in Gateways : InviteEntry(h, i)' = First(NoInvite)
                      /\ \E m \in Gateways : OpenedBy(i, m)'
  BY DEF InvitesInv
<1>4. PICK m \in Gateways : OpenedBy(i, m)
  BY DEF InvitesInv
<1>5. i > issued => \A h \in Gateways : InviteEntry(h, i) = First(NoInvite)
  BY DEF InvitesInv
<1>6. /\ Invite(g, i).status = "open" => EntryOpen(InviteEntry(g, i))
      /\ \A h \in Gateways : IsEntry(InviteEntry(h, i), GoodInvites)
  <2>1. Invite(g, i).status = "open" => EntryOpen(InviteEntry(g, i))
    BY DEF Invite, EntryOpen, InviteEntry, NoInvite
  <2>2. \A h \in Gateways : IsEntry(InviteEntry(h, i), GoodInvites)
    BY <1>1, AllKeys DEF InviteEntry, DocOK, IsDocument, Types
  <2> QED BY <2>1, <2>2
<1>7. /\ InviteKey(i) \in DOMAIN f =>
           \/ i = issued + 1 /\ issued' = i
           \/ EntryOpen(InviteEntry(g, i)) /\ f[InviteKey(i)].status # "open"
      /\ i \in spent' \ spent =>
           /\ InviteKey(i) \in DOMAIN f
           /\ EntryOpen(InviteEntry(g, i)) /\ f[InviteKey(i)].status # "open"
  BY <1>2, <1>6 DEF LegalWrite, WritesInvites, SpendsWritten
<1>8. CASE i > issued
  <2>1. ~EntryOpen(InviteEntry(g, i)) /\ \A x \in Gateways : ~Passed(InviteEntry(x, i), m)
    BY <1>5, <1>8, ShapeOfFirst
  <2>2. i \notin spent'
    BY <1>4, <1>7, <2>1 DEF OpenedBy
  <2>3. CASE InviteKey(i) \in DOMAIN f
    <3>1. i = issued'
      BY <1>7, <2>1, <2>3
    <3>2. \A h \in Gateways : InviteShape(InviteEntry(h, i)', g)
      BY <1>1, <1>2, <1>5, <1>8, <2>3, WrittenInvites, OpeningStarts
    <3>3. OpenedBy(i, g)'
      BY <2>2, <3>2 DEF OpenedBy
    <3> QED BY <1>1, <3>1, <3>3
  <2>4. CASE InviteKey(i) \notin DOMAIN f
    <3>1. \A h \in Gateways : InviteEntry(h, i)' = First(NoInvite)
      BY <1>1, <1>2, <1>5, <1>8, <2>1, <2>4, WrittenInvites
    <3>2. OpenedBy(i, g)'
      BY <2>2, <3>1, ShapeOfFirst DEF OpenedBy
    <3> QED BY <3>1, <3>2
  <2> QED BY <2>3, <2>4
<1>9. CASE ~(i > issued)
  <2>1. ~(i > issued') /\ i # issued + 1
    BY <1>1, <1>9 DEF Invites
  <2>2. InviteShape(InviteEntry(g, i), m) /\ IsEntry(InviteEntry(g, i), GoodInvites)
    BY <1>4, <1>6 DEF OpenedBy
  <2>3. /\ InviteShape(InviteEntry(g, i)', m)
        /\ Passed(InviteEntry(g, i), m) \/ InviteKey(i) \in DOMAIN f =>
             Passed(InviteEntry(g, i)', m)
    <3>1. CASE InviteKey(i) \in DOMAIN f
      BY <1>1, <1>2, <1>7, <2>1, <2>2, <3>1, WrittenInvites, ShapeOfClosing
    <3>2. CASE InviteKey(i) \notin DOMAIN f /\ InviteEntry(g, i)' = InviteEntry(g, i)
      BY <2>2, <3>2
    <3>3. CASE /\ InviteKey(i) \notin DOMAIN f
               /\ EntryOpen(InviteEntry(g, i)) /\ InviteEntry(g, i)' = Delete(InviteEntry(g, i))
      BY <2>2, <3>3, ShapeOfPruning
    <3> QED BY <1>1, <1>2, <3>1, <3>2, <3>3, WrittenInvites
  <2>4. \A h \in Gateways \ {g} : InviteEntry(h, i)' = InviteEntry(h, i)
    BY <1>1, <1>2, WrittenInvites
  <2>5. \A h \in Gateways : InviteShape(InviteEntry(h, i)', m)
    BY <1>4, <2>3, <2>4 DEF OpenedBy
  <2>6. ASSUME i \in spent'
        PROVE  \E x \in Gateways : Passed(InviteEntry(x, i)', m)
    <3>1. CASE i \in spent
      <4>1. PICK x \in Gateways : Passed(InviteEntry(x, i), m)
        BY <1>4, <3>1 DEF OpenedBy
      <4> QED BY <2>3, <2>4, <4>1
    <3>2. CASE i \notin spent
      BY <1>7, <2>3, <2>6, <3>2
    <3> QED BY <3>1, <3>2
  <2>7. OpenedBy(i, m)'
    BY <2>5, <2>6 DEF OpenedBy
  <2> QED BY <2>1, <2>7
<1> QED BY <1>8, <1>9

LEMMA ReceiveKeepsInvites ==
  ASSUME TInv, InvitesInv, NEW g \in Gateways, NEW h \in Gateways, Receive(g, h)
  PROVE  InvitesInv'
<1>1. DocOK /\ UNCHANGED <<issued, spent>>
  BY DEF TInv, Receive
<1>2. Brings(doc, doc', Keys, g, h)
  BY <1>1, ReceivedValues
<1>3. SUFFICES ASSUME NEW i \in Invites
               PROVE  /\ i > issued => \A x \in Gateways : InviteEntry(x, i)' = First(NoInvite)
                      /\ \E m \in Gateways : OpenedBy(i, m)'
  BY <1>1 DEF InvitesInv
<1>4. /\ \A x \in Gateways \ {h} : InviteEntry(x, i)' = InviteEntry(x, i)
      /\ InviteEntry(h, i)' = Merge(InviteEntry(h, i), InviteEntry(g, i))
      /\ \A x \in Gateways : IsEntry(InviteEntry(x, i), GoodInvites)
  BY <1>1, <1>2, AllKeys DEF InviteEntry, Brings, DocOK, IsDocument, Types
<1>5. ASSUME i > issued, NEW x \in Gateways
      PROVE  InviteEntry(x, i)' = First(NoInvite)
  <2>1. \A y \in Gateways : InviteEntry(y, i) = First(NoInvite)
    BY <1>5 DEF InvitesInv
  <2>2. IsEntry(First(NoInvite), GoodInvites) /\ Follows(First(NoInvite), First(NoInvite))
    BY <1>4, <2>1 DEF Follows
  <2>3. Merge(First(NoInvite), First(NoInvite)) = First(NoInvite)
    BY <2>2, MergeFollows
  <2> QED BY <1>4, <2>1, <2>3
<1>6. PICK m \in Gateways : OpenedBy(i, m)
  BY DEF InvitesInv
<1>7. /\ InviteShape(InviteEntry(h, i)', m)
      /\ Passed(InviteEntry(h, i), m) => Passed(InviteEntry(h, i)', m)
  BY <1>4, <1>6, ShapeOfMerge DEF OpenedBy
<1>8. \A x \in Gateways : /\ InviteShape(InviteEntry(x, i)', m)
                          /\ Passed(InviteEntry(x, i), m) => Passed(InviteEntry(x, i)', m)
  BY <1>4, <1>6, <1>7 DEF OpenedBy
<1>9. OpenedBy(i, m)'
  BY <1>1, <1>6, <1>8 DEF OpenedBy
<1> QED BY <1>5, <1>9

LEMMA NextInvites ==
  ASSUME TInv, InvitesInv, [Next]_vars
  PROVE  InvitesInv'
<1>1. DocOK /\ issued \in Nat
  BY DEF TInv, ScalarsOK
<1>2. CASE UNCHANGED <<doc, issued, raced, spent, banned>>
  BY <1>2 DEF InvitesInv, OpenedBy, InviteEntry
<1> QED BY <1>1, <1>2, StepsAre, CallKeepsInvites, ReceiveKeepsInvites

LEMMA InitInvites == Init => InvitesInv
<1>1. SUFFICES ASSUME Init, NEW i \in Invites
               PROVE  /\ \A g \in Gateways : InviteEntry(g, i) = First(NoInvite)
                      /\ \E m \in Gateways : OpenedBy(i, m)
  BY DEF InvitesInv
<1>2. \A g \in Gateways : InviteEntry(g, i) = First(NoInvite)
  <2>1. PICK home :
          /\ \A a \in Agents : home[a] \in Homes(a)
          /\ doc = [g \in Gateways |-> [k \in Keys |-> First(Start(k, home))]]
    BY <1>1 DEF Init
  <2>2. InviteKey(i) \in Keys /\ Start(InviteKey(i), home) = NoInvite
    BY <2>1, AllKeys, StartValues
  <2> QED BY <2>1, <2>2 DEF InviteEntry
<1>3. PICK m \in Gateways : TRUE
  BY ReplicaAssumption
<1>4. OpenedBy(i, m)
  BY <1>1, <1>2, ShapeOfFirst DEF OpenedBy, Init
<1> QED BY <1>2, <1>4

\* An invite that was accepted, or superseded by another one of its agent, is closed
\* for good once the replicas agree (accept_invite in src/tools.ts): also when it was
\* accepted, superseded and pruned on different gateways at the same time.
THEOREM SpentStayClosed == Spec => []SpentInvitesClosed
<1>1. TInv /\ InvitesInv /\ [Next]_vars => (TInv /\ InvitesInv)'
  BY NextTInv, NextInvites
<1>2. ASSUME TInv, InvitesInv, Settled, NEW g \in Gateways, NEW i \in spent
      PROVE  ~IsOpen(g, i)
  <2>1. DocOK /\ i \in Invites
    BY <1>2 DEF TInv, ScalarsOK
  <2>2. PICK m \in Gateways : OpenedBy(i, m)
    BY <1>2, <2>1 DEF InvitesInv
  <2>3. PICK x \in Gateways : Passed(InviteEntry(x, i), m)
    BY <2>2 DEF OpenedBy
  <2>4. Merge(InviteEntry(g, i), InviteEntry(x, i)) = InviteEntry(g, i)
    BY <1>2, <2>1, AllKeys, UpToDateKeys DEF Settled, InviteEntry
  <2>5. \A y \in Gateways : IsEntry(InviteEntry(y, i), GoodInvites)
    BY <2>1, AllKeys DEF InviteEntry, DocOK, IsDocument, Types
  <2>6. Passed(InviteEntry(g, i), m) /\ InviteShape(InviteEntry(g, i), m)
    BY <2>2, <2>3, <2>4, <2>5, ShapeOfMerge DEF OpenedBy
  <2>7. ~EntryOpen(InviteEntry(g, i))
    BY <2>6 DEF Passed, InviteShape
  <2>8. Invite(g, i).status = "open" => EntryOpen(InviteEntry(g, i))
    BY DEF Invite, EntryOpen, InviteEntry, NoInvite
  <2> QED BY <2>7, <2>8 DEF IsOpen
<1>3. TInv /\ InvitesInv => SpentInvitesClosed
  BY <1>2 DEF SpentInvitesClosed
<1> QED BY InitTInv, InitInvites, <1>1, <1>3, PTL DEF Spec
=============================================================================
