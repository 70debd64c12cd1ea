----------------------------- MODULE Admission -----------------------------
(***************************************************************************)
(* How a node enters and leaves the network (src/auth.ts, src/admission.ts *)
(* and the admission gate of src/service.ts): the authorized nodes, the    *)
(* invites and the tickets an invite is exchanged for.  All of it is in    *)
(* maps of the shared document, of which every gateway changes its own     *)
(* replica; replicas exchange what they have while the gateways are        *)
(* linked.  The gate is taken to be on, and on every gateway: which of     *)
(* them run one (those with the tier backbone in their configuration, be   *)
(* their entry what it may) is not part of the state.                      *)
(***************************************************************************)
EXTENDS Replica, FiniteSets

CONSTANTS
  Nodes,           \* those that may ask to be admitted, the gateways among them
  Founders,        \* the gateways that may act before there is a node
  Bindings,        \* what invites are bound to: nodes, or Anyone
  RequireTicket,   \* requireTicketForUnknown
  MaxRequests,     \* bound on calls
  MaxInvites,      \* bound on invites
  MaxTickets,      \* bound on tickets
  MaxExpiries,     \* bound on what is seen to expire
  Anyone           \* the binding of an invite without expectedNodeId

Invites == 1..MaxInvites
Tickets == 1..MaxTickets

ASSUME AdmissionAssumption ==
  /\ IsFiniteSet(Nodes) /\ Gateways \subseteq Nodes /\ Anyone \notin Nodes
  /\ Founders \subseteq Gateways /\ Bindings \subseteq Nodes \union {Anyone}
  /\ RequireTicket \in BOOLEAN
  /\ MaxRequests \in Nat /\ MaxInvites \in Nat /\ MaxTickets \in Nat /\ MaxExpiries \in Nat

VARIABLES
  doc,       \* per gateway and key: the value, and the writes that led to it
  linked,    \* pairs {g, h} of gateways with a connection from one to the other
  expired,   \* invites and tickets whose time is over
  issued,    \* the number of invites so far
  minted,    \* the number of tickets so far
  \* History.
  requests,
  raced,     \* the maps a call relied on where they had not been received in full
  demoted,   \* a node entered as the edge that the network had no backbone for
  uses,      \* per invite and gateway: how often it let a node in there
  warrants   \* what entered the list of nodes by an invite that was good for it

vars == <<doc, linked, expired, issued, minted, requests, raced, demoted, uses, warrants>>

-----------------------------------------------------------------------------
NodeKey(n) == <<"node", n>>
InviteKey(i) == <<"invite", i>>
TicketKey(t) == <<"ticket", t>>
Kinds == {"node", "invite"}
Keys == {NodeKey(n) : n \in Nodes} \union {InviteKey(i) : i \in Invites}
          \union {TicketKey(t) : t \in Tickets}

Tier == {"backbone", "edge"}
NodeInfo == [tier : Tier, by : Nodes]
PendingInvite == [tier : Tier, bound : Nodes \union {Anyone}, by : Nodes]
WsTicketRecord == [invite : Invites, node : Nodes, used : BOOLEAN]

ASSUME GoneAssumption == Gone \notin NodeInfo \union PendingInvite \union WsTicketRecord

ValueOf(k) ==
  CASE k[1] = "node" -> NodeInfo
    [] k[1] = "invite" -> PendingInvite
    [] k[1] = "ticket" -> WsTicketRecord

Node(g, n) == doc[g][NodeKey(n)].val
Invite(g, i) == doc[g][InviteKey(i)].val
Ticket(g, t) == doc[g][TicketKey(t)].val

IsKnown(g, n) == Node(g, n) # Gone
IsBackbone(g, n) == IsKnown(g, n) /\ Node(g, n).tier = "backbone"
NoNodes(g) == \A n \in Nodes : ~IsKnown(g, n)

TypeOK ==
  /\ \A g \in Gateways, k \in Keys : IsEntry(doc[g][k], ValueOf(k))
  /\ \A g \in Gateways, t \in Tickets : \* tickets are for whom their invite is for
       Ticket(g, t) # Gone /\ Invite(g, Ticket(g, t).invite) # Gone =>
         Invite(g, Ticket(g, t).invite).bound \in {Anyone, Ticket(g, t).node}
  /\ linked \subseteq SUBSET Gateways
  /\ expired \subseteq {InviteKey(i) : i \in 1..issued} \union {TicketKey(t) : t \in 1..minted}
  /\ issued \in 0..MaxInvites /\ minted \in 0..MaxTickets
  /\ requests \in 0..MaxRequests /\ raced \subseteq Kinds /\ demoted \in BOOLEAN
  /\ uses \in [Invites -> [Gateways -> Nat]]
  /\ warrants \subseteq [node : Nodes, tier : Tier, by : Nodes]

\* A document without any node, or a network whose gateways were admitted long ago.
Init ==
  \E M \in {{}, Gateways} :
    LET info(n) == [tier |-> "backbone", by |-> n] IN
    /\ doc = [g \in Gateways |-> [k \in Keys |->
                First(IF \E n \in M : k = NodeKey(n) THEN info(k[2]) ELSE Gone)]]
    /\ linked = {{p[1], p[2]} : p \in {q \in M \X M : q[1] # q[2]}}
    /\ expired = {}
    /\ issued = 0
    /\ minted = 0
    /\ requests = 0
    /\ raced = {}
    /\ demoted = FALSE
    /\ uses = [i \in Invites |-> [g \in Gateways |-> 0]]
    /\ warrants = {}

-----------------------------------------------------------------------------
(***************************************************************************)
(* Replication.                                                            *)
(***************************************************************************)

\* Gateway g writes f[k] to, or deletes, each key k of the domain of f.
Writes(g, f) ==
  doc' = [doc EXCEPT ![g] = [k \in Keys |->
    IF k \notin DOMAIN f THEN doc[g][k]
    ELSE IF f[k] = Gone THEN Delete(doc[g][k]) ELSE Set(doc[g][k], g, f[k])]]

Received(g, h) == [k \in Keys |-> Merge(doc[h][k], doc[g][k])]

\* Gateway h receives everything g has.
Receive(g, h) ==
  /\ {g, h} \in linked
  /\ Received(g, h) # doc[h]
  /\ doc' = [doc EXCEPT ![h] = Received(g, h)]
  /\ UNCHANGED <<linked, expired, issued, minted, requests, raced, demoted, uses, warrants>>

\* What others have in the map of this kind has arrived at g.
UpToDate(g, kind) ==
  \A h \in Gateways, k \in Keys : k[1] = kind => Merge(doc[g][k], doc[h][k]) = doc[g][k]

\* A call on gateway g that relies on these maps.
Call(g, kinds) ==
  /\ requests < MaxRequests
  /\ requests' = requests + 1
  /\ raced' = raced \union {kind \in kinds : ~UpToDate(g, kind)}

\* A call that lets nobody in.  Bound: none follows a race about invites.
Prepare(g, kinds) == Call(g, kinds) /\ "invite" \notin raced

Expire(k) ==
  /\ Cardinality(expired) < MaxExpiries
  /\ k \notin expired
  /\ expired' = expired \union {k}
  /\ UNCHANGED <<doc, linked, issued, minted, requests, raced, demoted, uses, warrants>>

\* Bound: time is seen to pass only for what some gateway still holds.
TimePasses ==
  \E g \in Gateways :
    \/ \E i \in Invites : Invite(g, i) # Gone /\ Expire(InviteKey(i))
    \/ \E t \in Tickets : Ticket(g, t) # Gone /\ Expire(TicketKey(t))

-----------------------------------------------------------------------------
(***************************************************************************)
(* Starting (src/service.ts), founding, inviting, joining, revoking        *)
(* (src/auth.ts).                                                          *)
(***************************************************************************)

\* A node of this tier, on its way into the list of nodes of gateway g, which has
\* received every other, leaves the network without a backbone.
Demotes(g, n, tier) ==
  tier = "edge" /\ UpToDate(g, "node") /\ \A m \in Nodes \ {n} : ~IsBackbone(g, m)

\* Gateway g starts, with the document it had: an edge loads it, a backbone has it for
\* as long as its process lives.  Whoever is not in the list enters itself, by nobody's
\* invite; whose entry lacks a capability writes it again.  (A start that writes nothing
\* closes connections, which Disconnect does.)
SyncNodeCapabilities(g, tier) ==
  LET info == IF IsKnown(g, g) THEN Node(g, g) ELSE [tier |-> tier, by |-> g]
  IN /\ Call(g, {"node"})
     /\ Writes(g, [k \in {NodeKey(g)} |-> info])
     /\ linked' = {l \in linked : g \notin l}
     /\ demoted' = (demoted \/ Demotes(g, g, info.tier))
     /\ UNCHANGED <<expired, issued, minted, uses, warrants>>

\* ansible bootstrap: gateway g enters itself into an empty list.
BootstrapFirstNode(g, tier) ==
  /\ NoNodes(g) /\ g \in Founders
  /\ Prepare(g, {"node"})
  /\ Writes(g, [k \in {NodeKey(g)} |-> [tier |-> tier, by |-> g]])
  /\ demoted' = (demoted \/ Demotes(g, g, tier))
  /\ UNCHANGED <<linked, expired, issued, minted, uses, warrants>>

\* ansible invite: a backbone node, or any before there is one, makes an invite.
GenerateInviteToken(g, tier, bound) ==
  /\ (NoNodes(g) /\ g \in Founders) \/ IsBackbone(g, g)
  /\ issued < MaxInvites
  /\ Prepare(g, Kinds)
  /\ issued' = issued + 1
  /\ Writes(g, [k \in {InviteKey(issued + 1)} |-> [tier |-> tier, bound |-> bound, by |-> g]])
  /\ UNCHANGED <<linked, expired, minted, demoted, uses, warrants>>

IsOver(k) == k \in expired

\* Fault: the binding of the invite is not compared with the node that shows it.
IsGoodForAnybody(g, i, n) == Invite(g, i) # Gone /\ ~IsOver(InviteKey(i))

\* The invite is there, in time, and not bound to another node.
IsGoodFor(g, i, n) ==
  /\ Invite(g, i) # Gone
  /\ ~IsOver(InviteKey(i))
  /\ Invite(g, i).bound \in {Anyone, n}

\* Fault: the invite is left in the map when it has let a node in.
EnterKeepingInvite(g, i, n) == {NodeKey(n)}

\* The keys an admission by invite i writes: the node is added, the invite deleted.
EnterKeys(g, i, n) == {NodeKey(n), InviteKey(i)}

\* Gateway g enters node n into the list by invite i, and does more besides.
Enter(g, i, n, more) ==
  LET v == Invite(g, i)
      info == [tier |-> v.tier, by |-> v.by]
  IN /\ Writes(g, [k \in EnterKeys(g, i, n) \union DOMAIN more |->
                     IF k = NodeKey(n) THEN info
                     ELSE IF k \in DOMAIN more THEN more[k] ELSE Gone])
     /\ uses' = [uses EXCEPT ![i][g] = @ + 1]
     /\ demoted' = (demoted \/ Demotes(g, n, v.tier))
     /\ warrants' = IF IsOver(InviteKey(i)) \/ v.bound \notin {Anyone, n} THEN warrants
                    ELSE warrants \union {[node |-> n, tier |-> v.tier, by |-> v.by]}

Nothing == [k \in {} |-> Gone]

HasExpired(g, i) == Invite(g, i) # Gone /\ IsOver(InviteKey(i))

\* A call that finds the invite expired deletes it, and fails.
DropExpired(g, i, keys) ==
  /\ HasExpired(g, i)
  /\ Writes(g, [k \in keys \union {InviteKey(i)} |-> Gone])
  /\ UNCHANGED <<demoted, uses, warrants>>

\* ansible join, on the gateway that joins: it may be in the list already, and
\* then takes the tier of the invite.
JoinWithToken(g, i) ==
  /\ Call(g, Kinds)
  /\ \/ IsGoodFor(g, i, g) /\ Enter(g, i, g, Nothing)
     \/ DropExpired(g, i, {})
  /\ UNCHANGED <<linked, expired, issued, minted>>

\* Fault: a gateway may revoke itself.
MayRevokeItself(g, n) == IsBackbone(g, g) /\ IsKnown(g, n)

MayRevoke(g, n) == IsBackbone(g, g) /\ n # g /\ IsKnown(g, n)

\* Backbone node g deletes n from the list; its connections stay.
RevokeNode(g, n) ==
  /\ MayRevoke(g, n)
  /\ Prepare(g, {"node"})
  /\ Writes(g, [k \in {NodeKey(n)} |-> Gone])
  /\ UNCHANGED <<linked, expired, issued, minted, demoted, uses, warrants>>

-----------------------------------------------------------------------------
(***************************************************************************)
(* Tickets (src/admission.ts, the exchange server of src/service.ts).      *)
(***************************************************************************)

\* What pruneExpiredTickets deletes: the tickets used or over.
DeadTickets(g) ==
  {TicketKey(t) : t \in {u \in Tickets : /\ Ticket(g, u) # Gone
                                         /\ Ticket(g, u).used \/ IsOver(TicketKey(u))}}

\* Bound: a refused call counts where it prunes something.
Prune(g) ==
  /\ DeadTickets(g) # {}
  /\ Writes(g, [k \in DeadTickets(g) |-> Gone])
  /\ UNCHANGED <<demoted, uses, warrants>>

\* mintWsTicketFromInvite, by ansible ws-ticket on the gateway itself or by a
\* POST to its exchange server.  The invite stays.  Of a call refused because there
\* is no invite, or one for another node, the pruning stays.
MintWsTicketFromInvite(g, i, n) ==
  /\ Prepare(g, Kinds)
  /\ \/ /\ IsGoodFor(g, i, n)
        /\ minted < MaxTickets
        /\ minted' = minted + 1
        /\ Writes(g, [k \in DeadTickets(g) \union {TicketKey(minted + 1)} |->
                        IF k = TicketKey(minted + 1)
                        THEN [invite |-> i, node |-> n, used |-> FALSE] ELSE Gone])
        /\ UNCHANGED <<demoted, uses, warrants>>
     \/ DropExpired(g, i, DeadTickets(g)) /\ UNCHANGED minted
     \/ /\ ~IsGoodFor(g, i, n) /\ ~HasExpired(g, i)
        /\ Prune(g)
        /\ UNCHANGED minted
  /\ UNCHANGED <<linked, expired, issued>>

-----------------------------------------------------------------------------
(***************************************************************************)
(* The admission gate (authorizeBackboneConnection of src/service.ts).     *)
(***************************************************************************)

Link(g, n) == linked' = IF n \in Gateways THEN linked \union {{g, n}} ELSE linked

\* A node in the list is let in, whatever it shows.
AcceptKnown(g, n) ==
  /\ IsKnown(g, n)
  /\ n \in Gateways /\ {g, n} \notin linked
  /\ Link(g, n)
  /\ UNCHANGED <<doc, expired, issued, minted, requests, raced, demoted, uses, warrants>>

\* Fault: a ticket in time is enough, the invite it was minted from may be over.
TicketInTime(g, t, n) ==
  /\ Ticket(g, t) # Gone /\ ~Ticket(g, t).used /\ ~IsOver(TicketKey(t))
  /\ Ticket(g, t).node = n
  /\ Invite(g, Ticket(g, t).invite) # Gone

\* consumeWsTicket finds the ticket, in time and minted for n, and its invite good.
TicketIsGood(g, t, n) ==
  /\ Ticket(g, t) # Gone /\ ~Ticket(g, t).used /\ ~IsOver(TicketKey(t))
  /\ Ticket(g, t).node = n
  /\ IsGoodFor(g, Ticket(g, t).invite, n)

\* A node that is not in the list shows a ticket, minted from invite i.  Of a ticket
\* refused for another reason than its invite being over the pruning stays.
AcceptTicket(g, n, t, i) ==
  /\ ~IsKnown(g, n)
  /\ Ticket(g, t) # Gone /\ Ticket(g, t).invite = i
  /\ Call(g, Kinds)
  /\ LET kept == [k \in DeadTickets(g) \union {TicketKey(t)} |->
                    IF k = TicketKey(t) THEN [Ticket(g, t) EXCEPT !.used = TRUE] ELSE Gone]
     IN \/ TicketIsGood(g, t, n) /\ Enter(g, i, n, kept) /\ Link(g, n)
        \/ /\ TicketKey(t) \notin DeadTickets(g) /\ Ticket(g, t).node = n
           /\ DropExpired(g, i, DeadTickets(g))
           /\ UNCHANGED linked
        \/ /\ ~TicketIsGood(g, t, n)
           /\ HasExpired(g, i) => TicketKey(t) \in DeadTickets(g) \/ Ticket(g, t).node # n
           /\ Prune(g)
           /\ UNCHANGED linked
  /\ UNCHANGED <<expired, issued, minted>>

\* A node that is not in the list shows an invite, where no ticket is required.
AcceptInvite(g, n, i) ==
  /\ ~IsKnown(g, n)
  /\ ~RequireTicket
  /\ Call(g, Kinds)
  /\ \/ IsGoodFor(g, i, n) /\ Enter(g, i, n, Nothing) /\ Link(g, n)
     \/ DropExpired(g, i, {}) /\ UNCHANGED linked
  /\ UNCHANGED <<expired, issued, minted>>

Disconnect(g, n) ==
  /\ {g, n} \in linked
  /\ linked' = linked \ {{g, n}}
  /\ UNCHANGED <<doc, expired, issued, minted, requests, raced, demoted, uses, warrants>>

-----------------------------------------------------------------------------
Membership(g) ==
  \/ \E tier \in Tier : SyncNodeCapabilities(g, tier) \/ BootstrapFirstNode(g, tier)
  \/ \E tier \in Tier, bound \in Bindings : GenerateInviteToken(g, tier, bound)
  \/ \E i \in Invites : JoinWithToken(g, i)
  \/ \E n \in Nodes : RevokeNode(g, n)
  \/ \E i \in Invites, n \in Nodes : MintWsTicketFromInvite(g, i, n)

Connections(g) ==
  \E n \in Nodes \ {g} :
    \/ AcceptKnown(g, n)
    \/ \E t \in Tickets, i \in Invites : AcceptTicket(g, n, t, i)
    \/ \E i \in Invites : AcceptInvite(g, n, i)
    \/ Disconnect(g, n)

Next ==
  \/ \E g \in Gateways : Membership(g) \/ Connections(g)
  \/ \E g, h \in Gateways : Receive(g, h)
  \/ TimePasses

Spec == Init /\ [][Next]_vars

-----------------------------------------------------------------------------
(***************************************************************************)
(* Properties.                                                             *)
(***************************************************************************)

\* An invite lets nobody in twice on the same gateway, neither as itself nor by
\* the tickets minted from it, and whatever comes in late from other replicas
\* (consumeInviteForNode and joinWithToken delete it).
OncePerGateway == \A i \in Invites, g \in Gateways : uses[i][g] <= 1

\* As long as invites are used where everything about invites has arrived, an invite
\* lets in one node, in the whole network: it is "single-use"
\* (docs/distributed-pipes-v2.md:68).
SingleUse ==
  "invite" \notin raced =>
    \A i \in Invites, g, h \in Gateways : g # h => uses[i][g] + uses[i][h] <= 1

\* Whoever is in the list of nodes is a gateway that entered itself, when it started or
\* founded the network (service.ts:973-985), or came by an invite that was in time and
\* not bound to another node, with the tier of that invite: a ticket does not outlive
\* the invite it was minted from.
NodesAsInvited ==
  \A g \in Gateways, n \in Nodes : IsKnown(g, n) =>
    \/ n \in Gateways /\ Node(g, n).by = n
    \/ [node |-> n, tier |-> Node(g, n).tier, by |-> Node(g, n).by] \in warrants

\* A network that has not come down to one of edges, by whom it let in or who entered
\* itself, keeps a backbone node, without which no invite could be made and nobody
\* revoked.
SomeBackboneLeft ==
  "node" \notin raced /\ ~demoted =>
    \A g \in Gateways : ~NoNodes(g) => \E n \in Nodes : IsBackbone(g, n)
=============================================================================
