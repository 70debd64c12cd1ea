------------------------ MODULE CapabilityLifecycle ------------------------
(***************************************************************************)
(* Publishing, unpublishing and failing over one capability (the pipelines *)
(* of src/tools.ts).                                                       *)
(*                                                                         *)
(* A capability is spread over six maps of the shared document: catalog,   *)
(* index (who is routed to), manifests, revisions, install stages and      *)
(* wirings.  A pipeline runs without an await, so on its own gateway it is *)
(* one step, but it is not one transaction: every map.set is sent to the   *)
(* other gateways on its own, and they see all the states in between.      *)
(* Each gateway receives the writes of another one in the order they were  *)
(* made.                                                                   *)
(***************************************************************************)
EXTENDS Integers, FiniteSets, SequencesExt

CONSTANTS
  Gateways,
  GatewayRank,     \* order of the client ids, which decides concurrent writes
  Agents, Host,    \* the agents and the gateway each of them is bound to
  VersionOrder,    \* the versions, in the order of their manifest keys
  Offers,          \* what somebody may try to publish
  Admin,           \* per gateway: resolveRequiredAdminAgentId
  TrustedKeys,     \* manifestTrust.trustedPublisherKeys
  AllowUnsigned,   \* manifestTrust.allowUnsignedLegacy
  Restarting,      \* gateways that restart or reconnect
  MaxRequests,     \* bound on publishes, unpublishes and failovers
  MaxFaults,       \* bound on publishes that fail while they activate
  FailurePoints,   \* the writes of G8 after which that happens
  NoVersion, NoAgent

Versions == {VersionOrder[i] : i \in DOMAIN VersionOrder}

\* A manifest with the parameters of the call that offers it.
Offer ==
  [version : Versions, owner : Agents, standbys : SUBSET Agents,
   risk : {"low", "high"}, signedRequired : BOOLEAN,
   signature : STRING,                \* the id of the key, or "unsigned"
   publisher : Agents, approver : Agents \union {NoAgent},
   status : {"active", "disabled"}]   \* "deprecated" is treated as "disabled"

ASSUME SetsAssumption ==
  /\ IsFiniteSet(Gateways) /\ IsFiniteSet(Agents)
  /\ Host \in [Agents -> Gateways] /\ Admin \in [Gateways -> Agents]
  /\ VersionOrder \in Seq(Versions) /\ NoVersion \notin Versions
  /\ NoAgent \notin Agents
  /\ \A q \in Offers : q \in Offer
  /\ Restarting \subseteq Gateways /\ AllowUnsigned \in BOOLEAN

ASSUME BoundsAssumption ==
  /\ MaxRequests \in Nat /\ MaxFaults \in Nat /\ FailurePoints \subseteq 0..4
  /\ GatewayRank \in [Gateways -> Nat]
  /\ \A g, h \in Gateways : GatewayRank[g] = GatewayRank[h] => g = h

VARIABLES
  doc,          \* per gateway and key: the value, and the writes that led to it
  chan,         \* chan[g][h]: writes of g that h has not received yet
  tasked,       \* skill distribution tasks created: versions and agents
  advertised,   \* gateways whose context entry lists the executor skill
  rehydrated,   \* gateways that have rehydrated since the maps last changed there
  \* History.
  raced,        \* a pipeline has run on a gateway that had not received everything
  reused,       \* a version was published again, or other than as active
  requests, faults

histVars == <<raced, reused, requests, faults>>
vars == <<doc, chan, tasked, advertised, rehydrated, histVars>>

-----------------------------------------------------------------------------
(***************************************************************************)
(* The records and their keys.                                             *)
(***************************************************************************)

CatalogKey == <<"catalog", NoVersion>>
IndexKey == <<"index", NoVersion>>
RevisionKey == <<"revision", NoVersion>>
ManifestKey(v) == <<"manifest", v>>
StageKey(v) == <<"stage", v>>
WiringKey(v) == <<"wiring", v>>
Keys == {CatalogKey, IndexKey, RevisionKey}
          \union {"manifest", "stage", "wiring"} \X Versions

SomeVersion == Versions \union {NoVersion}
SomeAgent == Agents \union {NoAgent}

CatalogRecord ==
  [version : SomeVersion, owner : SomeAgent, approved : BOOLEAN,
   status : {"none", "active", "disabled"}]
RevisionRecord ==
  [versions : SUBSET Versions, active : SomeVersion, archived : SUBSET Versions,
   owner : SomeAgent, failedFrom : SomeAgent, last : {"none", "published", "unpublished"}]
ManifestRecord == [owner : SomeAgent, standbys : SUBSET Agents, risk : {"none", "low", "high"}]
StageRecord ==
  [status : {"none", "staged", "wired", "unwired"}, owner : SomeAgent, targets : SUBSET Agents]
WiringRecord ==
  [state : {"none", "wired", "unwired"}, owner : SomeAgent, targets : SUBSET Agents]

\* What a key may hold, and what it holds before it is written.
ValueOf(k) ==
  CASE k[1] = "catalog" -> CatalogRecord
    [] k[1] = "index" -> SUBSET Agents          \* eligibleAgentIds
    [] k[1] = "revision" -> RevisionRecord
    [] k[1] = "manifest" -> ManifestRecord
    [] k[1] = "stage" -> StageRecord
    [] k[1] = "wiring" -> WiringRecord
Blank(k) ==
  CASE k[1] = "catalog" ->
         [version |-> NoVersion, owner |-> NoAgent, approved |-> FALSE, status |-> "none"]
    [] k[1] = "index" -> {}
    [] k[1] = "revision" ->
         [versions |-> {}, active |-> NoVersion, archived |-> {}, owner |-> NoAgent,
          failedFrom |-> NoAgent, last |-> "none"]
    [] k[1] = "manifest" -> [owner |-> NoAgent, standbys |-> {}, risk |-> "none"]
    [] k[1] = "stage" -> [status |-> "none", owner |-> NoAgent, targets |-> {}]
    [] k[1] = "wiring" -> [state |-> "none", owner |-> NoAgent, targets |-> {}]

IsEntry(e, k) ==
  /\ e = [val |-> e.val, seen |-> e.seen, by |-> e.by]
  /\ e.val \in ValueOf(k) /\ e.seen \in [Gateways -> Nat] /\ e.by \in Gateways

TypeOK ==
  /\ \A g \in Gateways, k \in Keys : IsEntry(doc[g][k], k)
  /\ \A g, h \in Gateways : \A i \in DOMAIN chan[g][h] :
       /\ chan[g][h][i].key \in Keys /\ chan[g][h][i].erase \in BOOLEAN
       /\ IsEntry(chan[g][h][i].entry, chan[g][h][i].key)
  /\ tasked \subseteq Versions \X Agents
  /\ advertised \subseteq Gateways /\ rehydrated \subseteq Gateways
  /\ raced \in BOOLEAN /\ reused \in BOOLEAN
  /\ requests \in 0..MaxRequests /\ faults \in 0..MaxFaults

\* (Who wrote what nobody has written is never looked at.)
Init ==
  /\ doc = [g \in Gateways |-> [k \in Keys |->
              [val |-> Blank(k), seen |-> [h \in Gateways |-> 0],
               by |-> CHOOSE h \in Gateways : TRUE]]]
  /\ chan = [g \in Gateways |-> [h \in Gateways |-> <<>>]]
  /\ tasked = {}
  /\ advertised = {}
  /\ rehydrated = {}
  /\ raced = FALSE
  /\ reused = FALSE
  /\ requests = 0
  /\ faults = 0

Catalog(g) == doc[g][CatalogKey].val
Index(g) == doc[g][IndexKey].val
Revision(g) == doc[g][RevisionKey].val
Manifest(g, v) == doc[g][ManifestKey(v)].val
Stage(g, v) == doc[g][StageKey(v)].val
Wiring(g, v) == doc[g][WiringKey(v)].val

-----------------------------------------------------------------------------
(***************************************************************************)
(* Replication (Yjs): a pipeline is a sequence of writes, made on the own  *)
(* replica at once and received one by one elsewhere.  Of two concurrent   *)
(* writes of a key the higher client id wins; erasing a key erases the     *)
(* write it holds and leaves one not seen yet.                             *)
(***************************************************************************)

Put(k, val) == [key |-> k, val |-> val, erase |-> FALSE]
Erase(k) == [key |-> k, val |-> Blank(k), erase |-> TRUE]

\* The entry of a key of gateway g after write j of ws.
EntryAfter(g, ws, j) ==
  LET old == doc[g][ws[j].key]
      n == Cardinality({i \in 1..j : ws[i].key = ws[j].key /\ ~ws[i].erase})
  IN [val |-> ws[j].val,
      seen |-> [old.seen EXCEPT ![g] = @ + n],
      by |-> IF n = 0 THEN old.by ELSE g]

Writes(g, ws) ==
  /\ doc' = [doc EXCEPT ![g] = [k \in Keys |->
       LET js == {j \in DOMAIN ws : ws[j].key = k}
       IN IF js = {} THEN doc[g][k] ELSE EntryAfter(g, ws, Max(js))]]
  /\ chan' = [chan EXCEPT ![g] = [h \in Gateways |->
       IF h = g THEN <<>>
       ELSE chan[g][h] \o [j \in DOMAIN ws |->
              [key |-> ws[j].key, entry |-> EntryAfter(g, ws, j), erase |-> ws[j].erase]]]]
  /\ rehydrated' = rehydrated \ {g}

Includes(e, f) == \A g \in Gateways : f.seen[g] <= e.seen[g]

\* What is left of entry e when write f of the same key k is received.
Merge(k, e, f, erase) ==
  LET fWins == ~erase /\ (e.val = Blank(k) \/ GatewayRank[f.by] > GatewayRank[e.by])
  IN IF Includes(f, e) THEN f
     ELSE IF Includes(e, f) THEN e
     ELSE [val |-> IF fWins THEN f.val ELSE e.val,
           seen |-> [g \in Gateways |-> Max({e.seen[g], f.seen[g]})],
           by |-> IF fWins THEN f.by ELSE e.by]

\* Gateway h receives the next write of g.  Yjs holds a write back until all that its
\* writer had seen of the key has been received from the others, too.
Receive(g, h) ==
  /\ chan[g][h] # <<>>
  /\ LET m == Head(chan[g][h])
     IN /\ \A x \in Gateways \ {g} : m.entry.seen[x] <= doc[h][m.key].seen[x]
        /\ doc' = [doc EXCEPT ![h][m.key] = Merge(m.key, @, m.entry, m.erase)]
  /\ chan' = [chan EXCEPT ![g][h] = Tail(@)]
  /\ rehydrated' = rehydrated \ {h}
  /\ UNCHANGED <<tasked, advertised, histVars>>

\* A request on gateway g that counts for n.  Bounds: their number, and that none
\* follows a race.
Request(g, n) ==
  /\ requests + n <= MaxRequests /\ ~raced
  /\ requests' = requests + n
  /\ raced' = (raced \/ \E h \in Gateways : chan[h][g] # <<>>)

-----------------------------------------------------------------------------
(***************************************************************************)
(* Publishing.  The gates before the first write (schema, provenance,      *)
(* approval) only let the offer pass or refuse it; so does the check that  *)
(* the owner is registered, enabled and internal, which is not part of the *)
(* model: an owner that fails it writes nothing.                           *)
(***************************************************************************)

\* G1: validateSkillPairManifest.
WellFormed(q) == q.owner \notin q.standbys

\* Fault: a high-risk publish needs no approver.
ApprovedByAnybody(g, q) == TRUE

\* G1: resolveCapabilityPublishApprovalOrThrow.
Approved(g, q) == q.risk = "high" => q.approver \in {q.publisher, Admin[g]}

\* G2: verifyManifestSignatureOrThrow.
SignatureAccepted(q) ==
  IF q.signature = "unsigned" THEN ~q.signedRequired /\ AllowUnsigned
                              ELSE q.signature \in TrustedKeys

Passes(g, q) == WellFormed(q) /\ Approved(g, q) /\ SignatureAccepted(q)

CatalogOf(q) ==
  [version |-> q.version, owner |-> q.owner, status |-> q.status,
   approved |-> q.risk = "high" /\ q.approver # NoAgent]
ManifestOf(q) == [owner |-> q.owner, standbys |-> q.standbys, risk |-> q.risk]

\* G4 and G5: the version is staged and wired for the owner and the targets T of
\* the delegation skill.  What already is as it should be is not written again.
StageWrites(g, q, T) ==
  LET v == q.version
      prior == Stage(g, v)
      keep == prior.status # "none" /\ prior.owner = q.owner /\ prior.targets = T
      stage == IF keep THEN prior ELSE [status |-> "staged", owner |-> q.owner, targets |-> T]
      wiring == [state |-> "wired", owner |-> q.owner, targets |-> T]
  IN (IF keep THEN <<>> ELSE <<Put(StageKey(v), stage)>>)
     \o (IF Wiring(g, v) = wiring /\ stage.status = "wired" THEN <<>>
         ELSE <<Put(WiringKey(v), wiring), Put(StageKey(v), [stage EXCEPT !.status = "wired"])>>)

\* Fault: the version being published is archived, not its predecessor.
RevisionArchivingItself(g, q) ==
  LET r == Revision(g)
  IN [versions |-> r.versions \union {q.version},
      active |-> IF q.status = "active" THEN q.version ELSE r.active,
      archived |-> r.archived \union {q.version},
      owner |-> q.owner, failedFrom |-> NoAgent, last |-> "published"]

\* Fault: the missing predecessor of the first version is archived like any other.
RevisionArchivingNothing(g, q) ==
  LET r == Revision(g)
      previous == IF r.active # NoVersion THEN r.active ELSE Catalog(g).version
  IN [versions |-> r.versions \union {q.version},
      active |-> IF q.status = "active" THEN q.version ELSE r.active,
      archived |-> r.archived \union ({previous} \ {q.version}),
      owner |-> q.owner, failedFrom |-> NoAgent, last |-> "published"]

\* The revision record G8 writes: the version active before is archived.
RevisionWith(g, q) ==
  LET r == Revision(g)
      previous == IF r.active # NoVersion THEN r.active ELSE Catalog(g).version
  IN [versions |-> r.versions \union {q.version},
      active |-> IF q.status = "active" THEN q.version ELSE r.active,
      archived |-> r.archived \union ({previous} \ {q.version, NoVersion}),
      owner |-> q.owner, failedFrom |-> NoAgent, last |-> "published"]

\* G8: the routing changes over to the new version.
ActivationWrites(g, q) ==
  <<Put(CatalogKey, CatalogOf(q)),
    Put(IndexKey, IF q.status = "active" THEN {q.owner} ELSE {}),
    Put(ManifestKey(q.version), ManifestOf(q)),
    Put(RevisionKey, RevisionWith(g, q))>>

\* Fault: the routing changes over before the version is wired.
ActivateThenWire(g, q, T) == ActivationWrites(g, q) \o StageWrites(g, q, T)

PublishWrites(g, q, T) == StageWrites(g, q, T) \o ActivationWrites(g, q)

\* Fault: only the standbys are asked.
AskedStandbys(q, T) == {q.version} \X (T \intersect q.standbys)

\* createSkillDistributionTask: each target is given a task to install the skill.
Asked(q, T) == {q.version} \X T

\* T: the agents isDistributionEligibleAgent finds.
Publish(g, q, T) ==
  /\ Passes(g, q)
  /\ Request(g, 1)
  /\ Writes(g, PublishWrites(g, q, T))
  /\ tasked' = tasked \union Asked(q, T)
  /\ reused' = (reused \/ q.version \in Revision(g).versions \/ q.status # "active")
  /\ UNCHANGED <<advertised, faults>>

PutBack(g, k) == IF doc[g][k].val = Blank(k) THEN Erase(k) ELSE Put(k, doc[g][k].val)

\* Fault: the rollback does not restore the index.
RestoreWithoutIndex(g, q) ==
  <<PutBack(g, CatalogKey), PutBack(g, RevisionKey), PutBack(g, ManifestKey(q.version))>>

\* restorePreActivationState.  Its snapshot was taken after the wiring: stage and
\* wiring of the new version are put back as G4 and G5 left them, which changes
\* nothing.
RestoreWrites(g, q) ==
  <<PutBack(g, CatalogKey), PutBack(g, IndexKey), PutBack(g, RevisionKey),
    PutBack(g, ManifestKey(q.version))>>

\* G8 throws after n of its writes and is rolled back (counts for two requests).
PublishFails(g, q, T, n) ==
  /\ Passes(g, q)
  /\ faults < MaxFaults
  /\ Request(g, 2)
  /\ faults' = faults + 1
  /\ Writes(g, StageWrites(g, q, T) \o SubSeq(ActivationWrites(g, q), 1, n)
                 \o RestoreWrites(g, q))
  /\ UNCHANGED <<tasked, advertised, reused>>

-----------------------------------------------------------------------------
(***************************************************************************)
(* Unpublishing.                                                           *)
(***************************************************************************)

\* Fault: only the version of the catalog is unwired.
UnwindCurrentOnly(g, v) ==
  IF v = Catalog(g).version /\ Wiring(g, v).state = "wired"
  THEN <<Put(WiringKey(v), [Wiring(g, v) EXCEPT !.state = "unwired"]),
         Put(StageKey(v), [Stage(g, v) EXCEPT !.status = "unwired"])>>
  ELSE <<>>

\* U2, for one version: what is wired or staged is marked unwired.
Unwind(g, v) ==
  (IF Wiring(g, v).state # "wired" THEN <<>>
   ELSE <<Put(WiringKey(v), [Wiring(g, v) EXCEPT !.state = "unwired"])>>)
  \o (IF Stage(g, v).status \in {"none", "unwired"} THEN <<>>
      ELSE <<Put(StageKey(v), [Stage(g, v) EXCEPT !.status = "unwired"])>>)

\* U3: the version is archived and, if it was the active one, active no more.
RevisionWithout(g) ==
  LET r == Revision(g)
      v == Catalog(g).version
  IN [versions |-> IF r.versions # {} THEN r.versions ELSE {v},
      active |-> IF r.active = v THEN NoVersion ELSE r.active,
      archived |-> r.archived \union {v},
      owner |-> NoAgent, failedFrom |-> NoAgent, last |-> "unpublished"]

\* U1 to U3.  (What U2 leaves as evidence goes to unwindEvidence, which the last line of
\* the source declares at the level of the module, tools.ts:7470: U2 does not throw.)
Unpublish(g) ==
  /\ Catalog(g).version # NoVersion
  /\ Request(g, 1)
  /\ Writes(g, <<Put(CatalogKey, [Catalog(g) EXCEPT !.status = "disabled"]), Put(IndexKey, {})>>
                 \o FlattenSeq([i \in DOMAIN VersionOrder |-> Unwind(g, VersionOrder[i])])
                 \o <<Put(RevisionKey, RevisionWithout(g))>>)
  /\ UNCHANGED <<tasked, advertised, reused, faults>>

-----------------------------------------------------------------------------
(***************************************************************************)
(* Routing.  Delegating a task that requires the capability picks its      *)
(* owner, or somebody else while the owner's gateway has not been heard    *)
(* of, and records the choice.  Pulses age and arrive late, so any set of  *)
(* gateways may be fresh in the eyes of the one that routes.               *)
(***************************************************************************)

\* isAgentLive: an agent is as live as the pulse of its gateway.  (The agents here
\* are internal ones; an external one always counts as live.)
Live(fresh) == {a \in Agents : Host[a] \in fresh}

Primary(g) ==
  IF Catalog(g).owner # NoAgent THEN {Catalog(g).owner} ELSE Index(g)

\* Fault: anybody alive may stand in for the owner.
AnyLiveOwner(g, live) == IF Primary(g) \intersect live # {} THEN Primary(g) ELSE live

\* The candidates are the owner, the standbys of the manifest, then whoever the
\* index names; when none is live it is the owner all the same.
SelectedOwner(g, live) ==
  LET v == Catalog(g).version
      standbys == IF v = NoVersion THEN {} ELSE Manifest(g, v).standbys
      firstOf(S, T) == IF S \intersect live # {} THEN S \intersect live ELSE T
  IN firstOf(Primary(g), firstOf(standbys, firstOf(Index(g), Primary(g))))

\* The failover of resolveCapabilityOwnerWithFailover; when the revision already
\* records it, nothing is written.
Failover(g, live) ==
  /\ Index(g) # {}
  /\ \E new \in SelectedOwner(g, live), old \in Primary(g) :
       LET r == Revision(g)
       IN /\ new # old
          /\ ~(r.owner = new /\ r.failedFrom = old)
          /\ Writes(g, <<Put(IndexKey, Index(g) \union {new})>>
                         \o IF r.last = "none" THEN <<>>
                            ELSE <<Put(RevisionKey, [r EXCEPT !.owner = new, !.failedFrom = old])>>)
  /\ Request(g, 1)
  /\ UNCHANGED <<tasked, advertised, reused, faults>>

\* The capabilities rehydration reads are those of the map "capabilities.catalog".
\* The tools keep theirs in "capabilitiesCatalog", so this one is always empty.
RehydratedCatalog(g) == Blank(CatalogKey)

\* syncPublishedExecutorSkillsIntoContext, at the start and after every sync.  (It also
\* takes a capability published on this gateway for its own, whoever owns it: no
\* matter while the map is empty.)  Bound: not while anything is on its way to g.
Rehydrate(g) ==
  /\ g \in Restarting \ rehydrated
  /\ \A h \in Gateways : chan[h][g] = <<>>
  /\ rehydrated' = rehydrated \union {g}
  /\ LET c == RehydratedCatalog(g)
         mine == c.status = "active" /\ c.owner \in {a \in Agents : Host[a] = g}
     IN advertised' = IF mine THEN advertised \union {g} ELSE advertised
  /\ UNCHANGED <<doc, chan, tasked, histVars>>

-----------------------------------------------------------------------------
Next ==
  \/ \E g \in Gateways, q \in Offers : \E T \in SUBSET (Agents \ {q.owner}) :
       \/ Publish(g, q, T)
       \/ \E n \in FailurePoints : PublishFails(g, q, T, n)
  \/ \E g \in Gateways : Unpublish(g) \/ Rehydrate(g)
  \/ \E g \in Gateways, fresh \in SUBSET Gateways : Failover(g, Live(fresh))
  \/ \E g, h \in Gateways : Receive(g, h)

Spec == Init /\ [][Next]_vars

-----------------------------------------------------------------------------
(***************************************************************************)
(* Properties.  As long as every pipeline runs on a gateway that has       *)
(* received all earlier writes (~raced), the maps agree with each other    *)
(* wherever a pipeline is not being received.                              *)
(***************************************************************************)

Settled(g) == ~raced /\ \A h \in Gateways : chan[h][g] = <<>>

\* Make before break: on no gateway, even halfway through receiving a pipeline or
\* a rollback, is an active capability routed to a version that is not wired there.
\* (Of two gateways; a third may receive a publish that repeats a failed one before
\* the wiring that one has left.)
RoutedIsWired ==
  ~raced => \A g \in Gateways :
    LET c == Catalog(g)
    IN Index(g) # {} /\ c.status = "active" => Wiring(g, c.version).state = "wired"

\* The maps tell one story: the capability is routed exactly while it is active,
\* to its owner and people who may stand in for him, in the version the revision
\* calls active and whose manifest is there; also after a publish was rolled back.
RoutedIsWhole ==
  \A g \in Gateways : Settled(g) =>
    LET c == Catalog(g)
        r == Revision(g)
    IN /\ c.status = "active" <=> Index(g) # {}
       /\ c.status = "active" =>
            /\ r.active = c.version /\ c.version \in r.versions
            /\ Manifest(g, c.version).owner = c.owner
            /\ c.owner \in Index(g)
            /\ Index(g) \subseteq {c.owner} \union Manifest(g, c.version).standbys

\* While the last thing that happened to a capability is that it was unpublished,
\* no version of it is staged, wired or owned, whatever had been published before.
UnpublishedIsOut ==
  \A g \in Gateways : Settled(g) /\ faults = 0 /\ Revision(g).last = "unpublished" =>
    /\ Index(g) = {} /\ Revision(g).owner = NoAgent
    /\ \A v \in Versions :
         Wiring(g, v).state # "wired" /\ Stage(g, v).status \in {"none", "unwired"}

\* The active version is not among the archived ones, as long as every version is
\* published once and as active (publishing it again does not take it out).
ActiveNotArchived ==
  \A g \in Gateways : Settled(g) /\ ~reused => Revision(g).active \notin Revision(g).archived

\* A high-risk version is routed only with an approval, although the risk is in
\* one map and the approval in another.
HighRiskApproved ==
  \A g \in Gateways :
    LET c == Catalog(g)
    IN Settled(g) /\ c.status = "active" /\ Manifest(g, c.version).risk = "high" => c.approved

\* Whoever a version is wired for has been asked to install its skill.
WiredIsTasked ==
  faults = 0 => \A g \in Gateways, v \in Versions :
    Wiring(g, v).state = "wired" => {v} \X Wiring(g, v).targets \subseteq tasked

(***************************************************************************)
(* What the documentation promises and a run refutes.                      *)
(***************************************************************************)

\* The comment at syncPublishedExecutorSkillsIntoContext: the skills of published
\* capabilities owned here are in the context again after a restart.
SkillsRehydrated ==
  \A g \in rehydrated :
    Catalog(g).status = "active" /\ Host[Catalog(g).owner] = g => g \in advertised
=============================================================================
