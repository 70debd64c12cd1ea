# Formal models of openclaw-plugin-ansible

The plugin joins OpenClaw gateways into a mesh. Every gateway holds a replica of one Yjs
document (messages, tasks, capabilities, membership, presence); tools, services and peers read
and write that document, and a dispatcher on each gateway turns what arrives in it into runs of
local agents. This directory holds TLA+ models of that behaviour, the configurations that
model-check them with TLC, and theorems checked by TLAPS.

Paths below are relative to the repository (`src/dispatcher.ts`, `docs/...`).

## 1. The system

### Parts, state, interaction

| Part | Code | State | Operations |
|---|---|---|---|
| Dispatcher | `src/dispatcher.ts` | `inFlight`, `scheduled`, `reconcileQueued` in memory; `delivery` and `readBy_agents` in the document | reconcile pass, dispatch, marks, retry timer, dead letters, heartbeat |
| Task tools | `src/tools.ts` | the map `tasks` | delegate, claim, update, approve, complete, skill and distribution tasks, clean-up, drain |
| Message tools | `src/tools.ts` | the map `messages` | send, read, mark read, delete, receipts, lifecycle events |
| Replication | `src/service.ts`, Yjs, y-websocket | one document per gateway | connect, merge |
| Persistence | `src/service.ts` | `ansible-state.yjs` | debounced save, load at start (edge) |
| Retention | `src/retention.ts` | `tasks`, `coordination` | coordinator deletes closed tasks |
| SLA sweep | `src/sla.ts` | stamps in `tasks`, `messages` | breach detection, escalation |
| Admission, auth | `src/admission.ts`, `src/auth.ts`, `src/service.ts` | `pendingInvites`, `authTickets`, `nodes`, replay keys, rate counters | invite, mint, consume, revoke, prune |
| Capability lifecycle | `src/tools.ts` | catalog, index, manifests, revisions, install stages, wirings | publish and unpublish pipelines, rollback, failover |
| Message cleanup | `src/service.ts` | `messages` | age and count limits |
| Heartbeat | `src/service.ts` | `pulse` | online/offline, last seen |
| Lock sweep | `src/lock-sweep.ts` | files | remove stale session locks |
| Agent registry | `src/tools.ts`, `src/service.ts` | `agents`, `agentInvites`, admins and policies in `coordination` | register, tokens, invites, rebind, disable, enable, registration at start |
| Coordination, context tools | `src/tools.ts` | single keys | setters |
| Hook, CLI | `src/hooks.ts`, `src/cli.ts` | none of their own | formatting, calls of the above |

The parts meet in the document. A tool, a sweep or a merge changes a map; the observers the
dispatcher has put on `messages` and `tasks` queue a reconcile pass; the pass writes delivery marks
into the same records, which fires the same observers. Everything in one gateway is one JavaScript
thread, so code between two `await`s is atomic, and the only place the core awaits is the run of an
agent (`dispatchAnsibleMessage`, `dispatchAnsibleTask`). Between gateways nothing is atomic: each
writes its replica, and a record written by two of them concurrently is resolved as a whole.

### What is hard

* Passes overlap. A mark queues the next pass while the dispatch behind it is still awaited; the
  second pass works from a newer snapshot than the first.
* Snapshots age: a pass dispatches items deleted, delivered, claimed or closed since.
* Retry timers, dead letters and the attempts count are kept in three places (memory, record,
  local variable of a pass) and updated at different moments.
* A crash loses the memory and whatever was not saved.
* `tasks.set` writes the whole record: concurrent writers of *different* fields overwrite each other.
* Requests are retried, on the same gateway or another one, with a key or without.
* Deletion races a late write; timers race expiry; the coordinator role moves.
* A capability is spread over six maps, and other gateways receive a pipeline write by write.
* Rules about several records (one admin left, one backbone left, an invite used once) are checked on
  one replica.

### What makes each part correct

* Dispatcher: one run per item and agent at a time; no delivery recorded that did not happen;
  no delivery forgotten; duplicates and attempts bounded; nothing waits for ever.
* Task tools: nothing executes without an assignee's claim, an ACK and the approval; a settled claim
  stays; requests are idempotent per key; retries stay within their limit.
* Replication, retention: merging and deleting break none of the above.
* Capability lifecycle: what is routed is wired, also halfway through a pipeline or a rollback; the maps
  agree; what is unpublished is out; high risk is approved.
* Admission: an invite admits one node, as what it says; a ticket dies with its invite; nobody is in the
  list but by an invite or as a gateway that entered itself; a backbone node remains.
* Agent registry: an enabled admin remains; spent invites stay closed; a disabled external agent stays out.
* SLA: every missed deadline is escalated, while the coordinator is one who sweeps; once; within about the
  message budget.

## 2. Modules

| Module | What it is |
|---|---|
| `Delivery` | what a dispatcher promises, without passes, timers, records or files (abstract) |
| `Dispatcher` | the dispatcher of one gateway, its document, the tools and peers as environment, saves and crashes; implements `Delivery` |
| `TaskLifecycle` | the task tools on any number of gateways, with replication and retention |
| `CapabilityLifecycle` | publish, unpublish, failover and rehydration of one capability on several gateways |
| `Replica` | one key of a replicated map: set, delete, merge |
| `AgentRegistry` | the registry of agents, admins and agent invites, on `Replica` |
| `Sweeps` | the SLA sweep, by the service of the backbone gateways and by hand, and the role of the coordinator, on `Replica` |
| `Admission` | starts, nodes, invites, tickets and connections, on `Replica` |
| `MC...` | small instances for TLC |
| `DispatcherProofs`, `TaskLifecycleProofs`, `AdmissionProofs`, `RegistryProofs`, `SweepsProofs`, `CapabilityProofs` | the theorems, one module per component |
| `ReplicaProofs` | lemmas on the operators of `Replica`, and on what is left of concurrency when no write races |
| `LoopProofs` | lemmas on loops, maxima and first-order induction over numbers |

`Touch` in `TaskLifecycle` is the write that `Sweeps` details, and `Failover` in `CapabilityLifecycle` is
what delegating a task that requires a capability does besides `Delegate`; the modules are checked
separately because each brings its own part of the document.

### `Dispatcher`

| TLA+ | Code |
|---|---|
| `delivery[k]`, `readBy`, `status`, `claimedBy`, `deadTasks`, `skilled`, `presence` | the fields of messages, tasks and context the dispatcher reads |
| `disk` | the file written by `persistState` |
| `queued`, `scheduled`, `inFlight` | `reconcileQueued`, `scheduled`, `inFlight` |
| `todo[p]`, `cur[p]`, `tries[p]` | the snapshot, loop position and variable `attempts` of one suspended `reconcileNow` |
| `StartPass(p)` | `reconcileNow` from the snapshot (with its dead letters) to the first `await` |
| `Finish(p)`, `Fail(p)` | the awaited dispatch returns or throws: mark, `scheduleRetry`, `inFlight.delete`, and on to the next item up to its `await` |
| `RetryTimer(k)`, `Heartbeat` | the `setTimeout` of `scheduleRetry`, the `setInterval`; observers set `queued` in the actions that change a map |
| `Arrive`, `DeleteItem`, `CleanUp`, `MarkRead`, `ClaimTask`, `ReportTask`, `AdvertiseSkills` | the tools, here or on a peer; `CleanUp` is `startMessageCleanup`, at any age |
| `Persist`, `Crash` | `persistState`; the process dies and `startAnsibleService` loads the file |

A pass is a process, identified by `p \in Passes`; the constant bounds how many can be suspended at
once. `accepted`, `overlapped` and `crashes` are history. Prompts, sessions and the text of
replies are left out; a reply is a message that arrives. `claimed` stands for `claimed` and
`in_progress`, which the dispatcher treats alike. In the code, the assignees of a task are visited in
the order in which the task names them; here the order of agents is a constant, `AgentRank`, the same for
every item. Time is left out: a timer may fire at any moment after it is set.

`Promise == INSTANCE Delivery` maps `inFlight` to `running`, `accepted` to `runs`, the keys `IsDelivered`
holds of to `marked`, and the same keys of the file to `saved`. Starting a pass, dead letters, timers and
the tools are steps of `Delivery` or stutters.

### `TaskLifecycle`

| TLA+ | Code |
|---|---|
| `doc[r][t].rec` | the task record in the replica of gateway `r` (`status`, assignees, `claimedBy_agent`, ACK, approval, idempotency keys, failure code, retryable failures) |
| `doc[r][t].seen`, `.by` | the writes of each gateway that led to it, and the last writer: what Yjs derives from client clocks |
| `Delegate`, `CreateSkillTask`, `Claim`, `Progress`, `ReportFailure`, `Complete`, `Approve` | the `execute` functions of the tools of those names |
| `Replay` | their early return for a key the record holds |
| `DeadLetter`, `Drain`, `CleanUpDistribution`, `Touch`, `Prune` | the other writers: dispatcher, the tools that fail distribution tasks, delivery marks and SLA stamps, retention |
| `Sync`, `Merge` | replication: of two concurrent writes of a key the higher client id wins; a deletion is no write |

A tool call awaits nothing between reading the record and writing it, so it is one step. Validation
of ETA, version and text parameters only rejects requests and is left out; notifications are messages and
belong to the dispatcher's environment. The clean-up tools fail several tasks in a call; here one task
per step, which allows more interleavings than the code. `Merge` is exact for two gateways, the
number the runs use; Yjs orders three or more concurrent writes of one key by their positions, which
client ids decide only pairwise. The proofs use no more about `Merge` than that it returns one of its
two arguments' records.

### `CapabilityLifecycle`

| TLA+ | Code |
|---|---|
| `doc[g][k]` | the catalog, index and revision record of the capability, the manifest, install stage and wiring of each version, in the replica of `g` |
| `chan[g][h]` | the updates of `g` that `h` has not received, one per `map.set`, in order |
| `Publish` | `ansible_capability_publish`: gates G0 to G3, then `executeCapabilityPublishPipeline` with the writes of G4, G5 and G8 in order, then the distribution tasks |
| `PublishFails(g, q, T, n)` | the same, with G8 throwing after `n` of its writes: `restorePreActivationState` |
| `Unpublish` | `executeCapabilityUnpublishPipeline` (U1 to U3) |
| `Failover(g, live)`, `Live(fresh)` | `resolveCapabilityOwnerWithFailover`, `isAgentLive` |
| `Rehydrate` | `syncPublishedExecutorSkillsIntoContext` at start and after a sync |

On its own gateway a pipeline is one step, since it awaits nothing; elsewhere it arrives one write at a time.
Updates of a sender that has seen more of a key than the receiver wait until the receiver has seen that, as
in Yjs: `Receive` holds back a write whose writer had seen writes of other gateways to the same key which `h`
has not received. The `by` of a key nobody has written is never looked at. The gates G6 and G7 are stubs; G9 reads back what was just written and cannot fail; U4 emits a message.
Signatures are the name of the key that made them. U2 collects evidence in `unwindEvidence`, a variable of the
module that the last line of the file declares (`tools.ts:7470`), so U3 is reached.

### `AgentRegistry`, `Sweeps`, `Admission`

The three keep their part of the document as `doc[g][k]`, with the operators of `Replica`: `Set`, `Delete`
and `Merge` are what Yjs does to one key of a `Y.Map`. Receiving takes over everything another gateway
has (some keys later than others would be a further interleaving of the network; it is not modelled
here, unlike in `CapabilityLifecycle`). `raced` remembers that a call was made on a gateway that had not
received everything: properties guarded by `~raced` speak of calls that follow one another. In `Admission`, `raced` is
the set of those maps, `nodes` or `pendingInvites`, on which a call relied without having received all of them.

* `AgentRegistry`: an action per tool, named like it; `AdminCall` is `requireAdmin`, `resolveAdminActorOrError`
  and `requireAdminActor`; `Restart` is `registerInternalAgents`. A token is a flag of the record; whoever has
  one may call as that agent. `ConfigAdmin` is what `configuredAdminAgentId` returns on each gateway: any agent,
  registered or not, the same on several gateways or not (by default `admin` on all, `tools.ts:205-209`).
* `Sweeps`: `RunSlaSweep` is the function of that name, called by the tool and, on `Backbones` (`sla.ts:226`), by
  the service, when the gateway is the coordinator, its sweep is on (`SweepEnabled`, `sla.ts:239`) and the period is
  over; its argument `last` is the key the service stamps with the time afterwards. `SetCoordinator` takes any of
  `CoordinatorIds`, as `ansible_set_coordination` takes any string (`tools.ts:3767`).
  A sweep goes through `Check`, the tasks in order with three deadlines each: `MissedChecks` are those missed,
  `Left` the budget after each, `Told` those somebody is told of, `Stamps` what a task is stamped with. Time counts
  in units; deadlines are set by `Claim` and `Progress`.
* `Admission`: `SyncNodeCapabilities` is a start of the service, which enters the gateway with its configured tier if
  it is not in the list (`service.ts:968-985`); `BootstrapFirstNode`, `GenerateInviteToken`, `JoinWithToken` and
  `RevokeNode` are the functions of `auth.ts`; `MintWsTicketFromInvite`, `AcceptTicket`, `AcceptInvite` and
  `AcceptKnown` those of `admission.ts` and of the connection gate in `service.ts`, taken to be switched on on every
  gateway. `linked` is who is connected: the gate opens a connection, to a node in the list or one it admits; a join
  opens none; a start closes those of the gateway. Only connected gateways synchronise.

## 3. Runs

All runs use small sets of model values; sizes are distinct states.

| Run | Shows | Size |
|---|---|---|
| `messages` | two messages (one broadcast), two agents, two passes: `InFlightOwned`, `OnceUnlessOverlapped`, `AttemptsOvershoot`, `MessageDuplicatesBounded`, `MessageStaysDelivered` | 1.07 million |
| `tasks` | a task with two assignees and a required skill, under claims, reports, deletion, skill changes: `OnceUnlessOverlapped`, `AttemptsOvershoot`, and under fair timers `NothingForgotten` | 84,000 |
| `crash` | one message, two crashes around any save: `NoFalseDelivery`, the refinement `KeepsPromise`, and under fair timers `NothingForgotten` | 22,000 |
| `gateway` | one gateway, two tasks, two agents, default keys and one client key: licences, keys, retry budget, settled claims | 218,000 |
| `gateways` | two gateways, one high-risk task: licences and settled claims across merges and deletion | 33,000 |
| `capability` | two gateways, two versions, five offers (two of which a gate refuses), failures in G8 after the first and third write: `RoutedIsWired`, `RoutedIsWhole`, `UnpublishedIsOut`, `ActiveNotArchived`, `HighRiskApproved`, `WiredIsTasked` | 486,000 |
| `registry` | two gateways, one configured with an admin not registered yet, an agent left by a renamed node: `SomeAdminEnabled`, `SpentInvitesClosed`, `DisabledExternalStaysOut`, `EligibilityAgrees` | 270,000 |
| `sweeps` | one task with deadlines, two gateways and a third id between which the role moves, sweeps by the service and by hand: `ToldOnce`, `BudgetNearlyKept`, and under fair timers `MissedIsStamped` | 155,000 |
| `admission` | two gateways and a node, starts of the gateways, bound and unbound invites for backbone and edge, tickets: `OncePerGateway`, `SingleUse`, `NodesAsInvited`, `SomeBackboneLeft` | 677,000 |

Three runs expect a violation; each refutes one sentence of the repository's comments or documentation,
quoted in `PROJECT.json`, and passes once the code is repaired and the model follows it:

| Run | Refuted | How |
|---|---|---|
| `replay` | keys swallow only duplicates (`tools.ts:5815`) | the default key is the same for every update |
| `rehydrate` | skills are rehydrated after a restart (`service.ts:869`) | the map that is read, `capabilities.catalog`, is not the one the tools write, `capabilitiesCatalog` |
| `accept` | missed accept windows are escalated (`tools.ts:6271`) | the accept deadline is computed when the task is claimed |

### Known divergences

Other promises the code does not keep in full; the models show them, the properties are stated so as to
say what does hold.

* *Exactly once* (`docs/runtime-protocol-v1.md:126`, `dispatcher.ts:6-7`): a second pass runs from its snapshot
  what the first has delivered since. `MessageDuplicatesBounded` is the bound.
* A snapshot that sees the raised count gives an item up while its last attempt runs (`dispatcher.ts:238`).
* `maxConcurrent` (`docs/ansible-completion-checklist-v1.md:135`): resuming a closed task is not counted
  (`tools.ts:5873`).
* *Durable tasks* (`README.md:14`): a concurrent write of the whole record replaces a claim
  (`dispatcher.ts:454`); `AgreedClaimIsFinal` starts where the gateways know of it.
* A pruned task comes back with a write the coordinator had not seen (`retention.ts:76`).
* A disabled internal agent is enabled again by a restart of its gateway (`service.ts:859-864`).
* The default admin, `admin`, is registered by nobody (`tools.ts:205-209`, `service.ts:847-852`): until somebody
  registers one of the configured admins there is no admin. `SomeAdminEnabled` starts there.
* *Invite only*: a gateway that is not in the list of nodes, because it never was or because it was revoked, enters
  itself at its next start, with the tier of its own configuration (`service.ts:973-985`), and is then a known node to
  whoever receives that; so the list a founder finds is hardly ever empty (`auth.ts:141`). Where an invite lets the
  same gateway in concurrently, either entry may survive the merge. `NodesAsInvited` names the gateways that entered
  themselves; `SomeBackboneLeft` leaves out networks that came down to edges that way (`demoted`).
* *Missed deadlines are escalated*: the coordinator may be set to an edge gateway, to one whose sweep is off, or to a
  name nobody has (`tools.ts:3767`); then no service sweeps (`sla.ts:226`, `sla.ts:237-239`). `MissedIsStamped` excludes
  that.
* *Single-use* invites (`docs/distributed-pipes-v2.md:68`): gateways that use one before they synchronise admit
  a node each; so does an agent invite accepted on two of them.
* A publish that fails in G8 restores catalog, index, revision and the manifest, stage and wiring *as G4 and G5 have
  left them*, since the snapshot is taken after those gates (`tools.ts:1741-1777`): the version stays staged and
  wired. `docs/skill-pair-publish-executor-v1.md:97-103` unwinds wiring and staged installs, and
  `docs/mvp-proposals/mvp-2-skill-lifecycle-automation.md:72` returns to the exact prior wired state.
  `UnpublishedIsOut` and `WiredIsTasked` are therefore about histories without such a failure.
* *Make before break, on three gateways*: a version that is wired is not wired again (`tools.ts:1671`). When a publish
  has failed before its first routing write, its wiring is all that is left of it; a repeat on another gateway writes
  the catalog only, and a third gateway may receive that before the wiring, which comes from the first one. There
  `RoutedIsWired` does not hold. TLC finds it on three gateways with `FailurePoints = {0}`. It finds nothing when
  publishes fail later than that, or not at all (2.8 million states with three requests; 267,000 with two, failures
  included). Between two gateways it cannot happen: `RoutingIsWired`.
* Publishing a version again leaves it both active and archived (`tools.ts:1780-1795`).
* Breaches left out for want of budget are stamped as told (`sla.ts:161-190`).

### Bounds

* `MaxAttempts = 2` stands for 15 (`dispatcher.ts:19`): one attempt that fails and one that is the last.
* Two passes: one suspended, one with a newer snapshot. A third adds no new kind of overlap, and the
  theorems hold for any number. Two crashes: one with a file that is behind, one with the state restored.
* `MaxWrites` (writes of one gateway to one task): five on one gateway, enough for delegate, claim, two
  reports and one more in any order; three on each of two gateways. `MaxConcurrent`, `MaxQueueDepth`,
  `RetryBudget` are 1: the limit is reached and stepped over.
* `capability`: three requests (publish, update, and one that withdraws, repeats, fails over or unpublishes), one
  of which may fail.
* `registry`: two invites; the budget of six calls counts invite tools once and other calls twice, which
  is what keeps the run within minutes.
* `sweeps`: three units of time, deadlines at once, a period of one; two calls besides the sweeps of the
  service; three recipients against a budget of two messages, so that the budget is crossed within one breach. Both
  gateways sweep; the third id the role may go to does not.
* `admission`: five calls (start or bootstrap, invite, mint, admit, and one more), one invite, one ticket, one expiry.
  After a race about invites only starts, joins and admissions follow, since that is where `SingleUse` ends.
* Runs over bounded calls do not check for deadlock: with the bound reached the system may stop.

### Fairness

`FairSpec` of `Dispatcher` assumes weak fairness of starting a pass that is queued (a microtask), of every
retry timer and of the heartbeat (timers of the JavaScript runtime), and that the agent loop settles each
dispatch. The last is an assumption about the host: `dispatcher.ts` puts no timeout on a dispatch, and a host
that never answers stalls the pass. No fairness is assumed of saves, tools, peers or crashes.

`FairSpec` of `Sweeps` assumes that time goes on, that gateways receive what others have written
(connections come back; without it a gateway might never learn that it is the coordinator) and that some
service for which a sweep is due gets to it (`setInterval`, `sla.ts:278-281`): a service that runs, on a backbone
gateway, and is switched on. It does not assume that any one gateway sweeps, nor that the role comes to rest, nor that
it is with somebody who sweeps: that is a condition of the property.

The other modules have no liveness properties: whether an agent works on a task, or somebody joins,
is not for the code to decide.

## 4. Proofs

Every invariant and action property of the passing runs is the subject of a theorem, and so is the
refinement. The theorems hold for any number of items, agents, gateways, passes, nodes, invites, versions,
requests and crashes. Assumptions are those named in the modules: sets are finite, the special values (`NoAgent`,
`Gone`, `Never`, ...) are not among the values they stand beside (`GoneAssumption` says so of the records of
`Admission`, `AgentRegistry` and `Sweeps`), messages go before tasks in a total order, a sweep visits every task
once, limits are natural numbers, client ids differ, gateways are nodes, no two gateways have one canonical id. Of
configured admins, coordinators, and who runs a sweep nothing is assumed.

`LoopProofs`, `ReplicaProofs`

* The library's induction theorems take an operator as a parameter and cannot be used. `NumbersByInduction` states
  induction for a *set* of numbers, and is proved from the order of finite sets being well-founded; `LoopInvariant`
  and `LoopExists` apply it to functions defined along `0..n`, which is how the models write loops.
* `Follows(f, e)`: state `f` of a key is `e` or has seen more. As long as every write is made where everything before
  it has arrived, the states a key has on the gateways are a chain (`IsChain`), and merging takes the later one
  (`WriteKeepsChain`, `ReceiveKeepsChain`). So there is a latest state, held by whoever has received everything
  (`UpToDateIsLatest`). What calls that follow one another keep true is proved of that state.

`DispatcherProofs`

* `TypeCorrect`: `Spec => []TypeOK`, one lemma per action.
* `InFlightOwnership`: `InFlightOwned` is inductive given types. A pass takes a key only if it is not
  in flight, and gives up exactly the key it took.
* `DeliveryIsTrue`: `NoFalseDelivery` is inductive because it speaks of the file as well: without the
  conjunct about `disk`, a crash could restore a mark nothing is known about.
* `DeliveredMessagesAreRead`, `MessageStability`: a record marked delivered has the agent in
  `readBy`, and `readBy` only grows short of a crash. That is the strengthening `MessageStaysDelivered`
  needs: the mark itself may be overwritten by a stale pass.
* `OnceEach`: `OnceUnlessOverlapped`. The invariant says of the only active pass that nothing in what it
  has left was delivered, and of a key being awaited that it was not delivered before.
* `AttemptsBounded` (`AttemptsOvershoot`) and `DuplicatesBounded` (`MessageDuplicatesBounded`) count. A pass that still
  has a key in its list holds a right to one more attempt at it. `BoundInv`: attempts recorded plus rights never exceed
  the cap by as much as there are passes, in the record, in the variable of the pass and in the file. Taking a snapshot
  makes a right only below the cap; a dispatch turns a right into an attempt. `DuplicatesInv` is the same for runs:
  runs of a message plus passes that may still run it are no more than the passes, for once a run is recorded no new
  pass acquires the right.
* `Implementation`: `Spec => KeepsPromise`, the refinement. The initial states map to initial states, and
  `StepAllowed` shows that every step maps to a step of `Delivery` or a stutter, given types,
  `InFlightOwned` (a dispatch that ends was running, and running once) and `DeliveredIsRead` (a mark that a
  stale pass overwrites is kept by `readBy`, which is why only marks of messages are never taken back).

`TaskLifecycleProofs`

* Every step is sorted into what it does to the records (`NextWrites`): it creates a task nobody has
  written, claims a pending one, keeps the claim of one, deletes some, or takes over what another
  gateway holds. Later proofs argue about those five kinds and not about fifteen actions.
* `TypeCorrect`, `Licensed` (`ExecutionIsLicensed`), `ClaimFinality` (`AgreedClaimIsFinal`): from
  `RecInv`, an invariant of a *single record*: whoever holds a claim holds it with ACK and
  approval, a record with a claim is not pending, and one being executed has a claim. Since a merge
  takes one of the two records as a whole, an invariant of single records survives every merge; that is
  why writing the whole record protects what it does, at the price of the other write (Known divergences).
* `KeysAreRemembered` (`OncePerKey`), `RetryBound` (`RetriesBounded`): for one gateway, from
  `Counted`: unless it has been deleted, the record holds the key of every request applied to it and
  counts exactly the retries granted.

`AdmissionProofs`

* An invite is written once, by the gateway that makes it, and after that only deleted. `IInv` says so of every
  entry (`WrittenOnce`): it is unseen and not there, or seen once. For such entries a merge takes one of
  the two, and a deletion that was seen stays (`MergeOneWrite`); for general entries it does not.
* With it, `UsedIsGone`: where an invite has let somebody in, it did so once, was seen and is gone. Using it again
  needs its value, which no merge brings back: `OnceOnEveryGateway` (`OncePerGateway`).
* A gateway that has received everything about invites has received the deletion (`UpToDateKnowsUses`), hence
  `SingleUseInTheNetwork` (`SingleUse`).
* `TypeCorrect` and `NodesWereInvited` (`NodesAsInvited`: whoever is in the list came by a good invite, or is a gateway
  that entered itself), whatever races: `TInv` adds that all gateways which hold an
  invite hold the same one (`InvitesAgree`) and that a ticket is for a node its invite is for (`TicketsFit`), also where
  the two came from different gateways. `StepsAre` sorts the steps by the writes they make.
* `BackboneStays` (`SomeBackboneLeft`): while calls about the nodes follow one another, the replicas of the list of nodes
  are a chain, revocation looks at its latest state, a start that finds no other backbone either is one or demotes the
  network, and what a gateway has received of the list contains a backbone node as well.

`RegistryProofs`

* `StepsAre`: every call, whichever tool makes it, writes what `LegalWrite` allows. `TypeCorrect` and `CleanUpAgrees`
  (`EligibilityAgrees`) hold of single records (`TInv`) and survive every merge.
* `SomeAdminLeft`, `DisabledStayOut`: `LatestInv` says of the latest state that it keeps every ban, and that it has an
  enabled admin or nobody has yet been nominated and none of the configured admins registered (`NobodyYet`): a
  nomination takes an admin, and who registers first is enabled. A gateway that has received everything holds that
  state (`SettledIsLatest`).
* `SpentStayClosed` (`SpentInvitesClosed`), whatever races: the writes of an entry tell. An open invite has been
  written once, by the gateway that made it (`InviteShape`); once spent, some gateway has seen more than that
  (`Passed`), and no merge takes that away (`InvitesInv`).

`SweepsProofs`

* `SweepsNearBudget` (`BudgetNearlyKept`): the loop of a sweep keeps `BudgetHolds`: messages sent plus budget left is the
  budget, until it is spent, and then the excess is part of what one breach needs.
* `StampsPrevent` (`ToldOnce`): in the latest state, who was told of a breach was told once and the task is stamped
  with it (`ToldIsStamped`). A sweep made there passes over stamped breaches, and no call takes a stamp away: claiming
  sets them anew, but a pending task has neither deadlines nor stamps (`GoodTasks`).

`CapabilityProofs`

* A pipeline is a sequence of writes, described by the value it leaves in each key; `Writes` is shown to leave on its
  gateway exactly those values and to send the writes in order (`WritesAre`). `TypeCorrect`: `TypeInv`, over replicas and
  channels.
* `WiredWereAsked` (`WiredIsTasked`), whatever races: an invariant of every wiring, in replicas and on the way.
* `RoutingIsWhole`, `HighRiskIsApproved`, `UnpublishedIsGone`, `ActiveIsNotArchived`: while nothing races there is a gateway
  with the latest state (`Latest`), and its maps tell the `Story`: routed is what is active, to its owner or a standby,
  approved if need be, with nothing left of what was unpublished. Each pipeline, also a failed one, keeps the story
  true (`PublishStory`, `FailedStory`, `UnpublishStory`, `FailoverStory`); who has received everything holds that state.
* `RoutingIsWired`: `AtMostTwoGateways => RoutedIsWired`. Of two gateways one is behind, and the messages it has yet to
  receive show it one state after the other (`View`). `TwoInv`: in each of these views what is active is wired. A
  pipeline adds views, and adds the wiring before the catalog names it (`WiresFirst`) or switches the catalog off
  before it unwires (`SwitchesOff`). The bound on the gateways is needed: see Known divergences.

Only model-checked: liveness (`NothingForgotten`, `MissedIsStamped`), which is out of the prover's reach, and the
violations. For more than two gateways `RoutedIsWired` is not proved.

## 5. Not modelled, and what is left

* **Replicated delivery**: two dispatchers with delivery marks merged as in `TaskLifecycle`, and the backbone
  gateway that restarts with an empty document (`service.ts:190`); reply loops between two dispatchers.
* **The exchange server** around `MintWsTicketFromInvite`: replay keys and nonces (a key is claimed before a mint that
  may fail, which refuses the retry), rate limit, node proof; the fallbacks of `isNodeAuthorized` (`auth.ts:217`),
  by which a revoked node with a pulse or an agent still counts; the admission gate switched off, as it is on
  edge gateways; a backbone gateway that starts with an empty document; replicas of nodes that are not gateways.
* **Concurrent administration**: mutual disabling or revocation on two gateways leaves nobody; the properties
  speak of calls that follow one another.
* **Timers**: the debounced save, which each update postpones; the ages behind retention and message clean-up.
* **Proofs** of `RoutedIsWired` for more than two gateways when no publish fails before its first routing write, which
  TLC has not refuted. It needs the order of all writes, and which of them each gateway has received.

Left out for good: the CLI and the context hook (formatting), setters of single keys of the
coordination and context maps, the lock sweep (one pass over files by age; its counterpart is outside the
repository), transport and TLS, type declarations.
