--------------------------- MODULE TaskLifecycle ---------------------------
(***************************************************************************)
(* The life of a delegated task (the task tools of src/tools.ts) in a      *)
(* document that every gateway holds a replica of.                         *)
(*                                                                         *)
(* A tool call reads the task from the replica of its gateway and writes   *)
(* the whole record back without awaiting anything: on one gateway it is   *)
(* one step.  Gateways exchange what they have written whenever they are   *)
(* connected; a record written on two of them meanwhile is resolved as a   *)
(* whole, one of the writes wins and the other is gone.                    *)
(***************************************************************************)
EXTENDS Integers, FiniteSets

CONSTANTS
  Replicas,       \* gateways
  Tasks, Agents,
  Candidates,     \* per task: the agents resolveAssignedTargets comes up with
  Requester,      \* per task: createdBy_agent
  Admin,          \* per gateway: resolveRequiredAdminAgentId
  Contract,       \* tasks with taskNeedsContractEta
  HighRisk,       \* tasks with taskRequiresHighRiskApproval
  Unmetered,      \* skill-setup and distribution tasks, made without a queue check
  Distribution,   \* the distribution tasks, which an admin can drain
  Ineligible,     \* agents getDistributionEligibilityIssue objects to
  ClientKeys,     \* values of the parameter idempotency_key
  MaxConcurrent, MaxQueueDepth, RetryBudget,   \* readBackpressurePolicy
  Coordinators,   \* backbone gateways that may find themselves the coordinator
  ReplicaRank,    \* order of the client ids, which decides concurrent writes
  MaxWrites,      \* bound on the writes of one gateway to one task
  NoAgent

ASSUME SetsAssumption ==
  /\ IsFiniteSet(Replicas) /\ IsFiniteSet(Tasks) /\ IsFiniteSet(Agents)
  /\ NoAgent \notin Agents
  /\ Candidates \in [Tasks -> SUBSET Agents]
  /\ Requester \in [Tasks -> Agents] /\ Admin \in [Replicas -> Agents]
  /\ Contract \subseteq Tasks /\ HighRisk \subseteq Contract
  /\ Coordinators \subseteq Replicas
  /\ Unmetered \subseteq Tasks /\ Distribution \subseteq Unmetered
  /\ Ineligible \subseteq Agents

ASSUME LimitsAssumption ==
  /\ MaxConcurrent \in Nat \ {0} /\ MaxQueueDepth \in Nat \ {0}
  /\ RetryBudget \in Nat /\ MaxWrites \in Nat
  /\ ReplicaRank \in [Replicas -> Nat]
  /\ \A r, s \in Replicas : ReplicaRank[r] = ReplicaRank[s] => r = s

VARIABLES
  doc,        \* per gateway and task: its record, and the writes that led to it
  \* History.
  applied,    \* requests that changed a task, with the key they carried
  repeated,   \* a request was applied again under the same key
  misled,     \* a request was answered as a replay of one never applied
  granted     \* per task: failures answered with retryable: true

histVars == <<applied, repeated, misled, granted>>
vars == <<doc, histVars>>

Actions == {"claim", "update", "complete"}
DefaultKeys == Actions \X Agents
IdempotencyKeys == ClientKeys \union DefaultKeys
Status == {"absent", "pending", "claimed", "in_progress", "completed", "failed"}
Open == {"pending", "claimed", "in_progress"}

TaskRecord ==
  [status : Status,
   assignees : SUBSET Agents,
   claimedBy : Agents \union {NoAgent},
   acked : BOOLEAN,                  \* ack.state is accepted
   approved : BOOLEAN,               \* taskApprovalSatisfied
   keys : SUBSET IdempotencyKeys,    \* the keys of metadata.ansible.idempotency
   dead : BOOLEAN,                   \* failureCode is the dispatcher's
   retries : Nat]                    \* retry.retryableFailureCount

Entry == [rec : TaskRecord, seen : [Replicas -> Nat], by : Replicas]

Request == [task : Tasks, key : IdempotencyKeys, action : Actions, by : Agents, to : Status]

TypeOK ==
  /\ doc \in [Replicas -> [Tasks -> Entry]]
  /\ applied \subseteq Request
  /\ repeated \in BOOLEAN /\ misled \in BOOLEAN
  /\ granted \in [Tasks -> Nat]

Absent == [status |-> "absent", assignees |-> {}, claimedBy |-> NoAgent, acked |-> FALSE,
           approved |-> FALSE, keys |-> {}, dead |-> FALSE, retries |-> 0]

Unwritten(r) == [rec |-> Absent, seen |-> [s \in Replicas |-> 0], by |-> r]

Init ==
  /\ doc = [r \in Replicas |-> [t \in Tasks |-> Unwritten(r)]]
  /\ applied = {}
  /\ repeated = FALSE
  /\ misled = FALSE
  /\ granted = [t \in Tasks |-> 0]

-----------------------------------------------------------------------------
(***************************************************************************)
(* What the tools read.                                                    *)
(***************************************************************************)

Rec(r, t) == doc[r][t].rec

\* countActiveClaimsForAgent and countPendingAssignmentsForAgent.
ActiveClaims(r, a) ==
  {t \in Tasks : Rec(r, t).status \in {"claimed", "in_progress"} /\ Rec(r, t).claimedBy = a}
PendingFor(r, a) ==
  {t \in Tasks : Rec(r, t).status = "pending" /\ a \in Rec(r, t).assignees}

\* The idempotency key of a request: the caller's, or one made of the action and
\* the agent.
KeysOf(action, a) == ClientKeys \union {<<action, a>>}

\* Fault: the approval is not asked for.
ApprovalNotNeeded(t, c) == TRUE

ApprovalSatisfied(t, c) == t \in HighRisk => c.approved

\* Fault: a failed task can be claimed anew.
ClaimableIfNotRunning(c) == c.status \in {"pending", "failed"}

Claimable(c) == c.status = "pending"

\* Fault: the budget allows one retry too many.
BudgetExceededLate(n) == n > RetryBudget + 1

BudgetExceeded(n) == n > RetryBudget

-----------------------------------------------------------------------------
(***************************************************************************)
(* What they write.                                                        *)
(***************************************************************************)

\* tasks.set: the whole record, on one gateway.
Write(r, t, c) ==
  /\ doc[r][t].seen[r] < MaxWrites
  /\ doc' = [doc EXCEPT ![r][t] =
               [rec |-> c, seen |-> [doc[r][t].seen EXCEPT ![r] = @ + 1], by |-> r]]

\* Fault: the record keeps the last key only.
WithLastKey(c, key) == [c EXCEPT !.keys = {key}]

\* attachTaskIdempotency
WithKey(c, key) == [c EXCEPT !.keys = @ \union {key}]

Apply(r, t, key, action, a, c) ==
  /\ Write(r, t, WithKey(c, key))
  /\ LET q == [task |-> t, key |-> key, action |-> action, by |-> a, to |-> c.status]
     IN applied' = applied \union {q} /\ repeated' = (repeated \/ q \in applied)

\* A task with a new id.
Create(r, t, assignees) ==
  /\ \A s \in Replicas : doc[s][t] = Unwritten(s)
  /\ Write(r, t, [Absent EXCEPT !.status = "pending", !.assignees = assignees])
  /\ UNCHANGED histVars

\* ansible_delegate_task leaves out the agents whose queue is full.
Delegate(r, t) ==
  LET available == {a \in Candidates[t] : Cardinality(PendingFor(r, a)) < MaxQueueDepth}
  IN t \notin Unmetered /\ available # {} /\ Create(r, t, available)

\* ansible_create_skill_task and the distribution tasks of a publish do not look.
CreateSkillTask(r, t) == t \in Unmetered /\ Create(r, t, Candidates[t])

\* ansible_claim_task
Claim(r, t, a, key) ==
  LET c == Rec(r, t)
  IN /\ c.status # "absent" /\ a \in c.assignees
     /\ key \notin c.keys
     /\ Claimable(c)
     /\ Cardinality(ActiveClaims(r, a)) < MaxConcurrent
     /\ ApprovalSatisfied(t, c)
     /\ Apply(r, t, key, "claim", a,
              [c EXCEPT !.status = "claimed", !.claimedBy = a, !.acked = TRUE])
     /\ UNCHANGED <<misled, granted>>

\* ansible_update_task with status in_progress: whatever the status was.
Progress(r, t, a, key) ==
  LET c == Rec(r, t)
  IN /\ key \notin c.keys
     /\ c.claimedBy = a
     /\ t \in Contract => c.acked
     /\ ApprovalSatisfied(t, c)
     /\ Apply(r, t, key, "update", a, [c EXCEPT !.status = "in_progress"])
     /\ UNCHANGED <<misled, granted>>

\* ansible_update_task with status failed, the caller asking for a retry or not.
ReportFailure(r, t, a, key, retryable) ==
  LET c == Rec(r, t)
      retry == retryable /\ ~BudgetExceeded(c.retries + 1)
  IN /\ key \notin c.keys
     /\ c.claimedBy = a
     /\ Apply(r, t, key, "update", a,
              [c EXCEPT !.status = "failed", !.dead = FALSE,
                        !.retries = IF retry THEN @ + 1 ELSE @])
     /\ granted' = [granted EXCEPT ![t] = IF retry THEN @ + 1 ELSE @]
     /\ UNCHANGED misled

\* ansible_complete_task: whatever the status was.
Complete(r, t, a, key) ==
  LET c == Rec(r, t)
  IN /\ key \notin c.keys
     /\ c.claimedBy = a
     /\ ApprovalSatisfied(t, c)
     /\ Apply(r, t, key, "complete", a, [c EXCEPT !.status = "completed"])
     /\ UNCHANGED <<misled, granted>>

\* A request whose key the record holds is answered with success and changes
\* nothing.  A claim looks at the assignees first.  (A claim with a key of the
\* caller's is also answered with success if the caller holds the claim: no step.)
Replay(r, t, a, action, to, key) ==
  /\ key \in Rec(r, t).keys
  /\ action = "claim" => a \in Rec(r, t).assignees
  /\ misled' = (misled \/ [task |-> t, key |-> key, action |-> action, by |-> a, to |-> to]
                            \notin applied)
  /\ UNCHANGED <<doc, applied, repeated, granted>>

\* ansible_approve_task
Approve(r, t, a) ==
  LET c == Rec(r, t)
  IN /\ c.status # "absent" /\ t \in HighRisk
     /\ a \in {Requester[t], Admin[r]}
     /\ ~c.approved
     /\ Write(r, t, [c EXCEPT !.approved = TRUE])
     /\ UNCHANGED histVars

\* Fault: the failure class goes into the status.
FailTerminal(c) == [c EXCEPT !.status = "failed_terminal"]

FailTask(c) == [c EXCEPT !.status = "failed"]

\* The dispatcher gives up a task it could not deliver: once, unless a failure its
\* claimer reports replaces the failure code.
DeadLetter(r, t) ==
  LET c == Rec(r, t)
  IN /\ c.status \in Open /\ ~c.dead
     /\ Write(r, t, [FailTask(c) EXCEPT !.dead = TRUE])
     /\ UNCHANGED histVars

\* ansible_drain_distribution_tasks: one task of the batch.
Drain(r, t) ==
  LET c == Rec(r, t)
  IN /\ t \in Distribution /\ c.status \in Open
     /\ Write(r, t, [FailTask(c) EXCEPT !.dead = FALSE])
     /\ UNCHANGED histVars

\* ansible_cleanup_distribution_tasks does the same to the tasks of agents that are
\* not (or no longer) eligible.
CleanUpDistribution(r, t) == Rec(r, t).assignees \subseteq Ineligible /\ Drain(r, t)

\* The record is written back with other fields changed: the delivery marks of a
\* dispatcher, the escalation stamps of the SLA sweep.
Touch(r, t) ==
  /\ Rec(r, t).status # "absent"
  /\ Write(r, t, Rec(r, t))
  /\ UNCHANGED histVars

\* The retention service of the coordinator deletes closed tasks that are older than
\* the cutoff; any closed task may be.
Prune(r) ==
  /\ r \in Coordinators
  /\ \E old \in SUBSET {t \in Tasks : Rec(r, t).status \in {"completed", "failed"}} :
       /\ old # {}
       /\ doc' = [doc EXCEPT ![r] =
                    [t \in Tasks |-> IF t \in old THEN [doc[r][t] EXCEPT !.rec = Absent]
                                                  ELSE doc[r][t]]]
  /\ UNCHANGED histVars

-----------------------------------------------------------------------------
(***************************************************************************)
(* Replication (Yjs): a write known to include the other one replaces it;  *)
(* of two concurrent ones the higher client id wins.  Deleting a key       *)
(* deletes the write it holds, and is no write itself: one that has not    *)
(* been seen yet survives it.                                              *)
(***************************************************************************)

Includes(e, f) == \A s \in Replicas : f.seen[s] <= e.seen[s]

Merge(e, f) ==
  IF e.seen = f.seen THEN (IF e.rec.status = "absent" THEN e ELSE f)
  ELSE IF Includes(e, f) THEN e
  ELSE IF Includes(f, e) THEN f
  ELSE [rec |-> IF ReplicaRank[e.by] > ReplicaRank[f.by] THEN e.rec ELSE f.rec,
        seen |-> [s \in Replicas |-> IF e.seen[s] > f.seen[s] THEN e.seen[s] ELSE f.seen[s]],
        by |-> IF ReplicaRank[e.by] > ReplicaRank[f.by] THEN e.by ELSE f.by]

\* Gateway r receives what s has written so far.
Sync(r, s) ==
  /\ doc' = [doc EXCEPT ![r] = [t \in Tasks |-> Merge(doc[r][t], doc[s][t])]]
  /\ doc' # doc
  /\ UNCHANGED histVars

-----------------------------------------------------------------------------
TaskRequest(r, t, a) ==
  \/ \E key \in KeysOf("claim", a) : Claim(r, t, a, key)
  \/ \E key \in KeysOf("update", a) : Progress(r, t, a, key)
  \/ \E key \in KeysOf("update", a), retryable \in BOOLEAN :
       ReportFailure(r, t, a, key, retryable)
  \/ \E key \in KeysOf("complete", a) : Complete(r, t, a, key)
  \/ \E key \in KeysOf("claim", a) : Replay(r, t, a, "claim", "claimed", key)
  \/ \E key \in KeysOf("update", a), to \in {"in_progress", "failed"} :
       Replay(r, t, a, "update", to, key)
  \/ \E key \in KeysOf("complete", a) : Replay(r, t, a, "complete", "completed", key)
  \/ Approve(r, t, a)

Next ==
  \/ \E r \in Replicas, t \in Tasks :
       \/ Delegate(r, t)
       \/ CreateSkillTask(r, t)
       \/ \E a \in Agents : TaskRequest(r, t, a)
       \/ DeadLetter(r, t)
       \/ Drain(r, t)
       \/ CleanUpDistribution(r, t)
       \/ Touch(r, t)
  \/ \E r \in Replicas : Prune(r)
  \/ \E r, s \in Replicas : Sync(r, s)

Spec == Init /\ [][Next]_vars

-----------------------------------------------------------------------------
(***************************************************************************)
(* Properties.                                                             *)
(***************************************************************************)

\* On no gateway, after any merge, is a task being executed or done unless one of
\* its assignees claimed it with an ACK and, if it is of high risk, the approval
\* is in the same record: concurrent writes cannot separate the two.
ExecutionIsLicensed ==
  \A r \in Replicas, t \in Tasks :
    LET c == Rec(r, t)
    IN c.status \in {"claimed", "in_progress", "completed"} =>
         c.acked /\ c.claimedBy \in c.assignees /\ (t \in HighRisk => c.approved)

\* Every gateway that has the task has it as claimed by a.
OnlyClaimer(t, a) == \A r \in Replicas : Rec(r, t).status = "absent" \/ Rec(r, t).claimedBy = a

\* Once the gateways agree on who has claimed a task, nothing gives it to anybody
\* else or makes it claimable again: no failure, retry, deletion or merge.
AgreedClaimIsFinal ==
  [][\A t \in Tasks, a \in Agents :
       OnlyClaimer(t, a) /\ (\E r \in Replicas : Rec(r, t).claimedBy = a)
         => OnlyClaimer(t, a)']_vars

\* On one gateway a request is never applied twice under the same key.
OncePerKey == Cardinality(Replicas) = 1 => ~repeated

\* On one gateway no more failures are granted a retry than the budget allows,
\* however often the task is resumed, completed or given up in between.
RetriesBounded ==
  Cardinality(Replicas) = 1 => \A t \in Tasks : granted[t] <= RetryBudget

(***************************************************************************)
(* What the documentation promises and a run refutes.                      *)
(***************************************************************************)

\* The description of the parameter idempotency_key: reusing a key prevents
\* duplicates; a request that is no duplicate is not answered as one.
ReplaysAreHonest == ~misled
=============================================================================
