----------------------------- MODULE Dispatcher -----------------------------
(***************************************************************************)
(* The dispatcher of one gateway (src/dispatcher.ts): it watches the       *)
(* "messages" and "tasks" maps of the shared document and hands every      *)
(* inbound item to the agent loop of the local agents it is addressed to.  *)
(*                                                                         *)
(* The code is one JavaScript thread.  A reconcile pass runs without       *)
(* interruption from one await to the next, and the only awaits are the    *)
(* ones inside a dispatch, so a pass is a process with two kinds of step:  *)
(* StartPass (snapshot of the backlog up to the first dispatch) and        *)
(* Finish / Fail (a dispatch settles, its outcome is recorded and the pass *)
(* goes on to its next dispatch).  Nothing stops a second pass from        *)
(* starting while the first one awaits, and everything else that writes    *)
(* the document (tools, peers, the operator) runs in between as well.      *)
(***************************************************************************)
EXTENDS Integers, FiniteSets

CONSTANTS
  Msgs, Tasks,     \* the ids of the two maps
  LocalAgents,     \* getLocalInternalAgents: the agents served by this node
  RemoteAgents,    \* agents of other gateways
  NodeAgent,       \* the node id, itself always one of the local agents
  From,            \* from_agent of a message, createdBy_agent of a task
  To,              \* to_agents of a message ({}: broadcast), assignees of a task
  NeedsSkill,      \* tasks with a skillRequired
  Blocked,         \* tasks whose intent is in AUTO_DISPATCH_BLOCKED_TASK_INTENTS
  Rank,            \* position of an item in dispatch order
  AgentRank,       \* position of an agent in the loop over targets
  MaxAttempts,     \* MAX_DELIVERY_ATTEMPTS
  Passes,          \* reconcile passes that can be suspended at the same time
  MaxCrashes,      \* bound on process crashes
  NoKey, NoAgent

Items == Msgs \union Tasks
Agents == LocalAgents \union RemoteAgents

(***************************************************************************)
(* The agents of this node an item is for.  A message goes to everyone it  *)
(* names, or to everyone when it names nobody, but not back to its sender; *)
(* a task only to its explicit assignees other than its creator.           *)
(***************************************************************************)
Targets(i) ==
  {a \in LocalAgents : /\ a # From[i]
                       /\ \/ a \in To[i]
                          \/ i \in Msgs /\ To[i] = {}}

\* The dispatcher's keys "msg:<id>:<agent>" and "task:<id>:<agent>".
Keys == {k \in Items \X LocalAgents : k[2] \in Targets(k[1])}
MsgKeys == {k \in Keys : k[1] \in Msgs}
TaskKeys == {k \in Keys : k[1] \in Tasks}

ASSUME ItemsAssumption ==
  /\ IsFiniteSet(Msgs) /\ IsFiniteSet(Tasks) /\ Msgs \intersect Tasks = {}
  /\ IsFiniteSet(LocalAgents) /\ NodeAgent \in LocalAgents
  /\ LocalAgents \intersect RemoteAgents = {}
  /\ From \in [Items -> Agents] /\ To \in [Items -> SUBSET Agents]
  /\ NeedsSkill \subseteq Tasks /\ Blocked \subseteq Tasks

\* Messages go before tasks; within a map the order is total
\* (timestamp or createdAt, then id).
ASSUME RankAssumption ==
  /\ Rank \in [Items -> Nat] /\ AgentRank \in [LocalAgents -> Nat]
  /\ \A i, j \in Items : Rank[i] = Rank[j] => i = j
  /\ \A a, b \in LocalAgents : AgentRank[a] = AgentRank[b] => a = b
  /\ \A m \in Msgs, t \in Tasks : Rank[m] < Rank[t]

ASSUME BoundsAssumption ==
  /\ MaxAttempts \in Nat \ {0} /\ MaxCrashes \in Nat
  /\ IsFiniteSet(Passes) /\ Passes # {}
  /\ NoKey \notin Keys /\ NoAgent \notin Agents

VARIABLES
  \* The document, as far as the dispatcher reads it.
  presence,    \* per item: "absent" before it arrives, "present", "deleted"
  delivery,    \* per key: item.delivery[agent]
  readBy,      \* keys of messages whose readBy_agents names the agent
  status,      \* per task ("claimed" stands for claimed and in_progress)
  claimedBy,   \* per task: claimedBy_agent
  deadTasks,   \* tasks whose failure.failureCode is MAX_ATTEMPTS_ERROR
  skilled,     \* local agents whose advertised skills cover skillRequired
  disk,        \* the document as last persisted
  \* The dispatcher process.
  queued,      \* reconcileQueued: a pass is about to start
  scheduled,   \* keys with a retry timer
  inFlight,    \* keys being dispatched
  todo,        \* per pass: what is left of its backlog
  cur,         \* per pass: the key it awaits, or NoKey
  tries,       \* per pass: its local variable "attempts"
  \* History.
  accepted,    \* per key: dispatches the agent loop completed
  overlapped,  \* two passes have been suspended at the same time
  crashes

docVars == <<presence, delivery, readBy, status, claimedBy, deadTasks, skilled>>
procVars == <<queued, scheduled, inFlight, todo, cur, tries>>
histVars == <<accepted, overlapped, crashes>>
vars == <<docVars, disk, procVars, histVars>>

Presence == {"absent", "present", "deleted"}
Status == {"pending", "claimed", "completed", "failed"}

\* A DeliveryRecord; "none" is the undefined record, dead its lastError being
\* MAX_ATTEMPTS_ERROR.
DeliveryRecord ==
  [state : {"none", "attempted", "delivered"}, attempts : Nat, dead : BOOLEAN]
NoDelivery == [state |-> "none", attempts |-> 0, dead |-> FALSE]
Attempted(n) == [state |-> "attempted", attempts |-> n, dead |-> FALSE]
Delivered(n) == [state |-> "delivered", attempts |-> n, dead |-> FALSE]
\* Fault: a dead letter is a state of its own, which no other part knows.
DeadLetterState(n) == [state |-> "dead", attempts |-> n, dead |-> TRUE]
DeadLetter(n) == [state |-> "attempted", attempts |-> n, dead |-> TRUE]

TypeOK ==
  /\ presence \in [Items -> Presence]
  /\ delivery \in [Keys -> DeliveryRecord]
  /\ readBy \subseteq MsgKeys
  /\ status \in [Tasks -> Status]
  /\ claimedBy \in [Tasks -> Agents \union {NoAgent}]
  /\ deadTasks \subseteq Tasks
  /\ skilled \subseteq LocalAgents
  /\ disk \in [presence : [Items -> Presence],
               delivery : [Keys -> DeliveryRecord],
               readBy : SUBSET MsgKeys,
               status : [Tasks -> Status],
               claimedBy : [Tasks -> Agents \union {NoAgent}],
               deadTasks : SUBSET Tasks,
               skilled : SUBSET LocalAgents]
  /\ queued \in BOOLEAN
  /\ scheduled \subseteq Keys
  /\ inFlight \subseteq Keys
  /\ todo \in [Passes -> SUBSET Keys]
  /\ cur \in [Passes -> Keys \union {NoKey}]
  /\ tries \in [Passes -> Nat]
  /\ accepted \in [Keys -> Nat]
  /\ overlapped \in BOOLEAN
  /\ crashes \in 0..MaxCrashes

Doc == [presence |-> presence, delivery |-> delivery, readBy |-> readBy,
        status |-> status, claimedBy |-> claimedBy, deadTasks |-> deadTasks,
        skilled |-> skilled]

Init ==
  /\ presence = [i \in Items |-> "absent"]
  /\ delivery = [k \in Keys |-> NoDelivery]
  /\ readBy = {}
  /\ status = [t \in Tasks |-> "pending"]
  /\ claimedBy = [t \in Tasks |-> NoAgent]
  /\ deadTasks = {}
  /\ skilled = {}
  /\ disk = Doc
  /\ queued = TRUE
  /\ scheduled = {}
  /\ inFlight = {}
  /\ todo = [p \in Passes |-> {}]
  /\ cur = [p \in Passes |-> NoKey]
  /\ tries = [p \in Passes |-> 0]
  /\ accepted = [k \in Keys |-> 0]
  /\ overlapped = FALSE
  /\ crashes = 0

-----------------------------------------------------------------------------
(***************************************************************************)
(* The snapshot at the head of reconcileNow.                               *)
(***************************************************************************)

\* isDeliveredMessage / isDeliveredTask: only messages have the readBy fallback.
IsDelivered(k) == delivery[k].state = "delivered" \/ k \in readBy

\* The task filters of the snapshot that do not look at the delivery record.
TaskOpenFor(t, a) ==
  /\ t \notin Blocked
  /\ status[t] \in {"pending", "claimed"}
  /\ claimedBy[t] \in {NoAgent, a}

\* Fault: the snapshot does not leave delivered items out.
EligibleUnlessClosed(k) ==
  /\ presence[k[1]] = "present"
  /\ k[1] \in Tasks => TaskOpenFor(k[1], k[2])

Eligible(k) ==
  /\ presence[k[1]] = "present"
  /\ k[1] \in Tasks => TaskOpenFor(k[1], k[2])
  /\ ~IsDelivered(k)

Exhausted(k) == Eligible(k) /\ delivery[k].attempts >= MaxAttempts

HasSkill(k) == k[1] \in NeedsSkill => k[2] \in skilled

\* Fault: an exhausted item is dead-lettered but stays in the backlog.
BacklogUncapped == {k \in Keys : Eligible(k) /\ HasSkill(k) /\ k \notin scheduled}

\* pendingMessages and pendingTasks.  A key in flight is not left out.
Backlog ==
  {k \in Keys : /\ Eligible(k)
                /\ delivery[k].attempts < MaxAttempts
                /\ HasSkill(k)
                /\ k \notin scheduled}

\* The tasks the snapshot fails, once: not those already failed for this reason
\* and then taken up again by their claimer.
TasksToFail ==
  {t \in Tasks \ deadTasks : \E k \in TaskKeys : k[1] = t /\ Exhausted(k)}

\* The assignee recorded as the reason: the first one the loop meets, for after
\* it markTaskDispatchDeadLetter finds the task failed.
FailedFor(t, a) ==
  /\ t \in TasksToFail
  /\ Exhausted(<<t, a>>)
  /\ \A l \in TaskKeys : l[1] = t /\ Exhausted(l) => AgentRank[a] <= AgentRank[l[2]]

\* What markMessageDispatchDeadLetter and markTaskDispatchDeadLetter write.
NewlyDead(k) ==
  \/ k \in MsgKeys /\ Exhausted(k) /\ ~delivery[k].dead
  \/ k \in TaskKeys /\ FailedFor(k[1], k[2])

DeadLettered ==
  [k \in Keys |-> IF NewlyDead(k) THEN DeadLetter(delivery[k].attempts)
                                  ELSE delivery[k]]

-----------------------------------------------------------------------------
(***************************************************************************)
(* The two dispatch loops of a pass, messages first, as one worklist.      *)
(***************************************************************************)

Precedes(k, l) ==
  \/ Rank[k[1]] < Rank[l[1]]
  \/ k[1] = l[1] /\ AgentRank[k[2]] < AgentRank[l[2]]

First(S) == CHOOSE k \in S : \A l \in S \ {k} : Precedes(k, l)

\* Fault: the item is marked delivered before it is dispatched.
MarkDeliveredFirst(d, k) ==
  IF presence[k[1]] = "present"
  THEN [d EXCEPT ![k] = Delivered(d[k].attempts + 1)] ELSE d

\* markAttemptedMessage / markAttemptedTask; a deleted item is not written.
MarkAttempted(d, k) ==
  IF presence[k[1]] = "present"
  THEN [d EXCEPT ![k] = Attempted(d[k].attempts + 1)] ELSE d

\* Fault: the loop does not look at inFlight.
WorklistAll(S, fl) == S

\* What the loop does not skip of the worklist S: the keys not in flight.
Unskipped(S, fl) == S \ fl

\* Pass p takes the next key of the worklist S that nobody has in flight and
\* calls the agent loop with it, or ends when there is none.  fl and d are
\* inFlight and delivery as the step has left them so far.
Proceed(p, S, fl, d, wrote) ==
  \/ /\ Unskipped(S, fl) = {}
     /\ todo' = [todo EXCEPT ![p] = {}]
     /\ cur' = [cur EXCEPT ![p] = NoKey]
     /\ tries' = [tries EXCEPT ![p] = 0]
     /\ inFlight' = fl
     /\ delivery' = d
     /\ queued' = wrote
     /\ UNCHANGED overlapped
  \/ \E k \in Unskipped(S, fl) :
     /\ k = First(Unskipped(S, fl))
     /\ todo' = [todo EXCEPT ![p] = {l \in S : Precedes(k, l)}]
     /\ cur' = [cur EXCEPT ![p] = k]
     /\ delivery' = MarkAttempted(d, k)
     /\ tries' = [tries EXCEPT ![p] = IF presence[k[1]] = "present"
                                      THEN d[k].attempts + 1 ELSE 1]
     /\ inFlight' = fl \union {k}
     /\ queued' = (wrote \/ presence[k[1]] = "present")
     /\ overlapped' = (overlapped \/ \E q \in Passes \ {p} : cur[q] # NoKey)

\* The timer of queueReconcile fires: reconcileNow up to its first await.
StartPass(p) ==
  /\ queued
  /\ cur[p] = NoKey
  /\ status' = [t \in Tasks |-> IF t \in TasksToFail THEN "failed" ELSE status[t]]
  /\ deadTasks' = deadTasks \union TasksToFail
  /\ Proceed(p, Backlog, inFlight, DeadLettered, \E k \in Keys : NewlyDead(k))
  /\ UNCHANGED <<presence, readBy, claimedBy, skilled, disk, scheduled, accepted, crashes>>

\* Fault: readBy_agents is not written along with the delivery record.
ReadByUnchanged(k) == readBy

\* markDeliveredMessage also enters the agent into readBy_agents.
ReadByWith(k) ==
  IF presence[k[1]] = "present" /\ k \in MsgKeys THEN readBy \union {k} ELSE readBy

\* The dispatch pass p awaits completes: markDelivered, and on to the next.
Finish(p) ==
  /\ cur[p] # NoKey
  /\ LET k == cur[p]
         live == presence[k[1]] = "present"
     IN /\ accepted' = [accepted EXCEPT ![k] = @ + 1]
        /\ readBy' = ReadByWith(k)
        /\ Proceed(p, todo[p], inFlight \ {k},
                   IF live THEN [delivery EXCEPT ![k] = Delivered(tries[p])] ELSE delivery,
                   queued \/ live)
  /\ UNCHANGED <<presence, status, claimedBy, deadTasks, skilled, disk, scheduled, crashes>>

\* The dispatch pass p awaits throws: markAttemptError and scheduleRetry.
Fail(p) ==
  /\ cur[p] # NoKey
  /\ LET k == cur[p]
         live == presence[k[1]] = "present"
         n == IF delivery[k].state = "none" THEN 1 ELSE delivery[k].attempts
     IN /\ scheduled' = scheduled \union {k}
        /\ Proceed(p, todo[p], inFlight \ {k},
                   IF live THEN [delivery EXCEPT ![k] = Attempted(n)] ELSE delivery,
                   queued \/ live)
  /\ UNCHANGED <<presence, readBy, status, claimedBy, deadTasks, skilled, disk, accepted, crashes>>

\* Fault: the timer does not remove its key from scheduled.
RetryTimerKept(k) ==
  /\ k \in scheduled
  /\ queued' = TRUE
  /\ UNCHANGED <<docVars, disk, scheduled, inFlight, todo, cur, tries, histVars>>

\* A backoff timer fires.
RetryTimer(k) ==
  /\ k \in scheduled
  /\ scheduled' = scheduled \ {k}
  /\ queued' = TRUE
  /\ UNCHANGED <<docVars, disk, inFlight, todo, cur, tries, histVars>>

\* The heartbeat interval, a completed sync with a peer, or
\* requestDispatcherReconcile.
Heartbeat ==
  /\ ~queued
  /\ queued' = TRUE
  /\ UNCHANGED <<docVars, disk, scheduled, inFlight, todo, cur, tries, histVars>>

-----------------------------------------------------------------------------
(***************************************************************************)
(* What else writes the document.  Every write to the two maps fires the   *)
(* observers, which queue a pass; advertised skills live in a map nobody   *)
(* observes.                                                               *)
(***************************************************************************)

\* A tool or a peer puts a new item into the document.
Arrive(i) ==
  /\ presence[i] = "absent"
  /\ presence' = [presence EXCEPT ![i] = "present"]
  /\ queued' = TRUE
  /\ UNCHANGED <<delivery, readBy, status, claimedBy, deadTasks, skilled, disk,
                 scheduled, inFlight, todo, cur, tries, histVars>>

\* ansible_delete_messages, which takes any message; the retention of closed tasks.
DeleteItem(i) ==
  /\ presence[i] = "present"
  /\ i \in Tasks => status[i] \in {"completed", "failed"}
  /\ presence' = [presence EXCEPT ![i] = "deleted"]
  /\ queued' = TRUE
  /\ UNCHANGED <<delivery, readBy, status, claimedBy, deadTasks, skilled, disk,
                 scheduled, inFlight, todo, cur, tries, histVars>>

\* The cleanup of old messages (startMessageCleanup) keeps what the node itself has
\* not read, and only that: a message another local agent is still to get may go.
\* Any message may be old enough, or too many.
CleanUp(m) ==
  /\ <<m, NodeAgent>> \notin MsgKeys \ readBy
  /\ DeleteItem(m)

\* ansible_mark_read: the node marks what it has polled.
MarkRead(m) ==
  /\ presence[m] = "present"
  /\ <<m, NodeAgent>> \in MsgKeys \ readBy
  /\ readBy' = readBy \union {<<m, NodeAgent>>}
  /\ queued' = TRUE
  /\ UNCHANGED <<presence, delivery, status, claimedBy, deadTasks, skilled, disk,
                 scheduled, inFlight, todo, cur, tries, histVars>>

\* ansible_claim_task, here or on another gateway.
ClaimTask(t, a) ==
  /\ presence[t] = "present"
  /\ status[t] = "pending"
  /\ To[t] = {} \/ a \in To[t]
  /\ status' = [status EXCEPT ![t] = "claimed"]
  /\ claimedBy' = [claimedBy EXCEPT ![t] = a]
  /\ queued' = TRUE
  /\ UNCHANGED <<presence, delivery, readBy, deadTasks, skilled, disk,
                 scheduled, inFlight, todo, cur, tries, histVars>>

\* ansible_update_task and ansible_complete_task by the claimer: neither looks
\* at the status the task has.  A reported failure replaces the failure record.
ReportTask(t, s) ==
  /\ presence[t] = "present"
  /\ claimedBy[t] # NoAgent
  /\ status' = [status EXCEPT ![t] = s]
  /\ deadTasks' = IF s = "failed" THEN deadTasks \ {t} ELSE deadTasks
  /\ queued' = TRUE
  /\ UNCHANGED <<presence, delivery, readBy, claimedBy, skilled, disk,
                 scheduled, inFlight, todo, cur, tries, histVars>>

\* ansible_advertise_skills replaces an agent's skill list.
AdvertiseSkills(a) ==
  /\ skilled' \in {skilled \union {a}, skilled \ {a}}
  /\ UNCHANGED <<presence, delivery, readBy, status, claimedBy, deadTasks, disk, procVars, histVars>>

\* The debounced save of the document (left out once no crash will read it).
Persist ==
  /\ crashes < MaxCrashes
  /\ disk # Doc
  /\ disk' = Doc
  /\ UNCHANGED <<docVars, procVars, histVars>>

RestoreDisk ==
  /\ presence' = disk.presence
  /\ delivery' = disk.delivery
  /\ readBy' = disk.readBy
  /\ status' = disk.status
  /\ claimedBy' = disk.claimedBy
  /\ deadTasks' = disk.deadTasks
  /\ skilled' = disk.skilled

StopPasses ==
  /\ todo' = [p \in Passes |-> {}]
  /\ cur' = [p \in Passes |-> NoKey]
  /\ tries' = [p \in Passes |-> 0]

\* Fault: the in-flight marks survive the restart, their passes do not.
CrashKeepingInFlight ==
  /\ crashes < MaxCrashes
  /\ crashes' = crashes + 1
  /\ RestoreDisk
  /\ StopPasses
  /\ queued' = TRUE
  /\ scheduled' = {}
  /\ UNCHANGED <<disk, inFlight, accepted, overlapped>>

\* The process dies and starts again from the file; the dispatcher's sets,
\* timers and suspended passes are gone, and "startup" queues a pass.
Crash ==
  /\ crashes < MaxCrashes
  /\ crashes' = crashes + 1
  /\ RestoreDisk
  /\ StopPasses
  /\ queued' = TRUE
  /\ scheduled' = {}
  /\ inFlight' = {}
  /\ UNCHANGED <<disk, accepted, overlapped>>

-----------------------------------------------------------------------------
Environment ==
  \/ \E i \in Items : Arrive(i) \/ DeleteItem(i)
  \/ \E m \in Msgs : CleanUp(m) \/ MarkRead(m)
  \/ \E t \in Tasks, a \in Agents : ClaimTask(t, a)
  \/ \E t \in Tasks, s \in {"claimed", "completed", "failed"} : ReportTask(t, s)
  \/ \E a \in LocalAgents : AdvertiseSkills(a)

Settle(p) == Finish(p) \/ Fail(p)

Next ==
  \/ \E p \in Passes : StartPass(p) \/ Finish(p) \/ Fail(p)
  \/ \E k \in Keys : RetryTimer(k)
  \/ Heartbeat
  \/ Environment
  \/ Persist
  \/ Crash

Spec == Init /\ [][Next]_vars

(***************************************************************************)
(* Timers fire (setTimeout, setInterval), and the agent loop settles every *)
(* dispatch one way or the other.  The second is an assumption about the   *)
(* host: the dispatcher itself puts no timeout on a dispatch.              *)
(***************************************************************************)
Fairness ==
  /\ WF_vars(\E p \in Passes : StartPass(p))
  /\ \A p \in Passes : WF_vars(Settle(p))
  /\ \A k \in Keys : WF_vars(RetryTimer(k))
  /\ WF_vars(Heartbeat)

FairSpec == Spec /\ Fairness

-----------------------------------------------------------------------------
(***************************************************************************)
(* Properties.                                                             *)
(***************************************************************************)

\* inFlight is the mutual exclusion of the passes: it holds exactly the keys
\* that some pass awaits, and no key is run by two passes at the same time.
InFlightOwned ==
  /\ inFlight = {cur[p] : p \in Passes} \ {NoKey}
  /\ \A p, q \in Passes : cur[p] = cur[q] /\ cur[p] # NoKey => p = q

\* A delivery record says "delivered", in memory or on disk, only if the agent
\* loop has completed a dispatch of that item to that agent.
NoFalseDelivery ==
  \A k \in Keys :
    delivery[k].state = "delivered" \/ disk.delivery[k].state = "delivered"
      => accepted[k] > 0

\* As long as passes never overlap and the process does not crash, every item is
\* run at most once per agent: only the snapshot's stale copies duplicate work.
OnceUnlessOverlapped ==
  ~overlapped /\ crashes = 0 => \A k \in Keys : accepted[k] <= 1

\* The attempts cap is checked in the snapshot only, so suspended passes can
\* overshoot it, but by no more than one attempt for each other pass.
AttemptsOvershoot ==
  \A k \in Keys : delivery[k].attempts < MaxAttempts + Cardinality(Passes)

\* An agent is run for one message at most once per suspended pass: the passes
\* that took the message into their snapshot before its first delivery, and none
\* that started later.
MessageDuplicatesBounded ==
  crashes = 0 => \A k \in MsgKeys : accepted[k] <= Cardinality(Passes)

\* Once a message counts as delivered to an agent, no stale pass, failed
\* duplicate or dead letter makes it pending again (without a crash).
MessageStaysDelivered ==
  [][crashes' = crashes =>
       \A k \in MsgKeys : IsDelivered(k) => IsDelivered(k)']_vars

\* An item waits for this dispatcher while it is eligible, its agent able and it
\* has not been given up.  (A task given up and then taken up again by its
\* claimer stays given up: it is neither dispatched nor failed a second time.)
Waiting(k) == /\ Eligible(k) /\ HasSkill(k)
              /\ ~delivery[k].dead /\ k[1] \notin deadTasks

\* No item is forgotten: whatever waits is in the end delivered, dead-lettered,
\* withdrawn (deleted, closed, claimed by another agent) or no longer matched by
\* its agent's skills.
NothingForgotten == \A k \in Keys : Waiting(k) ~> ~Waiting(k)

\* What of the state Delivery speaks of: the keys in flight, the completed runs, and
\* the delivery marks in memory and on disk.
Promise == INSTANCE Delivery WITH
  running <- inFlight,
  runs <- accepted,
  marked <- {k \in Keys : IsDelivered(k)},
  saved <- {k \in Keys : disk.delivery[k].state = "delivered" \/ k \in disk.readBy}

\* The dispatcher keeps the promise of Delivery: one dispatch of an item to an agent
\* at a time, no mark without a run, no mark of a message taken back.
KeepsPromise == Promise!Spec
=============================================================================
