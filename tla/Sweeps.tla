------------------------------- MODULE Sweeps -------------------------------
(***************************************************************************)
(* The SLA sweep (src/sla.ts).  The gateway that is the coordinator looks, *)
(* once a period, for tasks past a deadline, tells the people concerned,   *)
(* and stamps the task so that nobody is told twice; a tool lets any       *)
(* gateway do the same at any time.  Role, period and tasks are in the     *)
(* shared document, of which each gateway has its replica.                 *)
(***************************************************************************)
EXTENDS Replica, SequencesExt

CONSTANTS
  Backbones,       \* the gateways of tier "backbone"
  SweepEnabled,    \* those whose sweep is not switched off (slaSweep.enabled)
  CoordinatorIds,  \* what may be called the coordinator: any string
  TaskOrder,       \* the tasks, in the order the map lists them
  Contract,        \* tasks with a contract: those a claim gives deadlines
  Recipients,      \* per task: how many are told (requester and claimer, or fyiAgents)
  AcceptWithin, ProgressWithin, CompleteWithin,   \* the time a task is given
  Every,           \* slaSweepEverySeconds
  MaxMessages,     \* slaSweepMaxMessagesPerSweep
  MaxTime,         \* bound on the time
  MaxWrites,       \* bound on claims, updates, role moves and sweeps by hand
  Never            \* a time that was not set

Tasks == {TaskOrder[i] : i \in DOMAIN TaskOrder}
Breaches == {"accept", "progress", "complete"}

ASSUME SweepAssumption ==
  /\ Backbones \subseteq Gateways /\ SweepEnabled \subseteq Gateways
  /\ TaskOrder \in Seq(Tasks)
  /\ \A i, j \in DOMAIN TaskOrder : TaskOrder[i] = TaskOrder[j] => i = j
  /\ Contract \subseteq Tasks /\ Recipients \in [Tasks -> Nat]
  /\ AcceptWithin \in Nat /\ ProgressWithin \in Nat /\ CompleteWithin \in Nat
  /\ Every \in Nat \ {0} /\ MaxMessages \in Nat
  /\ MaxTime \in Nat /\ MaxWrites \in Nat /\ Never \notin Nat

VARIABLES
  doc,      \* per gateway and key: the value, and the writes that led to it
  now,
  \* History.
  told,     \* per task and breach: how many sweeps have told people of it
  largest,  \* the most messages a sweep has sent
  raced,    \* something was written on a gateway that had not received everything
  writes

vars == <<doc, now, told, largest, raced, writes>>

-----------------------------------------------------------------------------
TaskKey(t) == <<"task", t>>
CoordinatorKey == <<"coordinator", Never>>
LastKey == <<"slaSweepLastAt", Never>>
Keys == {TaskKey(t) : t \in Tasks} \union {CoordinatorKey, LastKey}

Times == Nat \union {Never}
TaskRecord ==
  [status : {"pending", "active", "closed"},   \* "active": claimed or in_progress
   due : [Breaches -> Times],                  \* sla.acceptByAt and so on
   stamped : SUBSET Breaches]                  \* sla.escalations

\* As ansible_delegate_task leaves it: no deadline yet.
NewTask == [status |-> "pending", due |-> [b \in Breaches |-> Never], stamped |-> {}]

ValueOf(k) ==
  CASE k[1] = "task" -> TaskRecord
    [] k[1] = "coordinator" -> CoordinatorIds
    [] k[1] = "slaSweepLastAt" -> Times

ASSUME GoneAssumption == Gone \notin TaskRecord \union CoordinatorIds \union Times

TypeOK ==
  /\ \A g \in Gateways, k \in Keys : IsEntry(doc[g][k], ValueOf(k)) /\ doc[g][k].val # Gone
  /\ now \in 0..MaxTime
  /\ told \in [Tasks -> [Breaches -> Nat]]
  /\ largest \in Nat /\ raced \in BOOLEAN /\ writes \in 0..MaxWrites

\* A coordinator has been chosen and the tasks delegated, and everybody knows.
Init ==
  /\ \E c \in CoordinatorIds :
       doc = [g \in Gateways |-> [k \in Keys |->
                First(CASE k[1] = "task" -> NewTask
                        [] k[1] = "coordinator" -> c
                        [] k[1] = "slaSweepLastAt" -> Never)]]
  /\ now = 0
  /\ told = [t \in Tasks |-> [b \in Breaches |-> 0]]
  /\ largest = 0
  /\ raced = FALSE
  /\ writes = 0

Task(g, t) == doc[g][TaskKey(t)].val
Coordinator(g) == doc[g][CoordinatorKey].val
LastSweep(g) == doc[g][LastKey].val

-----------------------------------------------------------------------------
Writes(g, f) ==
  /\ doc' = [doc EXCEPT ![g] = [k \in Keys |->
       IF k \in DOMAIN f THEN Set(@[k], g, f[k]) ELSE @[k]]]
  /\ raced' = (raced \/ \E h \in Gateways, k \in Keys : ~Includes(doc[g][k], doc[h][k]))

WritesTask(g, t, r) == Writes(g, [k \in {TaskKey(t)} |-> r])

\* Bound on what people and agents do.
Acts == writes < MaxWrites /\ writes' = writes + 1

\* Gateway h receives everything g has.
Receive(g, h) ==
  LET received == [k \in Keys |-> Merge(doc[h][k], doc[g][k])]
  IN /\ received # doc[h]
     /\ doc' = [doc EXCEPT ![h] = received]
     /\ UNCHANGED <<now, told, largest, raced, writes>>

Tick ==
  /\ now < MaxTime
  /\ now' = now + 1
  /\ UNCHANGED <<doc, told, largest, raced, writes>>

-----------------------------------------------------------------------------
(***************************************************************************)
(* The tasks, as far as their deadlines go.                                *)
(***************************************************************************)

\* Fault: the deadlines ahead are set and the one to accept is left out.
DeadlinesAhead == [progress |-> now + ProgressWithin, complete |-> now + CompleteWithin]

\* computeTaskSlaMetadata: every task was made at time 0.
Deadlines ==
  [accept |-> AcceptWithin, progress |-> now + ProgressWithin, complete |-> now + CompleteWithin]

Claim(g, t) ==
  /\ Task(g, t).status = "pending"
  /\ WritesTask(g, t, IF t \in Contract
                      THEN [status |-> "active", due |-> Deadlines, stamped |-> {}]
                      ELSE [Task(g, t) EXCEPT !.status = "active"])
  /\ Acts
  /\ UNCHANGED <<now, told, largest>>

\* Fault: progress wipes the stamps.
ProgressedAfresh(r) ==
  [r EXCEPT !.status = "active", !.stamped = {},
            !.due["progress"] = Max({now + ProgressWithin} \union ({@} \ {Never}))]

\* The deadline for progress moves on, also of a task that had none.
Progressed(r) ==
  [r EXCEPT !.status = "active",
            !.due["progress"] = Max({now + ProgressWithin} \union ({@} \ {Never}))]

\* An update with status in_progress; it also reopens a task.
Progress(g, t) ==
  /\ Task(g, t).status # "pending"
  /\ WritesTask(g, t, Progressed(Task(g, t)))
  /\ Acts
  /\ UNCHANGED <<now, told, largest>>

\* Completed or failed.
Close(g, t) ==
  /\ Task(g, t).status # "pending"
  /\ WritesTask(g, t, [Task(g, t) EXCEPT !.status = "closed"])
  /\ Acts
  /\ UNCHANGED <<now, told, largest>>

\* ansible_set_coordination.  Nobody asks whether c is a node, or one that sweeps.
SetCoordinator(g, c) ==
  /\ c # Coordinator(g)
  /\ Writes(g, [k \in {CoordinatorKey} |-> c])
  /\ Acts
  /\ UNCHANGED <<now, told, largest>>

-----------------------------------------------------------------------------
(***************************************************************************)
(* The sweep.                                                              *)
(***************************************************************************)

\* The deadlines task t has missed that it is not stamped with yet.
Missed(g, t) ==
  LET r == Task(g, t)
  IN {b \in Breaches :
        /\ r.status = (IF b = "accept" THEN "pending" ELSE "active")
        /\ r.due[b] # Never /\ now > r.due[b]
        /\ b \notin r.stamped}

\* What a sweep looks at, in order: the tasks, and the three deadlines of each.
Check ==
  [i \in 1..(3 * Len(TaskOrder)) |->
     <<TaskOrder[(i + 2) \div 3], <<"accept", "progress", "complete">>[1 + ((i + 2) % 3)]>>]

\* Of the first n tasks, the deadlines missed.
MissedChecks(g, n) == {i \in 1..(3 * n) : Check[i][2] \in Missed(g, Check[i][1])}

\* Fault: the budget is charged once per breach, whatever the number of recipients.
LeftPerBreach(ms, budget) ==
  LET left[i \in {0} \union DOMAIN Check] ==
        IF i = 0 THEN budget
        ELSE IF i \in ms THEN Max({0, left[i - 1] - 1}) ELSE left[i - 1]
  IN left

\* The message budget left after each check, where those of ms are missed.
Left(ms, budget) ==
  LET left[i \in {0} \union DOMAIN Check] ==
        IF i = 0 THEN budget
        ELSE IF i \in ms THEN Max({0, left[i - 1] - Recipients[Check[i][1]]}) ELSE left[i - 1]
  IN left

\* The breaches somebody is told of: as long as anything is left of the budget,
\* everybody concerned is.
Told(ms, budget) ==
  LET left == Left(ms, budget)
  IN {i \in ms : left[i - 1] > 0 /\ Recipients[Check[i][1]] > 0}

\* escalationsWritten after each check, where those of ms are told.
Emitted(ms) ==
  LET emitted[i \in {0} \union DOMAIN Check] ==
        IF i = 0 THEN 0
        ELSE IF i \in ms THEN emitted[i - 1] + Recipients[Check[i][1]] ELSE emitted[i - 1]
  IN emitted

\* Fault: no more than one of the breaches of a task is stamped.
StampsFirst(t, ms) ==
  {Check[i][2] : i \in {j \in ms : Check[j][1] = t /\ \A k \in ms : Check[k][1] = t => j <= k}}

\* What task t is stamped with: all it has missed, also when the budget is spent.
Stamps(t, ms) == {Check[i][2] : i \in {j \in ms : Check[j][1] = t}}

\* runSlaSweep over the first n tasks; to the keys of last its caller writes the time
\* afterwards.
RunSlaSweep(g, n, budget, last) ==
  LET ms == MissedChecks(g, n)
      ts == {Check[i][1] : i \in ms}
      hits == Told(ms, budget)
  IN /\ Writes(g, [k \in last \union {TaskKey(t) : t \in ts} |->
          IF k \in last THEN now ELSE [doc[g][k].val EXCEPT !.stamped = @ \union Stamps(k[2], ms)]])
     /\ told' = [t \in Tasks |-> [b \in Breaches |->
          told[t][b] + Cardinality({i \in hits : Check[i] = <<t, b>>})]]
     /\ largest' = Max({largest, Emitted(hits)[Len(Check)]})
     /\ UNCHANGED now

\* runOnceIfDue asks: is this gateway the coordinator, is the sweep switched on, and is
\* the period over?  (Nothing writes slaSweepEnabled, which would override the
\* configuration.)
IsDue(g) ==
  /\ Coordinator(g) = g
  /\ g \in SweepEnabled
  /\ LastSweep(g) # Never => now >= LastSweep(g) + Every

\* At the start, every minute, and when the coordination map changes; an edge gateway
\* starts no such service.
ServiceSweep(g) ==
  /\ g \in Backbones
  /\ IsDue(g)
  /\ RunSlaSweep(g, Len(TaskOrder), MaxMessages, {LastKey})
  /\ UNCHANGED writes

\* ansible_sla_sweep, on any gateway; with record_only the budget is 0.
ManualSweep(g, n, budget) ==
  /\ RunSlaSweep(g, n, budget, {})
  /\ Acts

Receives == \E g, h \in Gateways : Receive(g, h)
ServiceSweeps == \E g \in Gateways : ServiceSweep(g)

Next ==
  \/ \E g \in Gateways, t \in Tasks : Claim(g, t) \/ Progress(g, t) \/ Close(g, t)
  \/ \E g \in Gateways, c \in CoordinatorIds : SetCoordinator(g, c)
  \/ Receives \/ ServiceSweeps
  \/ \E g \in Gateways, n \in DOMAIN TaskOrder, budget \in {0, MaxMessages} : ManualSweep(g, n, budget)
  \/ Tick

Spec == Init /\ [][Next]_vars

\* The timers fire, connections come back, time goes on.
Fairness ==
  /\ WF_vars(Tick)
  /\ WF_vars(Receives)
  /\ WF_vars(ServiceSweeps)

FairSpec == Spec /\ Fairness

-----------------------------------------------------------------------------
(***************************************************************************)
(* Properties.                                                             *)
(***************************************************************************)

Settled == \A g, h \in Gateways, k \in Keys : Includes(doc[g][k], doc[h][k])

\* People are told of a missed deadline once, however often the timers, the role
\* and the tool cross, as long as nobody acts on an old replica.
ToldOnce == ~raced => \A t \in Tasks, b \in Breaches : told[t][b] <= 1

\* The limit on messages is checked before a breach and charged afterwards: a sweep
\* exceeds it, but by less than the recipients of one breach.
BudgetNearlyKept ==
  largest < MaxMessages + Max({1} \union {Recipients[t] : t \in Tasks})

\* According to gateway g the role is with somebody who sweeps.
IsServed(g) == Coordinator(g) \in Backbones \intersect SweepEnabled

\* When everybody's replica says that a task is past a deadline, it gets stamped (or
\* goes on, or ends), also while the role of the coordinator moves, unless somebody
\* gives it to one who does not sweep (stated for a time early enough for the period to
\* end before the bound on it).
MissedIsStamped ==
  \A t \in Tasks :
    (now + Every <= MaxTime /\ \A g \in Gateways : Missed(g, t) # {})
      ~> (\E g \in Gateways : Missed(g, t) = {} \/ ~IsServed(g))

(***************************************************************************)
(* What the documentation promises and a run refutes.                      *)
(***************************************************************************)

\* The description of ansible_sla_sweep (and docs/skill-pair-dod-v1.md): a task that
\* nobody accepts in time is escalated by the sweep.
MissedAcceptIsStamped ==
  ~raced /\ Settled => \A g \in Gateways, t \in Contract :
    Task(g, t).status = "pending" /\ LastSweep(g) # Never /\ LastSweep(g) > AcceptWithin
      => "accept" \in Task(g, t).stamped
=============================================================================
