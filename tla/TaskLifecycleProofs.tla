------------------------ MODULE TaskLifecycleProofs ------------------------
(***************************************************************************)
(* Theorems of TaskLifecycle, for any number of gateways, tasks, agents    *)
(* and keys, and any limits.                                               *)
(***************************************************************************)
EXTENDS TaskLifecycle, FiniteSetTheorems, TLAPS

\* The steps of Next by what they do to the records: a gateway writes a record, it
\* answers a replay, or it merges what another one has written.
\* The keys a request can carry are idempotency keys.
LEMMA KeyTypes ==
  ASSUME NEW a \in Agents, NEW action \in Actions
  PROVE  KeysOf(action, a) \subseteq IdempotencyKeys
BY DEF KeysOf, IdempotencyKeys, DefaultKeys

\* A write changes one record of one gateway.
LEMMA WriteType ==
  ASSUME doc \in [Replicas -> [Tasks -> Entry]],
         NEW r \in Replicas, NEW t \in Tasks, NEW c \in TaskRecord, Write(r, t, c)
  PROVE  /\ doc' \in [Replicas -> [Tasks -> Entry]]
         /\ \A s \in Replicas, u \in Tasks :
              Rec(s, u)' = IF s = r /\ u = t THEN c ELSE Rec(s, u)
<1>1. doc[r][t].seen \in [Replicas -> Nat]
  BY DEF Entry
<1>2. [rec |-> c, seen |-> [doc[r][t].seen EXCEPT ![r] = @ + 1], by |-> r] \in Entry
  BY <1>1 DEF Entry
<1>3. QED
  BY <1>2 DEF Write, Rec

\* A merge makes no record of its own: it takes one of the two.
LEMMA MergeType ==
  ASSUME NEW e \in Entry, NEW f \in Entry
  PROVE  Merge(e, f) \in Entry /\ Merge(e, f).rec \in {e.rec, f.rec}
BY DEF Merge, Entry

\* After a gateway has received the writes of another one each of its records is one
\* that some gateway had before.
LEMMA SyncShape ==
  ASSUME doc \in [Replicas -> [Tasks -> Entry]], NEW r \in Replicas, NEW s \in Replicas,
         Sync(r, s)
  PROVE  /\ doc' \in [Replicas -> [Tasks -> Entry]]
         /\ \A q \in Replicas, t \in Tasks : \E p \in Replicas : Rec(q, t)' = Rec(p, t)
<1>1. \A t \in Tasks : /\ Merge(doc[r][t], doc[s][t]) \in Entry
                       /\ Merge(doc[r][t], doc[s][t]).rec \in {Rec(r, t), Rec(s, t)}
  BY MergeType DEF Rec
<1>2. QED
  BY <1>1 DEF Sync, Rec

\* After a pruning each record is what it was, or gone.
LEMMA PruneShape ==
  ASSUME doc \in [Replicas -> [Tasks -> Entry]], NEW r \in Replicas, Prune(r)
  PROVE  /\ doc' \in [Replicas -> [Tasks -> Entry]]
         /\ \A q \in Replicas, t \in Tasks : Rec(q, t)' \in {Rec(q, t), Absent}
<1>1. Absent \in TaskRecord
  BY DEF Absent, TaskRecord, Status
<1>2. \A e \in Entry, c \in TaskRecord :
        [e EXCEPT !.rec = c] \in Entry /\ [e EXCEPT !.rec = c].rec = c
  BY DEF Entry
<1>3. PICK old \in SUBSET Tasks :
        doc' = [doc EXCEPT ![r] =
                 [t \in Tasks |-> IF t \in old THEN [doc[r][t] EXCEPT !.rec = Absent]
                                               ELSE doc[r][t]]]
  BY DEF Prune
<1>4. \A t \in Tasks : /\ [doc[r][t] EXCEPT !.rec = Absent] \in Entry /\ doc[r][t] \in Entry
                       /\ [doc[r][t] EXCEPT !.rec = Absent].rec = Absent
  BY <1>1, <1>2
<1> DEFINE new == [t \in Tasks |-> IF t \in old THEN [doc[r][t] EXCEPT !.rec = Absent]
                                                ELSE doc[r][t]]
<1>5. new \in [Tasks -> Entry] /\ \A t \in Tasks : new[t].rec \in {doc[r][t].rec, Absent}
  BY <1>4
<1>6. doc' = [doc EXCEPT ![r] = new]
  BY <1>3
<1> HIDE DEF new
<1>7. QED
  BY <1>5, <1>6 DEF Rec

\* What the tools read is a task record.
LEMMA RecType ==
  ASSUME TypeOK, NEW r \in Replicas, NEW t \in Tasks
  PROVE  Rec(r, t) \in TaskRecord
BY DEF TypeOK, Rec, Entry

-----------------------------------------------------------------------------
(***************************************************************************)
(* Every write is one of three kinds: it creates the task, it claims a     *)
(* pending one, or it keeps the claim.                                     *)
(***************************************************************************)

Creates(t, c) ==
  c.status = "pending" /\ c.claimedBy = NoAgent

Claims(t, b, c) ==
  /\ b.status = "pending"
  /\ c.status = "claimed"
  /\ c.claimedBy \in b.assignees /\ c.assignees = b.assignees
  /\ c.acked /\ (t \in HighRisk => c.approved)

Keeps(b, c) ==
  /\ b.status # "absent" \/ b.claimedBy # NoAgent
  /\ c.claimedBy = b.claimedBy /\ c.assignees = b.assignees
  /\ c.acked = b.acked /\ (b.approved => c.approved)
  /\ \/ c.status \in {b.status, "failed"}
     \/ b.claimedBy # NoAgent /\ c.status \in {"in_progress", "completed"}

RecordStep(r, t, c) ==
  \/ (\A s \in Replicas : Rec(s, t).status = "absent") /\ Creates(t, c)
  \/ Claims(t, Rec(r, t), c)
  \/ Keeps(Rec(r, t), c)

Writes == \E r \in Replicas, t \in Tasks : \E c \in TaskRecord : Write(r, t, c) /\ RecordStep(r, t, c)

\* A request of an agent claims a pending task, keeps the claim, or writes nothing.
LEMMA RequestWrites ==
  ASSUME TypeOK, NEW r \in Replicas, NEW t \in Tasks, NEW a \in Agents, TaskRequest(r, t, a)
  PROVE  Writes \/ UNCHANGED doc
<1> DEFINE c == Rec(r, t)
<1>1. c \in TaskRecord /\ a # NoAgent
  BY RecType, SetsAssumption
<1>2. ASSUME NEW key \in KeysOf("claim", a), Claim(r, t, a, key) PROVE Writes
  <2> DEFINE d == WithKey([c EXCEPT !.status = "claimed", !.claimedBy = a, !.acked = TRUE], key)
  <2>1. key \in IdempotencyKeys
    BY KeyTypes DEF Actions
  <2>2. d \in TaskRecord
    BY <1>1, <2>1 DEF TaskRecord, Status, WithKey
  <2>3. Write(r, t, d) /\ Claims(t, c, d)
    BY <1>1, <1>2 DEF Claim, Apply, WithKey, Claims, Claimable, ApprovalSatisfied, TaskRecord
  <2>4. QED
    BY <2>2, <2>3 DEF Writes, RecordStep
<1>3. ASSUME NEW key \in KeysOf("update", a), Progress(r, t, a, key) PROVE Writes
  <2> DEFINE d == WithKey([c EXCEPT !.status = "in_progress"], key)
  <2>1. key \in IdempotencyKeys
    BY KeyTypes DEF Actions
  <2>2. d \in TaskRecord
    BY <1>1, <2>1 DEF TaskRecord, Status, WithKey
  <2>3. Write(r, t, d) /\ Keeps(c, d)
    BY <1>1, <1>3 DEF Progress, Apply, WithKey, Keeps, TaskRecord
  <2>4. QED
    BY <2>2, <2>3 DEF Writes, RecordStep
<1>4. ASSUME NEW key \in KeysOf("update", a), NEW retryable \in BOOLEAN,
             ReportFailure(r, t, a, key, retryable)
      PROVE  Writes
  <2> DEFINE n == IF retryable /\ ~BudgetExceeded(c.retries + 1) THEN c.retries + 1 ELSE c.retries
             d == WithKey([c EXCEPT !.status = "failed", !.dead = FALSE, !.retries = n], key)
  <2>1. key \in IdempotencyKeys /\ n \in Nat
    BY <1>1, KeyTypes DEF Actions, TaskRecord
  <2>2. d \in TaskRecord
    <3> HIDE DEF n
    <3>1. QED
      BY <1>1, <2>1 DEF TaskRecord, Status, WithKey
  <2>3. Write(r, t, d)
    BY <1>1, <1>4 DEF ReportFailure, Apply, TaskRecord
  <2>4. Keeps(c, d)
    <3>1. c.claimedBy # NoAgent
      BY <1>1, <1>4 DEF ReportFailure
    <3> HIDE DEF n
    <3>2. QED
      BY <1>1, <3>1 DEF WithKey, Keeps, TaskRecord
  <2>5. QED
    BY <2>2, <2>3, <2>4 DEF Writes, RecordStep
<1>5. ASSUME NEW key \in KeysOf("complete", a), Complete(r, t, a, key) PROVE Writes
  <2> DEFINE d == WithKey([c EXCEPT !.status = "completed"], key)
  <2>1. key \in IdempotencyKeys
    BY KeyTypes DEF Actions
  <2>2. d \in TaskRecord
    BY <1>1, <2>1 DEF TaskRecord, Status, WithKey
  <2>3. Write(r, t, d) /\ Keeps(c, d)
    BY <1>1, <1>5 DEF Complete, Apply, WithKey, Keeps, TaskRecord
  <2>4. QED
    BY <2>2, <2>3 DEF Writes, RecordStep
<1>6. ASSUME Approve(r, t, a) PROVE Writes
  <2> DEFINE d == [c EXCEPT !.approved = TRUE]
  <2>1. d \in TaskRecord /\ Keeps(c, d)
    <3>1. c.status # "absent"
      BY <1>6 DEF Approve
    <3>2. QED
      BY <1>1, <3>1 DEF TaskRecord, Keeps
  <2>2. Write(r, t, d)
    BY <1>6 DEF Approve
  <2>3. QED
    BY <2>1, <2>2 DEF Writes, RecordStep
<1>7. QED
  BY <1>2, <1>3, <1>4, <1>5, <1>6 DEF TaskRequest, Replay

\* So does every step; a pruning and a merge write no new record.
LEMMA NextWrites ==
  ASSUME TypeOK, Next
  PROVE  \/ Writes \/ UNCHANGED doc
         \/ \E r \in Replicas : Prune(r)
         \/ \E r, s \in Replicas : Sync(r, s)
<1>1. ASSUME NEW r \in Replicas, NEW t \in Tasks, Delegate(r, t) \/ CreateSkillTask(r, t) PROVE Writes
  <2>1. PICK A \in SUBSET Candidates[t] :
          Write(r, t, [Absent EXCEPT !.status = "pending", !.assignees = A])
    BY <1>1 DEF Delegate, CreateSkillTask, Create
  <2>2. A \subseteq Agents
    BY SetsAssumption
  <2>3. [Absent EXCEPT !.status = "pending", !.assignees = A] \in TaskRecord
    BY <2>2 DEF Absent, TaskRecord, Status
  <2>4. Creates(t, [Absent EXCEPT !.status = "pending", !.assignees = A])
    BY DEF Creates, Absent
  <2>5. \A s \in Replicas : Rec(s, t).status = "absent"
    <3>1. \A s \in Replicas : doc[s][t] = Unwritten(s)
      BY <1>1 DEF Delegate, CreateSkillTask, Create
    <3>2. QED
      <4>1. \A s \in Replicas : Unwritten(s).rec = Absent
        BY DEF Unwritten
      <4>2. Absent.status = "absent"
        BY DEF Absent
      <4>3. QED
        BY <3>1, <4>1, <4>2 DEF Rec
  <2>6. QED
    BY <2>1, <2>3, <2>4, <2>5 DEF Writes, RecordStep
<1>2. ASSUME NEW r \in Replicas, NEW t \in Tasks, DeadLetter(r, t) \/ Drain(r, t) \/ CleanUpDistribution(r, t)
      PROVE Writes
  <2>1. PICK dead \in BOOLEAN : Write(r, t, [FailTask(Rec(r, t)) EXCEPT !.dead = dead])
    BY <1>2 DEF DeadLetter, Drain, CleanUpDistribution
  <2>2. /\ [FailTask(Rec(r, t)) EXCEPT !.dead = dead] \in TaskRecord
        /\ Keeps(Rec(r, t), [FailTask(Rec(r, t)) EXCEPT !.dead = dead])
    <3>1. Rec(r, t).status # "absent"
      BY <1>2 DEF DeadLetter, Drain, CleanUpDistribution, Open
    <3>2. QED
      BY <3>1, RecType DEF FailTask, TaskRecord, Status, Keeps
  <2>3. QED
    BY <2>1, <2>2 DEF Writes, RecordStep
<1>3. ASSUME NEW r \in Replicas, NEW t \in Tasks, Touch(r, t) PROVE Writes
  BY <1>3, RecType DEF Touch, Writes, RecordStep, Keeps
<1>4. QED
  BY <1>1, <1>2, <1>3, RequestWrites DEF Next

-----------------------------------------------------------------------------
HistoryOK ==
  /\ applied \subseteq Request
  /\ repeated \in BOOLEAN /\ misled \in BOOLEAN
  /\ granted \in [Tasks -> Nat]

\* An applied request leaves the history well-typed.
LEMMA ApplyHistory ==
  ASSUME HistoryOK, NEW r \in Replicas, NEW t \in Tasks, NEW a \in Agents,
         NEW action \in Actions, NEW key \in KeysOf(action, a), NEW c,
         c.status \in Status, Apply(r, t, key, action, a, c)
  PROVE  applied' \subseteq Request /\ repeated' \in BOOLEAN
<1> DEFINE q == [task |-> t, key |-> key, action |-> action, by |-> a, to |-> c.status]
<1>1. q \in Request
  BY KeyTypes DEF Request
<1>2. applied' = applied \union {q} /\ repeated' = (repeated \/ q \in applied)
  BY DEF Apply
<1>3. repeated' \in BOOLEAN
  BY <1>2
<1>4. QED
  BY <1>1, <1>2, <1>3 DEF HistoryOK

\* Any request does.
LEMMA RequestHistory ==
  ASSUME TypeOK, NEW r \in Replicas, NEW t \in Tasks, NEW a \in Agents, TaskRequest(r, t, a)
  PROVE  HistoryOK'
<1> DEFINE c == Rec(r, t)
<1>1. c \in TaskRecord /\ HistoryOK
  BY RecType DEF TypeOK, HistoryOK
<1>2. ASSUME NEW key \in KeysOf("claim", a), Claim(r, t, a, key) PROVE HistoryOK'
  <2> DEFINE d == [c EXCEPT !.status = "claimed", !.claimedBy = a, !.acked = TRUE]
  <2>1. d.status \in Status /\ Apply(r, t, key, "claim", a, d)
    BY <1>1, <1>2 DEF Claim, TaskRecord, Status
  <2>2. applied' \subseteq Request /\ repeated' \in BOOLEAN
    BY <1>1, <2>1, ApplyHistory DEF Actions
  <2>3. QED
    BY <1>1, <1>2, <2>2 DEF HistoryOK, Claim
<1>3. ASSUME NEW key \in KeysOf("update", a), Progress(r, t, a, key) PROVE HistoryOK'
  <2> DEFINE d == [c EXCEPT !.status = "in_progress"]
  <2>1. d.status \in Status /\ Apply(r, t, key, "update", a, d)
    BY <1>1, <1>3 DEF Progress, TaskRecord, Status
  <2>2. applied' \subseteq Request /\ repeated' \in BOOLEAN
    BY <1>1, <2>1, ApplyHistory DEF Actions
  <2>3. QED
    BY <1>1, <1>3, <2>2 DEF HistoryOK, Progress
<1>4. ASSUME NEW key \in KeysOf("update", a), NEW retryable \in BOOLEAN,
             ReportFailure(r, t, a, key, retryable)
      PROVE  HistoryOK'
  <2> DEFINE retry == retryable /\ ~BudgetExceeded(c.retries + 1)
             d == [c EXCEPT !.status = "failed", !.dead = FALSE,
                            !.retries = IF retry THEN @ + 1 ELSE @]
  <2>1. d.status \in Status
    BY <1>1 DEF TaskRecord, Status
  <2>2. Apply(r, t, key, "update", a, d)
    BY <1>4 DEF ReportFailure
  <2>3. applied' \subseteq Request /\ repeated' \in BOOLEAN
    <3> HIDE DEF d
    <3>1. QED
      BY <1>1, <2>1, <2>2, ApplyHistory DEF Actions
  <2>4. granted' \in [Tasks -> Nat]
    <3>1. granted' = [granted EXCEPT ![t] = IF retry THEN @ + 1 ELSE @]
      BY <1>4 DEF ReportFailure
    <3> HIDE DEF retry
    <3>2. QED
      BY <1>1, <3>1 DEF HistoryOK
  <2>5. misled' = misled
    BY <1>4 DEF ReportFailure
  <2>6. QED
    BY <1>1, <2>3, <2>4, <2>5 DEF HistoryOK
<1>5. ASSUME NEW key \in KeysOf("complete", a), Complete(r, t, a, key) PROVE HistoryOK'
  <2> DEFINE d == [c EXCEPT !.status = "completed"]
  <2>1. d.status \in Status /\ Apply(r, t, key, "complete", a, d)
    BY <1>1, <1>5 DEF Complete, TaskRecord, Status
  <2>2. applied' \subseteq Request /\ repeated' \in BOOLEAN
    BY <1>1, <2>1, ApplyHistory DEF Actions
  <2>3. QED
    BY <1>1, <1>5, <2>2 DEF HistoryOK, Complete
<1>6. ASSUME NEW action, NEW to, NEW key, Replay(r, t, a, action, to, key) PROVE HistoryOK'
  <2>1. misled' \in BOOLEAN
    BY <1>6 DEF Replay
  <2>2. QED
    BY <1>1, <1>6, <2>1 DEF Replay, HistoryOK
<1>7. CASE Approve(r, t, a)
  BY <1>1, <1>7 DEF Approve, histVars, HistoryOK
<1>8. QED
  BY <1>2, <1>3, <1>4, <1>5, <1>6, <1>7 DEF TaskRequest

\* Every record and history variable keeps its type, on any gateway and after any
\* merge.
THEOREM TypeCorrect == Spec => []TypeOK
<1>1. Init => TypeOK
  <2>1. Absent \in TaskRecord
    BY DEF Absent, TaskRecord, Status
  <2>2. \A r \in Replicas : Unwritten(r) \in Entry
    BY <2>1 DEF Entry, Unwritten
  <2>3. Init => doc \in [Replicas -> [Tasks -> Entry]]
    BY <2>2 DEF Init
  <2>4. Init => /\ applied \subseteq Request
                /\ granted \in [Tasks -> Nat]
    BY DEF Init
  <2>5. Init => repeated \in BOOLEAN /\ misled \in BOOLEAN
    BY DEF Init
  <2>6. QED
    BY <2>3, <2>4, <2>5 DEF TypeOK
<1>2. TypeOK /\ [Next]_vars => TypeOK'
  <2> SUFFICES ASSUME TypeOK, [Next]_vars PROVE TypeOK'
    OBVIOUS
  <2>1. CASE UNCHANGED vars
    BY <2>1 DEF vars, histVars, TypeOK
  <2>2. CASE Next
    <3>1. doc' \in [Replicas -> [Tasks -> Entry]]
      <4>1. Writes => doc' \in [Replicas -> [Tasks -> Entry]]
        BY WriteType DEF Writes, TypeOK
      <4>2. \A r, s \in Replicas : Sync(r, s) => doc' \in [Replicas -> [Tasks -> Entry]]
        BY SyncShape DEF TypeOK
      <4>3. \A r \in Replicas : Prune(r) => doc' \in [Replicas -> [Tasks -> Entry]]
        BY PruneShape DEF TypeOK
      <4>4. QED
        BY <2>2, <4>1, <4>2, <4>3, NextWrites DEF TypeOK
    <3>2. HistoryOK'
      <4>1. HistoryOK /\ UNCHANGED histVars => HistoryOK'
        BY DEF HistoryOK, histVars
      <4>2. HistoryOK
        BY DEF TypeOK, HistoryOK
      <4>3. QED
        BY <2>2, <4>1, <4>2, RequestHistory
           DEF Next, Delegate, CreateSkillTask, Create, DeadLetter, Drain,
               CleanUpDistribution, Touch, Prune, Sync
    <3>3. QED
      BY <3>1, <3>2 DEF TypeOK, HistoryOK
  <2>3. QED
    BY <2>1, <2>2
<1>3. QED
  BY <1>1, <1>2, PTL DEF Spec

-----------------------------------------------------------------------------
(***************************************************************************)
(* What ties the parts of a record together, wherever it has been written: *)
(* somebody holds the claim of a task that was executed, he holds it with  *)
(* an ACK and the approval, and a task that has a claim is not pending.    *)
(***************************************************************************)

RecInv(t, c) ==
  /\ c.claimedBy # NoAgent =>
       /\ c.claimedBy \in c.assignees /\ c.acked /\ (t \in HighRisk => c.approved)
       /\ c.status \notin {"absent", "pending"}
  /\ c.status \in {"claimed", "in_progress", "completed"} => c.claimedBy # NoAgent

LicenseInv == \A r \in Replicas, t \in Tasks : RecInv(t, Rec(r, t))

\* Each of the three kinds of write leaves a licensed record.
LEMMA RecordStepPreserves ==
  ASSUME TypeOK, LicenseInv, NEW r \in Replicas, NEW t \in Tasks, NEW c \in TaskRecord,
         RecordStep(r, t, c)
  PROVE  RecInv(t, c)
<1> DEFINE b == Rec(r, t)
<1>1. RecInv(t, b) /\ b \in TaskRecord
  BY RecType DEF LicenseInv
<1>2. CASE Creates(t, c)
  BY <1>2 DEF Creates, RecInv
<1>3. CASE Claims(t, b, c)
  <2>1. c.claimedBy \in Agents
    BY <1>1, <1>3 DEF Claims, TaskRecord
  <2>2. QED
    BY <1>3, <2>1, SetsAssumption DEF Claims, RecInv
<1>4. CASE Keeps(b, c)
  BY <1>1, <1>4 DEF Keeps, RecInv
<1>5. QED
  BY <1>2, <1>3, <1>4 DEF RecordStep

\* Every step keeps all records licensed.
LEMMA LicenseStep ==
  ASSUME TypeOK, LicenseInv, [Next]_vars
  PROVE  LicenseInv'
<1>1. CASE Writes
  <2>1. PICK r \in Replicas, t \in Tasks, c \in TaskRecord : Write(r, t, c) /\ RecordStep(r, t, c)
    BY <1>1 DEF Writes
  <2>2. \A s \in Replicas, u \in Tasks : Rec(s, u)' = IF s = r /\ u = t THEN c ELSE Rec(s, u)
    BY <2>1, WriteType DEF TypeOK
  <2>3. RecInv(t, c)
    BY <2>1, RecordStepPreserves
  <2>4. \A s \in Replicas, u \in Tasks : RecInv(u, Rec(s, u)')
    BY <2>2, <2>3 DEF LicenseInv
  <2>5. QED
    BY <2>4 DEF LicenseInv, RecInv
<1>2. CASE UNCHANGED doc
  BY <1>2 DEF LicenseInv, RecInv, Rec
<1>3. ASSUME NEW r \in Replicas, NEW s \in Replicas, Sync(r, s) PROVE LicenseInv'
  <2>1. \A q \in Replicas, t \in Tasks : \E p \in Replicas : Rec(q, t)' = Rec(p, t)
    BY <1>3, SyncShape DEF TypeOK
  <2>2. \A q \in Replicas, t \in Tasks : RecInv(t, Rec(q, t)')
    BY <2>1 DEF LicenseInv
  <2>3. QED
    BY <2>2 DEF LicenseInv, RecInv
<1>4. ASSUME NEW r \in Replicas, Prune(r) PROVE LicenseInv'
  <2>1. \A q \in Replicas, t \in Tasks : Rec(q, t)' \in {Rec(q, t), Absent}
    BY <1>4, PruneShape DEF TypeOK
  <2>2. \A t \in Tasks : RecInv(t, Absent)
    BY DEF RecInv, Absent
  <2>3. \A q \in Replicas, t \in Tasks : RecInv(t, Rec(q, t)')
    BY <2>1, <2>2 DEF LicenseInv
  <2>4. QED
    BY <2>3 DEF LicenseInv, RecInv
<1>5. QED
  BY <1>1, <1>2, <1>3, <1>4, NextWrites DEF vars

\* All records are licensed.
LEMMA LicenseInvariant == Spec => []LicenseInv
<1>1. Init => LicenseInv
  BY DEF Init, LicenseInv, RecInv, Rec, Unwritten, Absent
<1>2. TypeOK /\ LicenseInv /\ [Next]_vars => LicenseInv'
  BY LicenseStep
<1>3. QED
  BY <1>1, <1>2, TypeCorrect, PTL DEF Spec

\* On every gateway and after every merge, a task that is being executed or done
\* was claimed with an ACK by one of its assignees, and approved if of high risk.
THEOREM Licensed == Spec => []ExecutionIsLicensed
<1>1. LicenseInv => ExecutionIsLicensed
  BY DEF LicenseInv, RecInv, ExecutionIsLicensed
<1>2. QED
  BY <1>1, LicenseInvariant, PTL

-----------------------------------------------------------------------------
\* No step of any gateway, no deletion and no merge takes a task from the agent whom
\* all gateways that have it know as its claimer.
THEOREM ClaimFinality == Spec => AgreedClaimIsFinal
<1>1. ASSUME TypeOK, LicenseInv, [Next]_vars, NEW t \in Tasks, NEW a \in Agents,
             OnlyClaimer(t, a), NEW h \in Replicas, Rec(h, t).claimedBy = a
      PROVE  OnlyClaimer(t, a)'
  <2> DEFINE Fits(c) == c.status = "absent" \/ c.claimedBy = a
  <2>1. a # NoAgent
    BY SetsAssumption
  <2>2. /\ \A r \in Replicas :
             /\ Fits(Rec(r, t)) /\ Rec(r, t).claimedBy \in {a, NoAgent}
             /\ Rec(r, t).status # "pending"
             /\ Rec(r, t).claimedBy # NoAgent => Rec(r, t).status # "absent"
        /\ Rec(h, t).status # "absent"
    BY <1>1, <2>1 DEF LicenseInv, RecInv, OnlyClaimer
  <2>3. SUFFICES \A r \in Replicas : Fits(Rec(r, t)')
    BY DEF OnlyClaimer
  <2>4. CASE Writes
    <3>1. PICK r \in Replicas, u \in Tasks, c \in TaskRecord :
            Write(r, u, c) /\ RecordStep(r, u, c)
      BY <2>4 DEF Writes
    <3>2. \A s \in Replicas : Rec(s, t)' = IF s = r /\ u = t THEN c ELSE Rec(s, t)
      BY <1>1, <3>1, WriteType DEF TypeOK
    <3>3. u = t => Fits(c)
      BY <1>1, <2>2, <3>1 DEF RecordStep, Claims, Keeps
    <3>4. QED
      BY <2>2, <3>2, <3>3
  <2>5. CASE UNCHANGED doc
    BY <2>2, <2>5 DEF Rec
  <2>6. ASSUME NEW r \in Replicas, NEW s \in Replicas, Sync(r, s)
        PROVE  \A q \in Replicas : Fits(Rec(q, t)')
    <3>1. \A q \in Replicas : \E p \in Replicas : Rec(q, t)' = Rec(p, t)
      BY <1>1, <2>6, SyncShape DEF TypeOK
    <3>2. QED
      BY <2>2, <3>1
  <2>7. ASSUME NEW r \in Replicas, Prune(r) PROVE \A q \in Replicas : Fits(Rec(q, t)')
    <3>1. \A q \in Replicas : Rec(q, t)' \in {Rec(q, t), Absent}
      BY <1>1, <2>7, PruneShape DEF TypeOK
    <3>2. Fits(Absent)
      BY DEF Absent
    <3>3. QED
      BY <2>2, <3>1, <3>2
  <2>8. QED
    BY <1>1, <2>4, <2>5, <2>6, <2>7, NextWrites DEF vars
<1>2. TypeOK /\ LicenseInv /\ [Next]_vars
        => [\A t \in Tasks, a \in Agents :
              OnlyClaimer(t, a) /\ (\E r \in Replicas : Rec(r, t).claimedBy = a)
                => OnlyClaimer(t, a)']_vars
  BY <1>1
<1>3. QED
  BY <1>2, TypeCorrect, LicenseInvariant, PTL DEF Spec, AgreedClaimIsFinal

-----------------------------------------------------------------------------
(***************************************************************************)
(* One gateway.  Unless it is deleted, the record holds the key of every   *)
(* request that was applied to it, and counts the retries granted.         *)
(***************************************************************************)

Counted(r) ==
  /\ ~repeated
  /\ \A t \in Tasks :
       /\ granted[t] <= RetryBudget
       /\ doc[r][t].seen[r] = 0 => granted[t] = 0 /\ Rec(r, t).status = "absent"
       /\ Rec(r, t).status # "absent" => granted[t] = Rec(r, t).retries
  /\ \A q \in applied :
       /\ doc[r][q.task].seen[r] > 0
       /\ Rec(r, q.task).status # "absent" => q.key \in Rec(r, q.task).keys

CountedInv == \A r \in Replicas : Replicas = {r} => Counted(r)

\* A request that is applied brings a new key and at most one retry.
Applies(r) ==
  \E t \in Tasks, a \in Agents, action \in Actions :
    \E key \in KeysOf(action, a) : \E c \in TaskRecord :
      /\ Apply(r, t, key, action, a, c)
      /\ key \notin Rec(r, t).keys /\ Rec(r, t).status # "absent"
      /\ c.keys = Rec(r, t).keys /\ c.status # "absent"
      /\ \/ granted' = granted /\ c.retries = Rec(r, t).retries
         \/ /\ granted' = [granted EXCEPT ![t] = @ + 1]
            /\ c.retries = Rec(r, t).retries + 1 /\ c.retries <= RetryBudget

\* Any other write leaves the keys and the retries as they are, or creates the task.
Maintains(r) ==
  /\ UNCHANGED <<applied, repeated, granted>>
  /\ \/ UNCHANGED doc
     \/ \E t \in Tasks : \E c \in TaskRecord :
          /\ Write(r, t, c)
          /\ c.status # "absent"
          /\ \/ /\ Rec(r, t).status # "absent"
                /\ c.keys = Rec(r, t).keys /\ c.retries = Rec(r, t).retries
             \/ doc[r][t].seen[r] = 0 /\ c.retries = 0
     \/ Prune(r)

\* A request is applied under a new key and counts its retry, or maintains both.
LEMMA RequestCounts ==
  ASSUME TypeOK, LicenseInv, NEW r \in Replicas, NEW t \in Tasks, NEW a \in Agents,
         TaskRequest(r, t, a)
  PROVE  Applies(r) \/ Maintains(r)
<1> DEFINE c == Rec(r, t)
<1>1. /\ c \in TaskRecord /\ a # NoAgent
      /\ c.claimedBy = a => c.status # "absent"
  BY RecType, SetsAssumption DEF LicenseInv, RecInv
<1>2. ASSUME NEW key \in KeysOf("claim", a), Claim(r, t, a, key) PROVE Applies(r)
  <2> DEFINE d == [c EXCEPT !.status = "claimed", !.claimedBy = a, !.acked = TRUE]
  <2>1. /\ d \in TaskRecord
        /\ d.keys = c.keys /\ d.status # "absent" /\ d.retries = c.retries
    BY <1>1 DEF TaskRecord, Status
  <2>2. Apply(r, t, key, "claim", a, d) /\ key \notin c.keys /\ granted' = granted
        /\ c.status # "absent"
    BY <1>2 DEF Claim
  <2> HIDE DEF d
  <2>3. QED
    BY <2>1, <2>2 DEF Applies, Actions
<1>3. ASSUME NEW key \in KeysOf("update", a), Progress(r, t, a, key) PROVE Applies(r)
  <2> DEFINE d == [c EXCEPT !.status = "in_progress"]
  <2>1. /\ d \in TaskRecord
        /\ d.keys = c.keys /\ d.status # "absent" /\ d.retries = c.retries
    BY <1>1 DEF TaskRecord, Status
  <2>2. Apply(r, t, key, "update", a, d) /\ key \notin c.keys /\ granted' = granted
        /\ c.status # "absent"
    BY <1>1, <1>3 DEF Progress
  <2> HIDE DEF d
  <2>3. QED
    BY <2>1, <2>2 DEF Applies, Actions
<1>4. ASSUME NEW key \in KeysOf("update", a), NEW retryable \in BOOLEAN,
             ReportFailure(r, t, a, key, retryable)
      PROVE  Applies(r)
  <2> DEFINE retry == retryable /\ ~BudgetExceeded(c.retries + 1)
             n == IF retry THEN c.retries + 1 ELSE c.retries
             d == [c EXCEPT !.status = "failed", !.dead = FALSE, !.retries = n]
  <2>1. /\ Apply(r, t, key, "update", a, d) /\ key \notin c.keys
        /\ granted' = [granted EXCEPT ![t] = IF retry THEN @ + 1 ELSE @]
        /\ c.status # "absent"
    BY <1>1, <1>4 DEF ReportFailure
  <2>2. granted \in [Tasks -> Nat] /\ c.retries \in Nat /\ RetryBudget \in Nat
    BY <1>1, LimitsAssumption DEF TypeOK, TaskRecord
  <2>3. retry => c.retries + 1 <= RetryBudget
    BY <2>2 DEF BudgetExceeded
  <2>4. /\ d \in TaskRecord
        /\ d.keys = c.keys /\ d.status # "absent" /\ d.retries = n
    <3>1. n \in Nat
      BY <2>2
    <3> HIDE DEF n
    <3>2. QED
      BY <1>1, <3>1 DEF TaskRecord, Status
  <2>5. \/ granted' = granted /\ d.retries = c.retries
        \/ /\ granted' = [granted EXCEPT ![t] = @ + 1]
           /\ d.retries = c.retries + 1 /\ d.retries <= RetryBudget
    <3> HIDE DEF d
    <3>1. CASE retry
      BY <3>1, <2>1, <2>2, <2>3, <2>4
    <3>2. CASE ~retry
      <4>1. granted' = [granted EXCEPT ![t] = granted[t]]
        BY <3>2, <2>1
      <4>2. QED
        BY <3>2, <4>1, <2>2, <2>4
    <3>3. QED
      BY <3>1, <3>2
  <2> HIDE DEF d
  <2>6. QED
    BY <2>1, <2>4, <2>5 DEF Applies, Actions
<1>5. ASSUME NEW key \in KeysOf("complete", a), Complete(r, t, a, key) PROVE Applies(r)
  <2> DEFINE d == [c EXCEPT !.status = "completed"]
  <2>1. /\ d \in TaskRecord
        /\ d.keys = c.keys /\ d.status # "absent" /\ d.retries = c.retries
    BY <1>1 DEF TaskRecord, Status
  <2>2. Apply(r, t, key, "complete", a, d) /\ key \notin c.keys /\ granted' = granted
        /\ c.status # "absent"
    BY <1>1, <1>5 DEF Complete
  <2> HIDE DEF d
  <2>3. QED
    BY <2>1, <2>2 DEF Applies, Actions
<1>6. ASSUME NEW action, NEW to, NEW key, Replay(r, t, a, action, to, key) PROVE Maintains(r)
  BY <1>6 DEF Replay, Maintains
<1>7. ASSUME Approve(r, t, a) PROVE Maintains(r)
  <2> DEFINE d == [c EXCEPT !.approved = TRUE]
  <2>1. /\ d \in TaskRecord
        /\ d.keys = c.keys /\ d.status = c.status /\ d.retries = c.retries
    BY <1>1 DEF TaskRecord
  <2>2. /\ Write(r, t, d) /\ c.status # "absent"
        /\ UNCHANGED <<applied, repeated, granted>>
    BY <1>7 DEF Approve, histVars
  <2> HIDE DEF d
  <2>3. QED
    BY <2>1, <2>2 DEF Maintains
<1>8. QED
  BY <1>2, <1>3, <1>4, <1>5, <1>6, <1>7 DEF TaskRequest

\* On the only gateway every step does.
LEMMA NextCounts ==
  ASSUME TypeOK, LicenseInv, NEW r, Replicas = {r}, Counted(r), Next
  PROVE  Applies(r) \/ Maintains(r)
<1>1. ASSUME NEW t \in Tasks, Delegate(r, t) \/ CreateSkillTask(r, t) PROVE Maintains(r)
  <2>1. PICK A \in SUBSET Candidates[t] :
          Write(r, t, [Absent EXCEPT !.status = "pending", !.assignees = A])
    BY <1>1 DEF Delegate, CreateSkillTask, Create
  <2> DEFINE d == [Absent EXCEPT !.status = "pending", !.assignees = A]
  <2>2. A \subseteq Agents
    BY SetsAssumption
  <2>3. d \in TaskRecord /\ d.keys = {} /\ d.retries = 0 /\ d.status # "absent"
    BY <2>2 DEF Absent, TaskRecord, Status
  <2>4. doc[r][t].seen[r] = 0
    <3>1. doc[r][t] = Unwritten(r)
      BY <1>1 DEF Delegate, CreateSkillTask, Create
    <3>2. QED
      BY <3>1 DEF Unwritten
  <2>5. Write(r, t, d) /\ UNCHANGED <<applied, repeated, granted>>
    BY <1>1, <2>1 DEF Delegate, CreateSkillTask, Create, histVars
  <2> HIDE DEF d
  <2>6. QED
    BY <2>3, <2>4, <2>5 DEF Maintains
<1>2. ASSUME NEW t \in Tasks, DeadLetter(r, t) \/ Drain(r, t) \/ CleanUpDistribution(r, t)
      PROVE Maintains(r)
  <2>1. PICK dead \in BOOLEAN : Write(r, t, [FailTask(Rec(r, t)) EXCEPT !.dead = dead])
    BY <1>2 DEF DeadLetter, Drain, CleanUpDistribution
  <2> DEFINE d == [FailTask(Rec(r, t)) EXCEPT !.dead = dead]
  <2>2. /\ d \in TaskRecord /\ d.status # "absent"
        /\ d.keys = Rec(r, t).keys /\ d.retries = Rec(r, t).retries
    BY RecType DEF FailTask, TaskRecord, Status
  <2>3. /\ Write(r, t, d) /\ UNCHANGED <<applied, repeated, granted>>
        /\ Rec(r, t).status # "absent"
    BY <1>2, <2>1 DEF DeadLetter, Drain, CleanUpDistribution, Open, histVars
  <2> HIDE DEF d
  <2>4. QED
    BY <2>2, <2>3 DEF Maintains
<1>3. ASSUME NEW t \in Tasks, Touch(r, t) PROVE Maintains(r)
  BY <1>3, RecType DEF Touch, Maintains, histVars
<1>4. ~Sync(r, r)
  <2>1. \A t \in Tasks : Merge(doc[r][t], doc[r][t]) = doc[r][t]
    <3>1. \A t \in Tasks : doc[r][t].seen \in [Replicas -> Nat]
      BY DEF TypeOK, Entry
    <3>2. QED
      BY <3>1 DEF Merge, Includes
  <2>2. QED
    BY <2>1 DEF Sync, TypeOK
<1>5. Prune(r) => Maintains(r)
  BY DEF Prune, Maintains, histVars
<1>6. QED
  BY <1>1, <1>2, <1>3, <1>4, <1>5, RequestCounts DEF Next

\* A write is counted in the record it replaces.
LEMMA WriteSeen ==
  ASSUME doc \in [Replicas -> [Tasks -> Entry]],
         NEW r \in Replicas, NEW t \in Tasks, NEW c \in TaskRecord, Write(r, t, c)
  PROVE  \A u \in Tasks :
           /\ doc[r][u].seen[r] \in Nat
           /\ doc'[r][u].seen[r] = IF u = t THEN doc[r][u].seen[r] + 1 ELSE doc[r][u].seen[r]
<1>1. \A u \in Tasks : doc[r][u].seen \in [Replicas -> Nat]
  BY DEF Entry
<1>2. QED
  BY <1>1 DEF Write

\* Applying a request keeps keys and counts exact.
LEMMA AppliesPreserves ==
  ASSUME TypeOK, NEW r \in Replicas, Counted(r), Applies(r)
  PROVE  Counted(r)'
<1>1. PICK t \in Tasks, a \in Agents, action \in Actions :
        \E key \in KeysOf(action, a) : \E c \in TaskRecord :
          /\ Apply(r, t, key, action, a, c)
          /\ key \notin Rec(r, t).keys /\ Rec(r, t).status # "absent"
          /\ c.keys = Rec(r, t).keys /\ c.status # "absent"
          /\ \/ granted' = granted /\ c.retries = Rec(r, t).retries
             \/ /\ granted' = [granted EXCEPT ![t] = @ + 1]
                /\ c.retries = Rec(r, t).retries + 1 /\ c.retries <= RetryBudget
  BY DEF Applies
<1>2. PICK key \in KeysOf(action, a), c \in TaskRecord :
        /\ Apply(r, t, key, action, a, c)
        /\ key \notin Rec(r, t).keys /\ Rec(r, t).status # "absent"
        /\ c.keys = Rec(r, t).keys /\ c.status # "absent"
        /\ \/ granted' = granted /\ c.retries = Rec(r, t).retries
           \/ /\ granted' = [granted EXCEPT ![t] = @ + 1]
              /\ c.retries = Rec(r, t).retries + 1 /\ c.retries <= RetryBudget
  BY <1>1
<1> DEFINE q == [task |-> t, key |-> key, action |-> action, by |-> a, to |-> c.status]
           d == WithKey(c, key)
<1>3. /\ d \in TaskRecord
      /\ d.keys = c.keys \union {key} /\ d.status = c.status /\ d.retries = c.retries
  <2>1. key \in IdempotencyKeys
    BY KeyTypes
  <2>2. QED
    BY <2>1 DEF WithKey, TaskRecord
<1>4. /\ Write(r, t, d)
      /\ applied' = applied \union {q} /\ repeated' = (repeated \/ q \in applied)
  BY <1>2 DEF Apply
<1>5. \A u \in Tasks :
        /\ Rec(r, u)' = IF u = t THEN d ELSE Rec(r, u)
        /\ doc[r][u].seen[r] \in Nat
        /\ doc'[r][u].seen[r] = IF u = t THEN doc[r][u].seen[r] + 1 ELSE doc[r][u].seen[r]
  <2> HIDE DEF d
  <2>1. QED
    BY <1>3, <1>4, WriteType, WriteSeen DEF TypeOK
<1>6. ~repeated'
  <2>1. q \notin applied
    BY <1>2 DEF Counted
  <2>2. QED
    BY <1>4, <2>1 DEF Counted
<1>7. \A p \in applied' :
        /\ doc'[r][p.task].seen[r] > 0
        /\ Rec(r, p.task)'.status # "absent" => p.key \in Rec(r, p.task)'.keys
  <2>1. q.key = key /\ q.task = t /\ q.task \in Tasks
    OBVIOUS
  <2>2. \A p \in applied : p.task \in Tasks
    BY DEF TypeOK, Request
  <2>3. applied' = applied \union {q}
    BY <1>4
  <2> HIDE DEF d, q
  <2>4. QED
    BY <1>2, <1>3, <1>5, <2>1, <2>2, <2>3 DEF Counted
<1>8. \A u \in Tasks :
        /\ granted'[u] <= RetryBudget
        /\ doc'[r][u].seen[r] = 0 => granted'[u] = 0 /\ Rec(r, u)'.status = "absent"
        /\ Rec(r, u)'.status # "absent" => granted'[u] = Rec(r, u)'.retries
  <2>1. granted \in [Tasks -> Nat]
    BY DEF TypeOK
  <2>2. granted[t] = Rec(r, t).retries
    BY <1>2 DEF Counted
  <2> HIDE DEF d, q
  <2>3. QED
    BY <1>2, <1>3, <1>5, <2>1, <2>2 DEF Counted
<1>9. QED
  BY <1>6, <1>7, <1>8 DEF Counted

\* Any other write, and a pruning, keeps them.
LEMMA MaintainsPreserves ==
  ASSUME TypeOK, NEW r \in Replicas, Counted(r), Maintains(r)
  PROVE  Counted(r)'
<1>1. /\ applied' = applied /\ repeated' = repeated /\ granted' = granted
      /\ \A p \in applied : p.task \in Tasks
  BY DEF Maintains, TypeOK, Request
<1>2. CASE UNCHANGED doc
  BY <1>1, <1>2 DEF Counted, Rec
<1>3. CASE Prune(r)
  <2>1. \A u \in Tasks : Rec(r, u)' \in {Rec(r, u), Absent}
    BY <1>3, PruneShape DEF TypeOK
  <2>2. \A u \in Tasks : doc'[r][u].seen[r] = doc[r][u].seen[r]
    BY <1>3 DEF Prune, TypeOK, Entry
  <2>3. Absent.status = "absent"
    BY DEF Absent
  <2>4. QED
    BY <1>1, <2>1, <2>2, <2>3 DEF Counted
<1>4. CASE ~UNCHANGED doc /\ ~Prune(r)
  <2>1. PICK t \in Tasks, c \in TaskRecord :
          /\ Write(r, t, c)
          /\ c.status # "absent"
          /\ \/ /\ Rec(r, t).status # "absent"
                /\ c.keys = Rec(r, t).keys /\ c.retries = Rec(r, t).retries
             \/ doc[r][t].seen[r] = 0 /\ c.retries = 0
    BY <1>4 DEF Maintains
  <2>2. \A u \in Tasks :
          /\ Rec(r, u)' = IF u = t THEN c ELSE Rec(r, u)
          /\ doc[r][u].seen[r] \in Nat
          /\ doc'[r][u].seen[r] = IF u = t THEN doc[r][u].seen[r] + 1 ELSE doc[r][u].seen[r]
    BY <2>1, WriteType, WriteSeen DEF TypeOK
  <2>3. \A p \in applied :
          /\ doc'[r][p.task].seen[r] > 0
          /\ Rec(r, p.task)'.status # "absent" => p.key \in Rec(r, p.task)'.keys
    BY <1>1, <2>1, <2>2 DEF Counted
  <2>4. \A u \in Tasks :
          /\ doc'[r][u].seen[r] = 0 => granted[u] = 0 /\ Rec(r, u)'.status = "absent"
          /\ Rec(r, u)'.status # "absent" => granted[u] = Rec(r, u)'.retries
    BY <2>1, <2>2 DEF Counted
  <2>5. QED
    BY <1>1, <2>3, <2>4 DEF Counted
<1>5. QED
  BY <1>2, <1>3, <1>4

\* On the only gateway keys and counts are always exact.
LEMMA CountedInvariant == Spec => []CountedInv
<1>1. Init => CountedInv
  BY LimitsAssumption DEF Init, CountedInv, Counted, Rec, Unwritten, Absent
<1>2. ASSUME TypeOK, LicenseInv, CountedInv, [Next]_vars PROVE CountedInv'
  <2> SUFFICES ASSUME NEW r \in Replicas, Replicas = {r} PROVE Counted(r)'
    BY DEF CountedInv
  <2>1. Counted(r)
    BY <1>2 DEF CountedInv
  <2>2. CASE UNCHANGED vars
    BY <2>1, <2>2 DEF vars, histVars, Counted, Rec
  <2>3. CASE Next
    BY <1>2, <2>1, <2>3, NextCounts, AppliesPreserves, MaintainsPreserves
  <2>4. QED
    BY <1>2, <2>2, <2>3
<1>3. QED
  BY <1>1, <1>2, TypeCorrect, LicenseInvariant, PTL DEF Spec

\* A singleton is what Cardinality 1 says.
LEMMA OneGateway ==
  ASSUME CountedInv, Cardinality(Replicas) = 1
  PROVE  \E r \in Replicas : Counted(r)
<1>1. PICK r : Replicas = {r}
  BY FS_Singleton, SetsAssumption
<1>2. QED
  BY <1>1 DEF CountedInv

\* On a single gateway a request is applied at most once under its key: the record
\* keeps every key for good.
THEOREM KeysAreRemembered == Spec => []OncePerKey
<1>1. CountedInv => OncePerKey
  BY OneGateway DEF OncePerKey, Counted
<1>2. QED
  BY <1>1, CountedInvariant, PTL

\* On a single gateway the failures of a task that were granted a retry stay within
\* the budget, however the task has been resumed, completed or given up in between.
THEOREM RetryBound == Spec => []RetriesBounded
<1>1. CountedInv => RetriesBounded
  BY OneGateway DEF RetriesBounded, Counted
<1>2. QED
  BY <1>1, CountedInvariant, PTL
=============================================================================
