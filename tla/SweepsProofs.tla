---------------------------- MODULE SweepsProofs ----------------------------
(***************************************************************************)
(* Proofs about Sweeps, for any gateways, tasks, deadlines and budgets.    *)
(*                                                                         *)
(* What a sweep sends is a loop over the deadlines it looks at: its        *)
(* invariant relates the budget that is left to the messages sent.  That   *)
(* nobody is told twice is a property of the latest state of the document, *)
(* on which every sweep is made as long as nothing races.                  *)
(***************************************************************************)
EXTENDS Sweeps, ReplicaProofs

-----------------------------------------------------------------------------
(***************************************************************************)
(* What a sweep looks at, and what it sends.                               *)
(***************************************************************************)

\* Every deadline of every task is looked at once.
LEMMA ChecksAre ==
  /\ Len(TaskOrder) \in Nat /\ DOMAIN Check = 1..(3 * Len(TaskOrder))
  /\ Len(Check) = 3 * Len(TaskOrder) /\ IsFiniteSet(Tasks)
  /\ \A i \in DOMAIN Check : Check[i][1] \in Tasks /\ Check[i][2] \in Breaches
                             /\ Check[i] = <<Check[i][1], Check[i][2]>>
  /\ \A i, j \in DOMAIN Check : Check[i] = Check[j] => i = j
<1> DEFINE N == Len(TaskOrder)
           breach == <<"accept", "progress", "complete">>
           at(i) == (i + 2) \div 3
           of(i) == 1 + ((i + 2) % 3)
<1>1. N \in Nat /\ DOMAIN TaskOrder = 1..N /\ \A i \in 1..N : TaskOrder[i] \in Tasks
  BY SweepAssumption
<1>2. \A i \in 1..(3 * N) : at(i) \in 1..N /\ of(i) \in 1..3
  BY <1>1
<1>3. \A i, j \in 1..(3 * N) : at(i) = at(j) /\ of(i) = of(j) => i = j
  BY <1>1
<1>4. \A b \in 1..3 : breach[b] \in Breaches /\ \A c \in 1..3 : breach[b] = breach[c] => b = c
  BY DEF Breaches
<1>5. Check = [i \in 1..(3 * N) |-> <<TaskOrder[at(i)], breach[of(i)]>>]
  BY DEF Check
<1>6. DOMAIN Check = 1..(3 * N) /\ Len(Check) = 3 * N
  BY <1>1, <1>5
<1>7. IsFiniteSet(Tasks)
  <2>1. IsFiniteSet(1..N)
    BY <1>1, FS_Interval
  <2>2. [i \in 1..N |-> TaskOrder[i]] \in Surjection(1..N, Tasks)
    BY <1>1 DEF Surjection, Tasks
  <2> QED BY <2>1, <2>2, FS_Surjection
<1>8. \A i, j \in 1..N : TaskOrder[i] = TaskOrder[j] => i = j
  BY <1>1, SweepAssumption
<1> HIDE DEF N, breach, at, of
<1>9. ASSUME NEW i \in 1..(3 * N)
      PROVE  /\ Check[i] = <<TaskOrder[at(i)], breach[of(i)]>>
             /\ Check[i][1] = TaskOrder[at(i)] /\ Check[i][2] = breach[of(i)]
             /\ Check[i][1] \in Tasks /\ Check[i][2] \in Breaches
  BY <1>1, <1>2, <1>4, <1>5
<1>10. ASSUME NEW i \in 1..(3 * N), NEW j \in 1..(3 * N), Check[i] = Check[j]
       PROVE  i = j
  <2>1. TaskOrder[at(i)] = TaskOrder[at(j)] /\ breach[of(i)] = breach[of(j)]
    BY <1>9, <1>10
  <2>2. at(i) = at(j) /\ of(i) = of(j)
    BY <1>2, <1>4, <1>8, <2>1
  <2> QED BY <1>3, <2>2
<1> QED BY <1>1, <1>6, <1>7, <1>9, <1>10 DEF N

\* The loop over the budget, and the one over the messages.
LEMMA LeftLoop ==
  ASSUME NEW ms, NEW budget \in Nat
  PROVE  /\ Left(ms, budget) \in [0..Len(Check) -> Nat]
         /\ Left(ms, budget)[0] = budget
         /\ \A i \in DOMAIN Check : Left(ms, budget)[i] =
              IF i \in ms
              THEN Max({0, Left(ms, budget)[i - 1] - Recipients[Check[i][1]]})
              ELSE Left(ms, budget)[i - 1]
<1> DEFINE N == Len(Check)
           step == [p \in Nat \X Nat |->
                      IF p[1] \in ms /\ p[1] \in DOMAIN Check
                      THEN Max({0, p[2] - Recipients[Check[p[1]][1]]}) ELSE p[2]]
<1>1. N \in Nat /\ DOMAIN Check = 1..N /\ {0} \union DOMAIN Check = 0..N
  BY ChecksAre
<1>2. \A i \in DOMAIN Check : Recipients[Check[i][1]] \in Nat
  BY ChecksAre, SweepAssumption
<1>3. ASSUME NEW x \in Nat, NEW r \in Nat
      PROVE  Max({0, x - r}) \in Nat
  <2>1. Max({0, x - r}) = IF x > r THEN x - r ELSE 0
    BY Deduction
  <2> QED BY <2>1
<1>4. step \in [Nat \X Nat -> Nat]
  BY <1>2, <1>3
<1>5. PICK f \in [0..N -> Nat] : IsLoop(f, N, budget, step)
  <2> HIDE DEF N, step
  <2> QED BY <1>1, <1>4, LoopExists
<1>6. ASSUME NEW i \in 1..N
      PROVE  step[<<i, f[i - 1]>>] =
               IF i \in ms THEN Max({0, f[i - 1] - Recipients[Check[i][1]]}) ELSE f[i - 1]
  <2>1. i \in DOMAIN Check /\ <<i, f[i - 1]>> \in Nat \X Nat
    BY <1>1
  <2> QED BY <2>1
<1> HIDE DEF step
<1>7. \A i \in 0..N : f[i] =
        IF i = 0 THEN budget
        ELSE IF i \in ms THEN Max({0, f[i - 1] - Recipients[Check[i][1]]}) ELSE f[i - 1]
  BY <1>1, <1>5, <1>6 DEF IsLoop
<1>8. f = [i \in {0} \union DOMAIN Check |->
            IF i = 0 THEN budget
            ELSE IF i \in ms THEN Max({0, f[i - 1] - Recipients[Check[i][1]]}) ELSE f[i - 1]]
  BY <1>1, <1>5, <1>7
<1>9. Left(ms, budget) = [i \in {0} \union DOMAIN Check |->
            IF i = 0 THEN budget
            ELSE IF i \in ms THEN Max({0, Left(ms, budget)[i - 1] - Recipients[Check[i][1]]})
            ELSE Left(ms, budget)[i - 1]]
  BY <1>8 DEF Left
<1>10. \A i \in 0..N : Left(ms, budget)[i] \in Nat
  <2> DEFINE S == {i \in 0..N : Left(ms, budget)[i] \in Nat}
  <2>1. 0 \in S
    BY <1>1, <1>9
  <2>2. ASSUME NEW i \in 1..N, i - 1 \in S
        PROVE  i \in S
    <3>1. i \in DOMAIN Check /\ i # 0 /\ Left(ms, budget)[i - 1] \in Nat /\ i \in 0..N
      BY <1>1, <2>2
    <3>2. Left(ms, budget)[i] =
            IF i \in ms THEN Max({0, Left(ms, budget)[i - 1] - Recipients[Check[i][1]]})
            ELSE Left(ms, budget)[i - 1]
      BY <1>9, <3>1
    <3>3. Left(ms, budget)[i] \in Nat
      BY <1>2, <1>3, <3>1, <3>2
    <3> QED BY <3>1, <3>3
  <2> HIDE DEF S
  <2>3. 0..N \subseteq S
    BY <1>1, <2>1, <2>2, LoopInvariant
  <2> QED BY <2>3 DEF S
<1>11. Left(ms, budget)[0] = budget
  BY <1>9
<1>12. \A i \in DOMAIN Check : Left(ms, budget)[i] =
         IF i \in ms THEN Max({0, Left(ms, budget)[i - 1] - Recipients[Check[i][1]]})
         ELSE Left(ms, budget)[i - 1]
  <2>1. SUFFICES ASSUME NEW i \in DOMAIN Check
                 PROVE  Left(ms, budget)[i] =
                   IF i \in ms THEN Max({0, Left(ms, budget)[i - 1] - Recipients[Check[i][1]]})
                   ELSE Left(ms, budget)[i - 1]
    OBVIOUS
  <2>2. i # 0
    BY <1>1
  <2> QED BY <1>9, <2>2
<1>13. Left(ms, budget) \in [0..Len(Check) -> Nat]
  <2>1. Left(ms, budget) = [i \in 0..N |-> Left(ms, budget)[i]]
    BY <1>1, <1>9
  <2> QED BY <1>10, <2>1
<1> QED BY <1>11, <1>12, <1>13
LEMMA EmittedLoop ==
  ASSUME NEW ms
  PROVE  /\ Emitted(ms) \in [0..Len(Check) -> Nat]
         /\ Emitted(ms)[0] = 0
         /\ \A i \in DOMAIN Check : Emitted(ms)[i] =
              IF i \in ms
              THEN Emitted(ms)[i - 1] + Recipients[Check[i][1]]
              ELSE Emitted(ms)[i - 1]
<1> DEFINE N == Len(Check)
           step == [p \in Nat \X Nat |->
                      IF p[1] \in ms /\ p[1] \in DOMAIN Check
                      THEN p[2] + Recipients[Check[p[1]][1]] ELSE p[2]]
<1>1. N \in Nat /\ DOMAIN Check = 1..N /\ {0} \union DOMAIN Check = 0..N
  BY ChecksAre
<1>2. \A i \in DOMAIN Check : Recipients[Check[i][1]] \in Nat
  BY ChecksAre, SweepAssumption
<1>3. \A x, r \in Nat : x + r \in Nat
  OBVIOUS
<1>4. step \in [Nat \X Nat -> Nat]
  BY <1>2, <1>3
<1>5. PICK f \in [0..N -> Nat] : IsLoop(f, N, 0, step)
  <2> HIDE DEF N, step
  <2> QED BY <1>1, <1>4, LoopExists
<1>6. ASSUME NEW i \in 1..N
      PROVE  step[<<i, f[i - 1]>>] =
               IF i \in ms THEN f[i - 1] + Recipients[Check[i][1]] ELSE f[i - 1]
  <2>1. i \in DOMAIN Check /\ <<i, f[i - 1]>> \in Nat \X Nat
    BY <1>1
  <2> QED BY <2>1
<1> HIDE DEF step
<1>7. \A i \in 0..N : f[i] =
        IF i = 0 THEN 0
        ELSE IF i \in ms THEN f[i - 1] + Recipients[Check[i][1]] ELSE f[i - 1]
  BY <1>1, <1>5, <1>6 DEF IsLoop
<1>8. f = [i \in {0} \union DOMAIN Check |->
            IF i = 0 THEN 0
            ELSE IF i \in ms THEN f[i - 1] + Recipients[Check[i][1]] ELSE f[i - 1]]
  BY <1>1, <1>5, <1>7
<1>9. Emitted(ms) = [i \in {0} \union DOMAIN Check |->
            IF i = 0 THEN 0
            ELSE IF i \in ms THEN Emitted(ms)[i - 1] + Recipients[Check[i][1]]
            ELSE Emitted(ms)[i - 1]]
  BY <1>8 DEF Emitted
<1>10. \A i \in 0..N : Emitted(ms)[i] \in Nat
  <2> DEFINE S == {i \in 0..N : Emitted(ms)[i] \in Nat}
  <2>1. 0 \in S
    BY <1>1, <1>9
  <2>2. ASSUME NEW i \in 1..N, i - 1 \in S
        PROVE  i \in S
    <3>1. i \in DOMAIN Check /\ i # 0 /\ Emitted(ms)[i - 1] \in Nat /\ i \in 0..N
      BY <1>1, <2>2
    <3>2. Emitted(ms)[i] =
            IF i \in ms THEN Emitted(ms)[i - 1] + Recipients[Check[i][1]]
            ELSE Emitted(ms)[i - 1]
      BY <1>9, <3>1
    <3>3. Emitted(ms)[i] \in Nat
      BY <1>2, <1>3, <3>1, <3>2
    <3> QED BY <3>1, <3>3
  <2> HIDE DEF S
  <2>3. 0..N \subseteq S
    BY <1>1, <2>1, <2>2, LoopInvariant
  <2> QED BY <2>3 DEF S
<1>11. Emitted(ms)[0] = 0
  BY <1>9
<1>12. \A i \in DOMAIN Check : Emitted(ms)[i] =
         IF i \in ms THEN Emitted(ms)[i - 1] + Recipients[Check[i][1]]
         ELSE Emitted(ms)[i - 1]
  <2>1. SUFFICES ASSUME NEW i \in DOMAIN Check
                 PROVE  Emitted(ms)[i] =
                   IF i \in ms THEN Emitted(ms)[i - 1] + Recipients[Check[i][1]]
                   ELSE Emitted(ms)[i - 1]
    OBVIOUS
  <2>2. i # 0
    BY <1>1
  <2> QED BY <1>9, <2>2
<1>13. Emitted(ms) \in [0..Len(Check) -> Nat]
  <2>1. Emitted(ms) = [i \in 0..N |-> Emitted(ms)[i]]
    BY <1>1, <1>9
  <2> QED BY <1>10, <2>1
<1> QED BY <1>11, <1>12, <1>13

\* The recipients of a breach, as the limit on messages counts them.
MostRecipients == Max({1} \union {Recipients[t] : t \in Tasks})

LEMMA MostRecipientsIs ==
  /\ MostRecipients \in Nat /\ MostRecipients >= 1
  /\ \A t \in Tasks : Recipients[t] \in Nat /\ Recipients[t] <= MostRecipients
<1> DEFINE S == {Recipients[t] : t \in Tasks}
<1>1. Recipients \in [Tasks -> Nat] /\ IsFiniteSet(Tasks)
  BY ChecksAre, SweepAssumption
<1>2. [t \in Tasks |-> Recipients[t]] \in Surjection(Tasks, S)
  BY DEF Surjection
<1>3. IsFiniteSet(S)
  <2> HIDE DEF S
  <2> QED BY <1>1, <1>2, FS_Surjection
<1>4. IsFiniteSet({1} \union S) /\ {1} \union S \in SUBSET Nat /\ {1} \union S # {}
  <2>1. S \in SUBSET Nat
    BY <1>1
  <2> HIDE DEF S
  <2>2. IsFiniteSet({1})
    BY FS_Singleton
  <2>3. IsFiniteSet({1} \union S)
    BY <1>3, <2>2, FS_Union
  <2> QED BY <2>1, <2>3
<1>5. Max({1} \union S) \in {1} \union S /\ \A x \in {1} \union S : Max({1} \union S) >= x
  <2> HIDE DEF S
  <2> QED BY <1>4, MaxOfMany
<1> QED BY <1>1, <1>4, <1>5 DEF MostRecipients

\* As long as anything is left of the budget, what is left and what was sent make up
\* the budget; the breach that spends it sends less than its recipients too many.
BudgetHolds(left, emitted, budget) ==
  /\ left > 0 => emitted + left = budget
  /\ left = 0 => emitted < budget + MostRecipients

LEMMA SweepKeepsBudget ==
  ASSUME NEW ms, NEW budget \in Nat
  PROVE  /\ Emitted(Told(ms, budget))[Len(Check)] \in Nat
         /\ Emitted(Told(ms, budget))[Len(Check)] < budget + MostRecipients
<1> DEFINE N == Len(Check)
           left == Left(ms, budget)
           hits == Told(ms, budget)
           emitted == Emitted(hits)
           S == {i \in 0..N : BudgetHolds(left[i], emitted[i], budget)}
<1>1. N \in Nat /\ DOMAIN Check = 1..N /\ \A i \in 1..N : Check[i][1] \in Tasks
  BY ChecksAre
<1>2. /\ left \in [0..N -> Nat] /\ left[0] = budget
      /\ \A i \in 1..N : left[i] =
           IF i \in ms THEN Max({0, left[i - 1] - Recipients[Check[i][1]]}) ELSE left[i - 1]
  <2>1. DOMAIN Check = 1..N /\ N = Len(Check)
    BY <1>1
  <2> HIDE DEF N
  <2> QED BY <2>1, LeftLoop
<1>3. /\ emitted \in [0..N -> Nat] /\ emitted[0] = 0
      /\ \A i \in 1..N : emitted[i] =
           IF i \in hits THEN emitted[i - 1] + Recipients[Check[i][1]] ELSE emitted[i - 1]
  <2>1. DOMAIN Check = 1..N /\ N = Len(Check)
    BY <1>1
  <2> HIDE DEF N, hits
  <2> QED BY <2>1, EmittedLoop
<1>4. \A i : i \in hits <=> i \in ms /\ left[i - 1] > 0 /\ Recipients[Check[i][1]] > 0
  BY DEF Told
<1>5. MostRecipients \in Nat /\ MostRecipients >= 1
  BY MostRecipientsIs
<1> HIDE DEF left, hits, emitted, N
<1>6. 0 \in S
  BY <1>1, <1>2, <1>3, <1>5 DEF BudgetHolds
<1>7. ASSUME NEW i \in 1..N, i - 1 \in S
      PROVE  i \in S
  <2> DEFINE r == Recipients[Check[i][1]]
  <2>1. r \in Nat /\ r <= MostRecipients
    BY <1>1, MostRecipientsIs
  <2>2. /\ i \in 0..N /\ i - 1 \in 0..N
        /\ left[i - 1] \in Nat /\ left[i] \in Nat
        /\ emitted[i - 1] \in Nat /\ emitted[i] \in Nat
    BY <1>1, <1>2, <1>3
  <2>3. BudgetHolds(left[i - 1], emitted[i - 1], budget)
    BY <1>7
  <2>4. Max({0, left[i - 1] - r}) = IF left[i - 1] > r THEN left[i - 1] - r ELSE 0
    BY <2>1, <2>2, Deduction
  <2>5. left[i] = IF i \in ms THEN (IF left[i - 1] > r THEN left[i - 1] - r ELSE 0) ELSE left[i - 1]
    BY <1>2, <2>4
  <2>6. emitted[i] =
          IF i \in ms /\ left[i - 1] > 0 /\ r > 0 THEN emitted[i - 1] + r ELSE emitted[i - 1]
    BY <1>3, <1>4
  <2> HIDE DEF r
  <2>7. BudgetHolds(left[i], emitted[i], budget)
    BY <1>5, <2>1, <2>2, <2>3, <2>5, <2>6 DEF BudgetHolds
  <2> QED BY <2>2, <2>7
<1> HIDE DEF S
<1>8. 0..N \subseteq S
  BY <1>1, <1>6, <1>7, LoopInvariant
<1>9. N \in 0..N /\ left[N] \in Nat /\ emitted[N] \in Nat
  BY <1>1, <1>2, <1>3
<1>10. BudgetHolds(left[N], emitted[N], budget)
  BY <1>8, <1>9 DEF S
<1>11. emitted[N] < budget + MostRecipients
  BY <1>5, <1>9, <1>10 DEF BudgetHolds
<1> QED BY <1>9, <1>11 DEF N, emitted, hits

-----------------------------------------------------------------------------
(***************************************************************************)
(* Values and calls.                                                       *)
(***************************************************************************)

\* A task that nobody has claimed has no deadline and no stamp.
GoodTasks == {r \in TaskRecord : r.status = "pending" => r = NewTask}

\* What the map of key k may hold.
Good(k) ==
  CASE k[1] = "task" -> GoodTasks
    [] k[1] = "coordinator" -> CoordinatorIds
    [] k[1] = "slaSweepLastAt" -> Times

Types == [k \in Keys |-> Good(k)]

DocOK ==
  /\ doc = [g \in Gateways |-> [k \in Keys |-> doc[g][k]]]
  /\ IsDocument(doc, Keys, Types)
  /\ \A g \in Gateways, k \in Keys : doc[g][k].val # Gone

\* Every key has its map, different keys have different names, and no value is Gone.
LEMMA AllKeys ==
  /\ \A t \in Tasks : TaskKey(t) \in Keys /\ TaskKey(t)[1] = "task" /\ TaskKey(t)[2] = t
                        /\ Good(TaskKey(t)) = GoodTasks /\ ValueOf(TaskKey(t)) = TaskRecord
  /\ CoordinatorKey \in Keys /\ CoordinatorKey[1] = "coordinator"
       /\ Good(CoordinatorKey) = CoordinatorIds /\ ValueOf(CoordinatorKey) = CoordinatorIds
  /\ LastKey \in Keys /\ LastKey[1] = "slaSweepLastAt"
       /\ Good(LastKey) = Times /\ ValueOf(LastKey) = Times
  /\ \A k \in Keys : (\E t \in Tasks : k = TaskKey(t)) \/ k = CoordinatorKey \/ k = LastKey
BY DEF Keys, TaskKey, CoordinatorKey, LastKey, Good, ValueOf

LEMMA KeyNames ==
  /\ \A t, u : /\ TaskKey(t) # CoordinatorKey /\ TaskKey(t) # LastKey
               /\ TaskKey(t) = TaskKey(u) => t = u
  /\ CoordinatorKey # LastKey
BY DEF TaskKey, CoordinatorKey, LastKey

LEMMA NotGone == \A k \in Keys : Gone \notin Good(k)
<1>1. Gone \notin GoodTasks /\ Gone \notin CoordinatorIds /\ Gone \notin Times
  BY GoneAssumption DEF GoodTasks
<1> QED BY <1>1, AllKeys

\* What a replica holds.
LEMMA HeldValues ==
  ASSUME DocOK, NEW g \in Gateways
  PROVE  /\ \A t \in Tasks : Task(g, t) \in GoodTasks
         /\ Coordinator(g) \in CoordinatorIds /\ LastSweep(g) \in Times
<1>1. \A k \in Keys : doc[g][k].val \in Good(k)
  BY DEF DocOK, IsDocument, IsEntry, Types
<1> QED BY <1>1, AllKeys DEF Task, Coordinator, LastSweep

\* Gateway g writes f: values that fit, and tasks keep the stamps they have.
LegalWrite(g, f) ==
  /\ Writes(g, f)
  /\ \A k \in Keys : k \in DOMAIN f => f[k] \in Good(k)
  /\ \A t \in Tasks : TaskKey(t) \in DOMAIN f => Task(g, t).stamped \subseteq f[TaskKey(t)].stamped

\* Gateway g writes f, and every breach that is told of a time more is one its replica
\* has no stamp of; it stamps it.
Called(g) ==
  \E f :
    /\ LegalWrite(g, f)
    /\ told' = [t \in Tasks |-> [b \in Breaches |-> told'[t][b]]]
    /\ \A t \in Tasks, b \in Breaches :
         \/ told'[t][b] = told[t][b]
         \/ /\ told'[t][b] = told[t][b] + 1
            /\ b \notin Task(g, t).stamped
            /\ TaskKey(t) \in DOMAIN f /\ b \in f[TaskKey(t)].stamped

\* The entries a legal write leaves.
LEMMA LegalValues ==
  ASSUME DocOK, NEW g \in Gateways, NEW f, LegalWrite(g, f)
  PROVE  /\ DocOK'
         /\ \A h \in Gateways \ {g} : doc'[h] = doc[h]
         /\ \A k \in Keys : Follows(doc'[g][k], doc[g][k])
         /\ \A k \in Keys : k \in DOMAIN f => doc'[g][k].val = f[k]
         /\ \A k \in Keys : k \notin DOMAIN f => doc'[g][k] = doc[g][k]
<1> DEFINE row == [k \in Keys |-> IF k \in DOMAIN f THEN Set(doc[g][k], g, f[k]) ELSE doc[g][k]]
<1>1. doc' = [doc EXCEPT ![g] = [k \in Keys |-> row[k]]]
  BY DEF LegalWrite, Writes, DocOK
<1>2. \A k \in Keys : row[k] = IF k \in DOMAIN f THEN Set(doc[g][k], g, f[k]) ELSE doc[g][k]
  OBVIOUS
<1> HIDE DEF row
<1>3. /\ doc'[g] = [k \in Keys |-> row[k]]
      /\ \A h \in Gateways \ {g} : doc'[h] = doc[h]
      /\ doc' = [h \in Gateways |-> [k \in Keys |-> doc'[h][k]]]
  BY <1>1 DEF DocOK
<1>4. ASSUME NEW k \in Keys
      PROVE  /\ IsEntry(doc'[g][k], Good(k)) /\ doc'[g][k].val # Gone
             /\ Follows(doc'[g][k], doc[g][k])
             /\ k \in DOMAIN f => doc'[g][k].val = f[k]
             /\ k \notin DOMAIN f => doc'[g][k] = doc[g][k]
  <2>1. IsEntry(doc[g][k], Good(k)) /\ doc[g][k].val # Gone
    BY DEF DocOK, IsDocument, Types
  <2>2. doc'[g][k] = row[k]
    BY <1>3
  <2>3. CASE k \in DOMAIN f
    <3>1. doc'[g][k] = Set(doc[g][k], g, f[k]) /\ f[k] \in Good(k) /\ f[k] # Gone
      BY <1>2, <2>2, <2>3, NotGone DEF LegalWrite
    <3> QED BY <2>1, <2>3, <3>1, SetEntry, WritesFollow
  <2>4. CASE k \notin DOMAIN f
    <3>1. doc'[g][k] = doc[g][k]
      BY <1>2, <2>2, <2>4
    <3> QED BY <2>1, <2>4, <3>1 DEF Follows
  <2> QED BY <2>3, <2>4
<1>5. DocOK'
  <2>1. ASSUME NEW h \in Gateways, NEW k \in Keys
        PROVE  IsEntry(doc'[h][k], Good(k)) /\ doc'[h][k].val # Gone
    <3>1. CASE h = g
      BY <1>4, <3>1
    <3>2. CASE h # g
      BY <1>3, <3>2 DEF DocOK, IsDocument, Types
    <3> QED BY <3>1, <3>2
  <2> QED BY <1>3, <2>1 DEF DocOK, IsDocument, Types
<1> QED BY <1>3, <1>4, <1>5

\* What receiving brings.
LEMMA ReceivedValues ==
  ASSUME DocOK, NEW g \in Gateways, NEW h \in Gateways, Receive(g, h)
  PROVE  DocOK' /\ Brings(doc, doc', Keys, g, h)
<1>1. /\ doc' = [x \in Gateways |-> [k \in Keys |-> doc'[x][k]]]
      /\ \A x \in Gateways \ {h} : doc'[x] = doc[x]
      /\ \A k \in Keys : doc'[h][k] = Merge(doc[h][k], doc[g][k])
  BY DEF Receive, DocOK
<1>2. ASSUME NEW k \in Keys
      PROVE  IsEntry(doc'[h][k], Good(k)) /\ doc'[h][k].val # Gone
  <2>1. /\ IsEntry(doc[h][k], Good(k)) /\ doc[h][k].val # Gone
        /\ IsEntry(doc[g][k], Good(k)) /\ doc[g][k].val # Gone
    BY DEF DocOK, IsDocument, Types
  <2>2. doc'[h][k] = Merge(doc[h][k], doc[g][k])
    BY <1>1
  <2> QED BY <2>1, <2>2, MergeEntry
<1>3. ASSUME NEW x \in Gateways, NEW k \in Keys
      PROVE  IsEntry(doc'[x][k], Good(k)) /\ doc'[x][k].val # Gone
  <2>1. CASE x = h
    BY <1>2, <2>1
  <2>2. CASE x # h
    BY <1>1, <2>2 DEF DocOK, IsDocument, Types
  <2> QED BY <2>1, <2>2
<1> QED BY <1>1, <1>3 DEF DocOK, IsDocument, Types, Brings

-----------------------------------------------------------------------------
(***************************************************************************)
(* Every call and every sweep writes legally.                              *)
(***************************************************************************)

ToldOK == told \in [Tasks -> [Breaches -> Nat]]

\* A call on one task that keeps its stamps.
LEMMA OneTaskCalls ==
  ASSUME ToldOK, NEW g \in Gateways, NEW t \in Tasks, NEW r \in GoodTasks,
         Task(g, t).stamped \subseteq r.stamped, WritesTask(g, t, r), UNCHANGED told
  PROVE  Called(g)
<1> DEFINE f == [k \in {TaskKey(t)} |-> r]
<1>1. Writes(g, f) /\ DOMAIN f = {TaskKey(t)} /\ f[TaskKey(t)] = r
  BY DEF WritesTask
<1> HIDE DEF f
<1>2. \A k \in Keys : k \in DOMAIN f => f[k] \in Good(k)
  BY <1>1, AllKeys
<1>3. \A u \in Tasks : TaskKey(u) \in DOMAIN f => Task(g, u).stamped \subseteq f[TaskKey(u)].stamped
  BY <1>1, KeyNames
<1>4. LegalWrite(g, f)
  BY <1>1, <1>2, <1>3 DEF LegalWrite
<1>5. told' = [u \in Tasks |-> [b \in Breaches |-> told'[u][b]]]
  BY DEF ToldOK
<1> QED BY <1>4, <1>5 DEF Called

\* A claim, an update and the end of a task.
LEMMA TaskCalls ==
  ASSUME DocOK, ToldOK, now \in Nat, NEW g \in Gateways, NEW t \in Tasks,
         Claim(g, t) \/ Progress(g, t) \/ Close(g, t)
  PROVE  Called(g)
<1> DEFINE r == Task(g, t)
<1>1. r \in GoodTasks /\ r \in TaskRecord
  BY HeldValues DEF GoodTasks
<1>2. UNCHANGED told
  BY DEF Claim, Progress, Close
<1>3. NewTask \in TaskRecord /\ NewTask.stamped = {}
  BY DEF NewTask, TaskRecord, Times
<1>4. CASE Claim(g, t)
  <2> DEFINE s == IF t \in Contract
                  THEN [status |-> "active", due |-> Deadlines, stamped |-> {}]
                  ELSE [r EXCEPT !.status = "active"]
  <2>1. WritesTask(g, t, s) /\ r = NewTask
    BY <1>1, <1>4 DEF Claim, GoodTasks
  <2>2. Deadlines \in [Breaches -> Times]
    <3>1. /\ AcceptWithin \in Times
          /\ now + ProgressWithin \in Times /\ now + CompleteWithin \in Times
      BY SweepAssumption DEF Times
    <3> QED BY <3>1 DEF Deadlines, Breaches
  <2>3. s \in GoodTasks
    <3>1. CASE t \in Contract
      BY <2>2, <3>1 DEF GoodTasks, TaskRecord
    <3>2. CASE t \notin Contract
      <4>1. [r EXCEPT !.status = "active"] \in TaskRecord /\ [r EXCEPT !.status = "active"].status = "active"
        BY <1>1 DEF TaskRecord
      <4> QED BY <3>2, <4>1 DEF GoodTasks
    <3> QED BY <3>1, <3>2
  <2> HIDE DEF s
  <2> QED BY <1>2, <1>3, <2>1, <2>3, OneTaskCalls
<1>5. CASE Progress(g, t)
  <2> DEFINE d == r.due["progress"]
             new == Max({now + ProgressWithin} \union ({d} \ {Never}))
             s == [r EXCEPT !.status = "active", !.due["progress"] = new]
  <2>1. WritesTask(g, t, s)
    BY <1>5 DEF Progress, Progressed
  <2>2. d \in Times /\ "progress" \in Breaches
    BY <1>1 DEF TaskRecord, Breaches
  <2>3. new \in Times
    <3>1. now + ProgressWithin \in Nat
      BY SweepAssumption
    <3>2. CASE d = Never
      <4>1. new = Max({now + ProgressWithin, now + ProgressWithin})
        BY <3>2
      <4> QED BY <3>1, <4>1, MaxOfTwo DEF Times
    <3>3. CASE d # Never
      <4>1. new = Max({now + ProgressWithin, d}) /\ d \in Nat
        BY <2>2, <3>3 DEF Times
      <4> QED BY <3>1, <4>1, MaxOfTwo DEF Times
    <3> QED BY <3>2, <3>3
  <2> HIDE DEF new
  <2>4. s \in GoodTasks /\ s.stamped = r.stamped
    BY <1>1, <2>2, <2>3 DEF GoodTasks, TaskRecord
  <2> HIDE DEF s
  <2> QED BY <1>2, <2>1, <2>4, OneTaskCalls
<1>6. CASE Close(g, t)
  <2> DEFINE s == [r EXCEPT !.status = "closed"]
  <2>1. WritesTask(g, t, s)
    BY <1>6 DEF Close
  <2>2. s \in GoodTasks /\ s.stamped = r.stamped
    BY <1>1 DEF GoodTasks, TaskRecord
  <2> HIDE DEF s
  <2> QED BY <1>2, <2>1, <2>2, OneTaskCalls
<1> QED BY <1>4, <1>5, <1>6

\* The role of the coordinator moves.
LEMMA SetCoordinatorCalls ==
  ASSUME DocOK, ToldOK, NEW g \in Gateways, NEW c \in CoordinatorIds, SetCoordinator(g, c)
  PROVE  Called(g)
<1> DEFINE f == [k \in {CoordinatorKey} |-> c]
<1>1. Writes(g, f) /\ DOMAIN f = {CoordinatorKey} /\ f[CoordinatorKey] = c /\ UNCHANGED told
  BY DEF SetCoordinator
<1> HIDE DEF f
<1>2. LegalWrite(g, f)
  BY <1>1, AllKeys, KeyNames DEF LegalWrite
<1>3. told' = [u \in Tasks |-> [b \in Breaches |-> told'[u][b]]]
  BY <1>1 DEF ToldOK
<1> QED BY <1>1, <1>2, <1>3 DEF Called

\* What a task has missed it is past the pending of, and has no stamp of.
LEMMA MissedTasks ==
  ASSUME DocOK, NEW g \in Gateways, NEW t \in Tasks, NEW b \in Missed(g, t)
  PROVE  Task(g, t).status # "pending" /\ b \in Breaches /\ b \notin Task(g, t).stamped
<1>1. /\ Task(g, t).status = "pending" => b = "accept" /\ Task(g, t) = NewTask
      /\ b \in Breaches /\ b \notin Task(g, t).stamped /\ Task(g, t).due[b] # Never
  BY HeldValues DEF Missed, GoodTasks
<1>2. \A d \in Breaches : NewTask.due[d] = Never
  BY DEF NewTask
<1> QED BY <1>1, <1>2

\* A sweep tells of what is missed, once, and stamps all of it; it sends the messages
\* of fewer breaches than would exceed the budget by a whole one.
LEMMA SweepCalls ==
  ASSUME DocOK, ToldOK, largest \in Nat, NEW g \in Gateways, NEW n \in Nat, n <= Len(TaskOrder),
         NEW budget \in Nat, NEW last \in SUBSET {LastKey}, now \in Nat,
         RunSlaSweep(g, n, budget, last)
  PROVE  /\ Called(g) /\ ToldOK'
         /\ largest' \in Nat /\ (largest' = largest \/ largest' < budget + MostRecipients)
<1> DEFINE ms == MissedChecks(g, n)
           ts == {Check[i][1] : i \in ms}
           hits == Told(ms, budget)
           w == [k \in last \union {TaskKey(t) : t \in ts} |->
                   IF k \in last THEN now
                   ELSE [doc[g][k].val EXCEPT !.stamped = @ \union Stamps(k[2], ms)]]
           of(t, b) == {i \in hits : Check[i] = <<t, b>>}
           sent == Emitted(hits)[Len(Check)]
<1>1. /\ Writes(g, w)
      /\ told' = [t \in Tasks |-> [b \in Breaches |-> told[t][b] + Cardinality(of(t, b))]]
      /\ largest' = Max({largest, sent})
  BY DEF RunSlaSweep
<1>2. /\ ms \subseteq DOMAIN Check /\ hits \subseteq ms
      /\ \A i \in ms : Check[i][1] \in Tasks /\ Check[i][2] \in Missed(g, Check[i][1])
  BY ChecksAre DEF MissedChecks, Told
<1>3. sent \in Nat /\ sent < budget + MostRecipients
  BY SweepKeepsBudget
<1>4. largest' \in Nat /\ (largest' = largest \/ largest' < budget + MostRecipients)
  <2> HIDE DEF sent
  <2> QED BY <1>1, <1>3, MaxOfTwo
<1> HIDE DEF ms, hits, sent
<1>5. DOMAIN w = last \union {TaskKey(t) : t \in ts}
  OBVIOUS
<1>6. ts \subseteq Tasks
  BY <1>2
<1>7. \A k \in last : k = LastKey /\ w[k] = now /\ now \in Times
  BY DEF Times
<1>8. ASSUME NEW t \in Tasks
      PROVE  /\ TaskKey(t) \in DOMAIN w <=> t \in ts
             /\ t \in ts => w[TaskKey(t)] = [Task(g, t) EXCEPT !.stamped = @ \union Stamps(t, ms)]
  <2>1. TaskKey(t) \notin last /\ TaskKey(t)[2] = t
    BY AllKeys, KeyNames
  <2>2. TaskKey(t) \in DOMAIN w <=> t \in ts
    BY <1>5, <2>1, KeyNames
  <2>3. t \in ts => w[TaskKey(t)] = [doc[g][TaskKey(t)].val EXCEPT !.stamped = @ \union Stamps(t, ms)]
    BY <2>1
  <2> HIDE DEF w, ts
  <2> QED BY <2>2, <2>3 DEF Task
<1> HIDE DEF w, ts
<1>9. \A t, b : b \in Stamps(t, ms) => b \in Breaches /\ \E i \in ms : Check[i][1] = t /\ Check[i][2] = b
  BY <1>2, ChecksAre DEF Stamps
<1>10. ASSUME NEW t \in ts
       PROVE  /\ w[TaskKey(t)] \in GoodTasks
              /\ w[TaskKey(t)].stamped = Task(g, t).stamped \union Stamps(t, ms)
  <2>1. t \in Tasks /\ Task(g, t) \in GoodTasks
    BY <1>6, HeldValues
  <2>2. Task(g, t).status # "pending"
    <3>1. PICK i \in ms : t = Check[i][1]
      BY DEF ts
    <3> QED BY <1>2, <3>1, MissedTasks
  <2>3. Stamps(t, ms) \subseteq Breaches
    BY <1>9
  <2>4. ASSUME NEW r \in GoodTasks, r.status # "pending", NEW B \in SUBSET Breaches
        PROVE  /\ [r EXCEPT !.stamped = @ \union B] \in GoodTasks
               /\ [r EXCEPT !.stamped = @ \union B].stamped = r.stamped \union B
    BY <2>4 DEF GoodTasks, TaskRecord
  <2> QED BY <1>8, <2>1, <2>2, <2>3, <2>4
<1>11. LegalWrite(g, w)
  <2>1. ASSUME NEW k \in Keys, k \in DOMAIN w
        PROVE  w[k] \in Good(k)
    <3>1. CASE k = LastKey
      BY <1>5, <1>7, <2>1, <3>1, AllKeys, KeyNames
    <3>2. CASE k # LastKey
      <4>1. PICK t \in ts : k = TaskKey(t)
        BY <1>5, <1>7, <2>1, <3>2
      <4> QED BY <1>6, <1>10, <4>1, AllKeys
    <3> QED BY <3>1, <3>2
  <2>2. \A t \in Tasks : TaskKey(t) \in DOMAIN w => Task(g, t).stamped \subseteq w[TaskKey(t)].stamped
    BY <1>8, <1>10
  <2> QED BY <1>1, <2>1, <2>2 DEF LegalWrite
<1>12. ASSUME NEW t \in Tasks, NEW b \in Breaches
       PROVE  \/ Cardinality(of(t, b)) = 0
              \/ /\ Cardinality(of(t, b)) = 1
                 /\ b \notin Task(g, t).stamped
                 /\ TaskKey(t) \in DOMAIN w /\ b \in w[TaskKey(t)].stamped
  <2>1. CASE of(t, b) = {}
    BY <2>1, FS_EmptySet
  <2>2. CASE of(t, b) # {}
    <3>1. PICK i \in hits : Check[i] = <<t, b>>
      BY <2>2
    <3>2. of(t, b) = {i}
      BY <1>2, <3>1, ChecksAre
    <3>3. Cardinality(of(t, b)) = 1
      BY <3>2, FS_Singleton
    <3>4. i \in ms /\ Check[i][1] = t /\ Check[i][2] = b
      BY <1>2, <3>1
    <3>5. b \notin Task(g, t).stamped
      BY <1>2, <3>4, MissedTasks
    <3>6. t \in ts /\ b \in Stamps(t, ms)
      BY <3>4 DEF ts, Stamps
    <3> QED BY <1>8, <1>10, <3>3, <3>5, <3>6
  <2> QED BY <2>1, <2>2
<1> HIDE DEF of
<1>13. /\ \A t \in Tasks, b \in Breaches : told[t][b] \in Nat /\ told'[t][b] = told[t][b] + Cardinality(of(t, b))
       /\ told' = [t \in Tasks |-> [b \in Breaches |-> told'[t][b]]]
  BY <1>1 DEF ToldOK
<1>14. ASSUME NEW t \in Tasks, NEW b \in Breaches
       PROVE  /\ told'[t][b] \in Nat
              /\ \/ told'[t][b] = told[t][b]
                 \/ /\ told'[t][b] = told[t][b] + 1
                    /\ b \notin Task(g, t).stamped
                    /\ TaskKey(t) \in DOMAIN w /\ b \in w[TaskKey(t)].stamped
  BY <1>12, <1>13
<1>15. ToldOK'
  BY <1>13, <1>14 DEF ToldOK
<1>16. Called(g)
  BY <1>11, <1>13, <1>14 DEF Called
<1> QED BY <1>4, <1>15, <1>16

-----------------------------------------------------------------------------
(***************************************************************************)
(* Types, and the limit on messages.                                       *)
(***************************************************************************)

TInv ==
  /\ DocOK /\ ToldOK
  /\ now \in 0..MaxTime /\ writes \in 0..MaxWrites /\ raced \in BOOLEAN
  /\ largest \in Nat /\ largest < MaxMessages + MostRecipients

\* Why a step may have raced: it was made on a replica that had not received everything.
RacesAre(g) == \E h \in Gateways, k \in Keys : ~Includes(doc[g][k], doc[h][k])

\* A step is a call, or receiving, or nothing to the document and what was told.
LEMMA StepsAre ==
  ASSUME TInv, [Next]_vars
  PROVE  /\ \/ \E g \in Gateways : Called(g) /\ raced' = (raced \/ RacesAre(g))
            \/ \E g, h \in Gateways : Receive(g, h) /\ UNCHANGED <<told, raced>>
            \/ UNCHANGED <<doc, told, raced>>
         /\ ToldOK'
         /\ now' \in 0..MaxTime /\ writes' \in 0..MaxWrites
         /\ largest' \in Nat /\ largest' < MaxMessages + MostRecipients
<1>1. /\ DocOK /\ ToldOK /\ now \in Nat /\ largest \in Nat
      /\ now \in 0..MaxTime /\ writes \in 0..MaxWrites /\ largest < MaxMessages + MostRecipients
      /\ MaxMessages \in Nat /\ MaxTime \in Nat /\ MaxWrites \in Nat
  BY SweepAssumption DEF TInv
<1>2. UNCHANGED told => ToldOK'
  BY <1>1 DEF ToldOK
<1>3. Acts => writes' \in 0..MaxWrites
  BY <1>1 DEF Acts
<1>4. \A g, f : Writes(g, f) => raced' = (raced \/ RacesAre(g))
  BY DEF Writes, RacesAre
<1>5. ASSUME NEW g \in Gateways, NEW t \in Tasks, Claim(g, t) \/ Progress(g, t) \/ Close(g, t)
      PROVE  /\ Called(g) /\ raced' = (raced \/ RacesAre(g)) /\ Acts
             /\ UNCHANGED <<now, told, largest>>
  <2>1. Called(g)
    BY <1>1, <1>5, TaskCalls
  <2> QED BY <1>4, <1>5, <2>1 DEF Claim, Progress, Close, WritesTask
<1>6. ASSUME NEW g \in Gateways, NEW c \in CoordinatorIds, SetCoordinator(g, c)
      PROVE  /\ Called(g) /\ raced' = (raced \/ RacesAre(g)) /\ Acts
             /\ UNCHANGED <<now, told, largest>>
  <2>1. Called(g)
    BY <1>1, <1>6, SetCoordinatorCalls
  <2> QED BY <1>4, <1>6, <2>1 DEF SetCoordinator
<1>7. ASSUME NEW g \in Gateways, NEW n \in Nat, n <= Len(TaskOrder), NEW budget \in Nat,
             budget <= MaxMessages, NEW last \in SUBSET {LastKey}, RunSlaSweep(g, n, budget, last)
      PROVE  /\ Called(g) /\ raced' = (raced \/ RacesAre(g)) /\ ToldOK' /\ UNCHANGED now
             /\ largest' \in Nat /\ largest' < MaxMessages + MostRecipients
  <2>1. /\ Called(g) /\ ToldOK'
        /\ largest' \in Nat /\ (largest' = largest \/ largest' < budget + MostRecipients)
    BY <1>1, <1>7, SweepCalls
  <2>2. largest' < MaxMessages + MostRecipients
    BY <1>1, <1>7, <2>1, MostRecipientsIs
  <2>3. raced' = (raced \/ RacesAre(g)) /\ UNCHANGED now
    BY <1>4, <1>7 DEF RunSlaSweep
  <2> QED BY <2>1, <2>2, <2>3
<1>8. Len(TaskOrder) \in Nat /\ \A n \in DOMAIN TaskOrder : n \in Nat /\ n <= Len(TaskOrder)
  BY SweepAssumption
<1>9. CASE \E g \in Gateways, t \in Tasks : Claim(g, t) \/ Progress(g, t) \/ Close(g, t)
  BY <1>1, <1>2, <1>3, <1>5, <1>9
<1>10. CASE \E g \in Gateways, c \in CoordinatorIds : SetCoordinator(g, c)
  BY <1>1, <1>2, <1>3, <1>6, <1>10
<1>11. CASE Receives
  BY <1>1, <1>2, <1>11 DEF Receives, Receive
<1>12. CASE ServiceSweeps
  <2>1. PICK g \in Gateways : RunSlaSweep(g, Len(TaskOrder), MaxMessages, {LastKey}) /\ UNCHANGED writes
    BY <1>12 DEF ServiceSweeps, ServiceSweep
  <2> QED BY <1>1, <1>7, <1>8, <2>1
<1>13. CASE \E g \in Gateways, n \in DOMAIN TaskOrder, budget \in {0, MaxMessages} :
              ManualSweep(g, n, budget)
  <2>1. PICK g \in Gateways, n \in DOMAIN TaskOrder, budget \in {0, MaxMessages} :
          RunSlaSweep(g, n, budget, {}) /\ Acts
    BY <1>13 DEF ManualSweep
  <2>2. budget \in Nat /\ budget <= MaxMessages
    BY <1>1
  <2> QED BY <1>1, <1>3, <1>7, <1>8, <2>1, <2>2
<1>14. CASE Tick
  BY <1>1, <1>2, <1>14 DEF Tick
<1>15. CASE UNCHANGED vars
  BY <1>1, <1>2, <1>15 DEF vars
<1> QED BY <1>9, <1>10, <1>11, <1>12, <1>13, <1>14, <1>15 DEF Next

LEMMA CalledKeepsDoc ==
  ASSUME DocOK, NEW g \in Gateways, Called(g)
  PROVE  DocOK'
BY LegalValues DEF Called

LEMMA NextTInv ==
  ASSUME TInv, [Next]_vars
  PROVE  TInv'
<1>1. DocOK'
  <2>1. CASE UNCHANGED <<doc, told, raced>>
    BY <2>1 DEF TInv, DocOK, IsDocument
  <2> QED BY <2>1, StepsAre, CalledKeepsDoc, ReceivedValues DEF TInv
<1>2. raced' \in BOOLEAN
  BY StepsAre DEF TInv, RacesAre
<1> QED BY <1>1, <1>2, StepsAre DEF TInv

LEMMA InitTInv == Init => TInv
<1>1. SUFFICES ASSUME Init
               PROVE  TInv
  OBVIOUS
<1>2. PICK c \in CoordinatorIds :
        doc = [g \in Gateways |-> [k \in Keys |->
                 First(CASE k[1] = "task" -> NewTask
                         [] k[1] = "coordinator" -> c
                         [] k[1] = "slaSweepLastAt" -> Never)]]
  BY <1>1 DEF Init
<1>3. NewTask \in GoodTasks
  BY DEF NewTask, GoodTasks, TaskRecord, Times
<1>4. \A g \in Gateways : /\ \A t \in Tasks : doc[g][TaskKey(t)] = First(NewTask)
                          /\ doc[g][CoordinatorKey] = First(c)
                          /\ doc[g][LastKey] = First(Never)
  BY <1>2, AllKeys
<1>5. ASSUME NEW g \in Gateways, NEW k \in Keys
      PROVE  IsEntry(doc[g][k], Good(k)) /\ doc[g][k].val # Gone
  <2>1. PICK v \in Good(k) : doc[g][k] = First(v)
    BY <1>3, <1>4, AllKeys DEF Times
  <2>2. doc[g][k].val = v
    BY <2>1 DEF First
  <2> QED BY <2>1, <2>2, FirstEntry, NotGone
<1>6. DocOK
  <2> DEFINE start(k) == First(CASE k[1] = "task" -> NewTask
                                 [] k[1] = "coordinator" -> c
                                 [] k[1] = "slaSweepLastAt" -> Never)
  <2>1. doc = [g \in Gateways |-> [k \in Keys |-> start(k)]]
    BY <1>2
  <2> HIDE DEF start
  <2>2. doc = [g \in Gateways |-> [k \in Keys |-> doc[g][k]]]
    BY <2>1
  <2> QED BY <1>5, <2>2 DEF DocOK, IsDocument, Types
<1>7. ToldOK
  BY <1>1 DEF Init, ToldOK
<1>8. 0 < MaxMessages + MostRecipients /\ 0 \in 0..MaxTime /\ 0 \in 0..MaxWrites
  BY MostRecipientsIs, SweepAssumption
<1> QED BY <1>1, <1>6, <1>7, <1>8 DEF Init, TInv

THEOREM WellTyped == Spec => []TInv
<1>1. TInv /\ [Next]_vars => TInv'
  BY NextTInv
<1> QED BY InitTInv, <1>1, PTL DEF Spec

\* Every variable has its type; no task, no role and no time is ever deleted.
THEOREM TypeCorrect == Spec => []TypeOK
<1>1. ASSUME TInv
      PROVE  TypeOK
  <2>1. ASSUME NEW g \in Gateways, NEW k \in Keys
        PROVE  IsEntry(doc[g][k], ValueOf(k)) /\ doc[g][k].val # Gone
    <3>1. IsEntry(doc[g][k], Good(k)) /\ doc[g][k].val # Gone
      BY <1>1 DEF TInv, DocOK, IsDocument, Types
    <3>2. Good(k) \subseteq ValueOf(k)
      BY AllKeys DEF GoodTasks
    <3> QED BY <3>1, <3>2 DEF IsEntry
  <2> QED BY <1>1, <2>1 DEF TInv, ToldOK, TypeOK
<1> QED BY WellTyped, <1>1, PTL

\* However many deadlines a sweep finds missed, it exceeds the limit on messages by
\* less than the recipients of one breach (runSlaSweep in src/sla.ts).
THEOREM SweepsNearBudget == Spec => []BudgetNearlyKept
<1>1. TInv => BudgetNearlyKept
  BY DEF TInv, BudgetNearlyKept, MostRecipients
<1> QED BY WellTyped, <1>1, PTL

-----------------------------------------------------------------------------
(***************************************************************************)
(* Told once.  As long as nothing races, every sweep is made on the latest *)
(* state of the document, and what was told of is stamped there.           *)
(***************************************************************************)

\* People were told at most once, and of nothing that gateway y has no stamp of.
ToldIsStamped(y) ==
  \A t \in Tasks, b \in Breaches :
    told[t][b] \in {0, 1} /\ (told[t][b] = 1 => b \in Task(y, t).stamped)

LatestInv ==
  ~raced => /\ IsChain(doc, Keys)
            /\ \E y \in Gateways : IsLatest(doc, Keys, y) /\ ToldIsStamped(y)

\* A call that does not race is made on the latest state, and makes the next.
LEMMA CallKeepsLatest ==
  ASSUME TInv, TInv', LatestInv, NEW g \in Gateways, Called(g), raced' = (raced \/ RacesAre(g))
  PROVE  LatestInv'
<1>1. SUFFICES ASSUME ~raced'
               PROVE  /\ IsChain(doc', Keys)
                      /\ \E y \in Gateways : IsLatest(doc', Keys, y) /\ ToldIsStamped(y)'
  BY DEF LatestInv
<1>2. ~raced /\ ~RacesAre(g) /\ DocOK /\ DocOK'
  BY <1>1 DEF TInv
<1>3. PICK y \in Gateways : IsLatest(doc, Keys, y) /\ ToldIsStamped(y)
  BY <1>2 DEF LatestInv
<1>4. IsChain(doc, Keys) /\ IsDocument(doc, Keys, Types) /\ IsDocument(doc', Keys, Types)
  BY <1>2 DEF LatestInv, DocOK
<1>5. \A h \in Gateways, k \in Keys : Merge(doc[g][k], doc[h][k]) = doc[g][k]
  <2>1. SUFFICES ASSUME NEW h \in Gateways, NEW k \in Keys
                 PROVE  Merge(doc[g][k], doc[h][k]) = doc[g][k]
    OBVIOUS
  <2>2. Includes(doc[g][k], doc[h][k]) /\ doc[h][k].val # Gone
    BY <1>2 DEF RacesAre, DocOK
  <2> QED BY <2>2 DEF Merge
<1>6. IsLatest(doc, Keys, g) /\ \A k \in Keys : doc[g][k] = doc[y][k]
  BY <1>3, <1>4, <1>5, UpToDateIsLatest
<1>7. PICK f :
        /\ LegalWrite(g, f)
        /\ \A t \in Tasks, b \in Breaches :
             \/ told'[t][b] = told[t][b]
             \/ /\ told'[t][b] = told[t][b] + 1
                /\ b \notin Task(g, t).stamped
                /\ TaskKey(t) \in DOMAIN f /\ b \in f[TaskKey(t)].stamped
  BY DEF Called
<1>8. /\ \A h \in Gateways \ {g} : doc'[h] = doc[h]
      /\ \A k \in Keys : Follows(doc'[g][k], doc[g][k])
      /\ \A k \in Keys : k \in DOMAIN f => doc'[g][k].val = f[k]
      /\ \A k \in Keys : k \notin DOMAIN f => doc'[g][k] = doc[g][k]
  BY <1>2, <1>7, LegalValues
<1>9. IsChain(doc', Keys)
  BY <1>4, <1>5, <1>8, WriteKeepsChain
<1>10. IsLatest(doc', Keys, g)
  BY <1>4, <1>6, <1>8, WriteIsLatest
<1>11. ASSUME NEW t \in Tasks, NEW b \in Breaches
       PROVE  told'[t][b] \in {0, 1} /\ (told'[t][b] = 1 => b \in Task(g, t)'.stamped)
  <2>1. /\ TaskKey(t) \in Keys
        /\ TaskKey(t) \in DOMAIN f => Task(g, t)' = f[TaskKey(t)]
        /\ TaskKey(t) \notin DOMAIN f => Task(g, t)' = Task(g, t)
    BY <1>8, AllKeys DEF Task
  <2>2. Task(g, t).stamped \subseteq Task(g, t)'.stamped
    BY <1>7, <2>1 DEF LegalWrite
  <2>3. told[t][b] \in {0, 1} /\ (told[t][b] = 1 => b \in Task(g, t).stamped)
    BY <1>3, <1>6, <2>1 DEF ToldIsStamped, Task
  <2> QED BY <1>7, <2>1, <2>2, <2>3
<1>12. ToldIsStamped(g)'
  BY <1>11 DEF ToldIsStamped
<1> QED BY <1>9, <1>10, <1>12

LEMMA ReceiveKeepsLatestInv ==
  ASSUME TInv, LatestInv, NEW g \in Gateways, NEW h \in Gateways, Receive(g, h),
         UNCHANGED <<told, raced>>
  PROVE  LatestInv'
<1>1. SUFFICES ASSUME ~raced'
               PROVE  /\ IsChain(doc', Keys)
                      /\ \E y \in Gateways : IsLatest(doc', Keys, y) /\ ToldIsStamped(y)'
  BY DEF LatestInv
<1>2. ~raced /\ DocOK /\ IsDocument(doc, Keys, Types)
  BY <1>1 DEF TInv, DocOK
<1>3. IsChain(doc, Keys) /\ Brings(doc, doc', Keys, g, h)
  BY <1>2, ReceivedValues DEF LatestInv
<1>4. PICK y \in Gateways : IsLatest(doc, Keys, y) /\ ToldIsStamped(y)
  BY <1>2 DEF LatestInv
<1>5. IsChain(doc', Keys)
  BY <1>2, <1>3, ReceiveKeepsChain
<1>6. TakesAll(doc, doc', Keys, y, y) /\ IsLatest(doc', Keys, y)
  BY <1>2, <1>3, <1>4, ReceiveKeepsLatest
<1>7. \A t \in Tasks : Task(y, t)' = Task(y, t)
  BY <1>6, AllKeys DEF TakesAll, Task
<1>8. ToldIsStamped(y)'
  BY <1>4, <1>7 DEF ToldIsStamped
<1> QED BY <1>5, <1>6, <1>8

LEMMA NextLatest ==
  ASSUME TInv, TInv', LatestInv, [Next]_vars
  PROVE  LatestInv'
<1>1. CASE UNCHANGED <<doc, told, raced>>
  BY <1>1 DEF LatestInv, ToldIsStamped, Task
<1> QED BY <1>1, StepsAre, CallKeepsLatest, ReceiveKeepsLatestInv

LEMMA InitLatest == Init => LatestInv
<1>1. SUFFICES ASSUME Init
               PROVE  LatestInv
  OBVIOUS
<1>2. \A g, h \in Gateways : doc[g] = doc[h]
  BY <1>1 DEF Init
<1>3. IsChain(doc, Keys)
  BY <1>2, ChainOfEquals
<1>4. PICK y \in Gateways : TRUE
  BY ReplicaAssumption
<1>5. IsLatest(doc, Keys, y)
  BY <1>2 DEF IsLatest, HasAllOf, Follows
<1>6. ToldIsStamped(y)
  BY <1>1 DEF Init, ToldIsStamped
<1> QED BY <1>3, <1>5, <1>6 DEF LatestInv

\* Nobody is told twice of one missed deadline, however often the timers, the tool and
\* the role of the coordinator cross, as long as every write and sweep is made where
\* all earlier ones have been received (runSlaSweep and the service in src/sla.ts).
THEOREM StampsPrevent == Spec => []ToldOnce
<1>1. TInv /\ LatestInv /\ [Next]_vars => (TInv /\ LatestInv)'
  BY NextTInv, NextLatest
<1>2. TInv /\ LatestInv => ToldOnce
  BY DEF LatestInv, ToldIsStamped, ToldOnce
<1> QED BY InitTInv, InitLatest, <1>1, <1>2, PTL DEF Spec
=============================================================================
