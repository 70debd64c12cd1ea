-------------------------- MODULE DispatcherProofs --------------------------
(***************************************************************************)
(* Theorems about Dispatcher, for every set of items, agents and passes.   *)
(***************************************************************************)
EXTENDS Dispatcher, FiniteSetTheorems, TLAPS

DocType ==
  /\ presence \in [Items -> Presence]
  /\ delivery \in [Keys -> DeliveryRecord]
  /\ readBy \subseteq MsgKeys
  /\ status \in [Tasks -> Status]
  /\ claimedBy \in [Tasks -> Agents \union {NoAgent}]
  /\ deadTasks \subseteq Tasks
  /\ skilled \subseteq LocalAgents

\* A key names an item and an agent.
LEMMA KeyParts ==
  ASSUME NEW k \in Keys
  PROVE  /\ k[1] \in Items /\ k[2] \in LocalAgents /\ k = <<k[1], k[2]>>
         /\ k[1] \in Msgs => k \in MsgKeys
         /\ k[1] \in Tasks => k \in TaskKeys
BY DEF Keys, MsgKeys, TaskKeys

\* The records the marks write have the type of a delivery record.
LEMMA RecordTypes ==
  ASSUME NEW n \in Nat
  PROVE  /\ Attempted(n) \in DeliveryRecord
         /\ Delivered(n) \in DeliveryRecord
         /\ DeadLetter(n) \in DeliveryRecord
         /\ NoDelivery \in DeliveryRecord
BY DEF Attempted, Delivered, DeadLetter, NoDelivery, DeliveryRecord

\* Marking an attempt, and the dead letters of the snapshot, keep the delivery
\* table well-typed.
LEMMA MarkAttemptedType ==
  ASSUME NEW d \in [Keys -> DeliveryRecord], NEW k \in Keys
  PROVE  /\ MarkAttempted(d, k) \in [Keys -> DeliveryRecord]
         /\ d[k].attempts \in Nat
<1>1. d[k].attempts \in Nat
  BY DEF DeliveryRecord
<1>2. Attempted(d[k].attempts + 1) \in DeliveryRecord
  BY <1>1, RecordTypes
<1>3. QED
  BY <1>1, <1>2 DEF MarkAttempted

\* Dead-lettering in the snapshot keeps the table well-typed.
LEMMA DeadLetteredType ==
  ASSUME delivery \in [Keys -> DeliveryRecord]
  PROVE  DeadLettered \in [Keys -> DeliveryRecord]
<1>1. ASSUME NEW k \in Keys
      PROVE  DeadLetter(delivery[k].attempts) \in DeliveryRecord
  BY RecordTypes DEF DeliveryRecord
<1>2. QED
  BY <1>1 DEF DeadLettered

\* The part of a step that all pass steps share.
LEMMA ProceedType ==
  ASSUME TypeOK, NEW p \in Passes,
         NEW S \in SUBSET Keys, NEW fl \in SUBSET Keys,
         NEW d \in [Keys -> DeliveryRecord], NEW wrote \in BOOLEAN,
         Proceed(p, S, fl, d, wrote)
  PROVE  /\ todo' \in [Passes -> SUBSET Keys]
         /\ cur' \in [Passes -> Keys \union {NoKey}]
         /\ tries' \in [Passes -> Nat]
         /\ inFlight' \subseteq Keys
         /\ delivery' \in [Keys -> DeliveryRecord]
         /\ queued' \in BOOLEAN
         /\ overlapped' \in BOOLEAN
<1>1. CASE Unskipped(S, fl) = {}
  BY <1>1 DEF Proceed, TypeOK
<1>2. ASSUME NEW k \in Unskipped(S, fl),
             k = First(Unskipped(S, fl)),
             todo' = [todo EXCEPT ![p] = {l \in S : Precedes(k, l)}],
             cur' = [cur EXCEPT ![p] = k],
             delivery' = MarkAttempted(d, k),
             tries' = [tries EXCEPT ![p] = IF presence[k[1]] = "present"
                                           THEN d[k].attempts + 1 ELSE 1],
             inFlight' = fl \union {k},
             queued' = (wrote \/ presence[k[1]] = "present"),
             overlapped' = (overlapped \/ \E q \in Passes \ {p} : cur[q] # NoKey)
      PROVE  /\ todo' \in [Passes -> SUBSET Keys]
             /\ cur' \in [Passes -> Keys \union {NoKey}]
             /\ tries' \in [Passes -> Nat]
             /\ inFlight' \subseteq Keys
             /\ delivery' \in [Keys -> DeliveryRecord]
             /\ queued' \in BOOLEAN
             /\ overlapped' \in BOOLEAN
  <2>1. k \in Keys
    BY DEF Unskipped
  <2>2. delivery' \in [Keys -> DeliveryRecord] /\ d[k].attempts \in Nat
    BY <1>2, <2>1, MarkAttemptedType
  <2>3. tries' \in [Passes -> Nat]
    BY <1>2, <2>2 DEF TypeOK
  <2>4. queued' \in BOOLEAN /\ overlapped' \in BOOLEAN
    BY <1>2
  <2>5. /\ todo' \in [Passes -> SUBSET Keys]
        /\ cur' \in [Passes -> Keys \union {NoKey}]
        /\ inFlight' \subseteq Keys
    BY <1>2, <2>1 DEF TypeOK
  <2>6. QED
    BY <2>2, <2>3, <2>4, <2>5
<1>3. QED
  BY <1>1, <1>2 DEF Proceed

\* The type invariant across the start of a pass.
LEMMA StartPassType == ASSUME TypeOK, NEW p \in Passes, StartPass(p) PROVE TypeOK'
<1>1. Backlog \in SUBSET Keys /\ inFlight \in SUBSET Keys
  BY DEF Backlog, TypeOK
<1>2. DeadLettered \in [Keys -> DeliveryRecord]
  BY DeadLetteredType DEF TypeOK
<1>3. (\E k \in Keys : NewlyDead(k)) \in BOOLEAN
  OBVIOUS
<1>4. Proceed(p, Backlog, inFlight, DeadLettered, \E k \in Keys : NewlyDead(k))
  BY DEF StartPass
<1>5. /\ todo' \in [Passes -> SUBSET Keys]
      /\ cur' \in [Passes -> Keys \union {NoKey}]
      /\ tries' \in [Passes -> Nat]
      /\ inFlight' \subseteq Keys
      /\ delivery' \in [Keys -> DeliveryRecord]
      /\ queued' \in BOOLEAN
      /\ overlapped' \in BOOLEAN
  BY <1>1, <1>2, <1>3, <1>4, ProceedType
<1>6. status' \in [Tasks -> Status] /\ deadTasks' \subseteq Tasks
  BY DEF StartPass, TypeOK, TasksToFail, Status
<1>7. QED
  BY <1>5, <1>6 DEF StartPass, TypeOK

\* The type invariant across a dispatch that completes.
LEMMA FinishType == ASSUME TypeOK, NEW p \in Passes, Finish(p) PROVE TypeOK'
<1> DEFINE k == cur[p]
           live == presence[k[1]] = "present"
           d == IF live THEN [delivery EXCEPT ![k] = Delivered(tries[p])] ELSE delivery
<1>1. k \in Keys /\ tries[p] \in Nat
  BY DEF Finish, TypeOK
<1>2. todo[p] \in SUBSET Keys /\ inFlight \ {k} \in SUBSET Keys
  BY DEF TypeOK
<1>3. d \in [Keys -> DeliveryRecord]
  BY <1>1, RecordTypes DEF TypeOK
<1>4. (queued \/ live) \in BOOLEAN
  OBVIOUS
<1>5. Proceed(p, todo[p], inFlight \ {k}, d, queued \/ live)
  BY DEF Finish
<1> HIDE DEF d, live
<1>6. /\ todo' \in [Passes -> SUBSET Keys]
      /\ cur' \in [Passes -> Keys \union {NoKey}]
      /\ tries' \in [Passes -> Nat]
      /\ inFlight' \subseteq Keys
      /\ delivery' \in [Keys -> DeliveryRecord]
      /\ queued' \in BOOLEAN
      /\ overlapped' \in BOOLEAN
  BY <1>2, <1>3, <1>4, <1>5, ProceedType
<1>7. readBy' \subseteq MsgKeys
  BY DEF Finish, ReadByWith, TypeOK
<1>8. accepted' \in [Keys -> Nat]
  BY <1>1 DEF Finish, TypeOK
<1>9. QED
  BY <1>6, <1>7, <1>8 DEF Finish, TypeOK

\* The type invariant across a dispatch that fails.
LEMMA FailType == ASSUME TypeOK, NEW p \in Passes, Fail(p) PROVE TypeOK'
<1> DEFINE k == cur[p]
           live == presence[k[1]] = "present"
           n == IF delivery[k].state = "none" THEN 1 ELSE delivery[k].attempts
           d == IF live THEN [delivery EXCEPT ![k] = Attempted(n)] ELSE delivery
<1>1. k \in Keys
  BY DEF Fail, TypeOK
<1>2. todo[p] \in SUBSET Keys /\ inFlight \ {k} \in SUBSET Keys
  BY DEF TypeOK
<1>3. n \in Nat
  BY <1>1 DEF TypeOK, DeliveryRecord
<1>4. d \in [Keys -> DeliveryRecord]
  <2> HIDE DEF n
  <2> QED BY <1>1, <1>3, RecordTypes DEF TypeOK
<1>5. (queued \/ live) \in BOOLEAN
  OBVIOUS
<1>6. Proceed(p, todo[p], inFlight \ {k}, d, queued \/ live)
  BY DEF Fail
<1> HIDE DEF d, live, n
<1>7. /\ todo' \in [Passes -> SUBSET Keys]
      /\ cur' \in [Passes -> Keys \union {NoKey}]
      /\ tries' \in [Passes -> Nat]
      /\ inFlight' \subseteq Keys
      /\ delivery' \in [Keys -> DeliveryRecord]
      /\ queued' \in BOOLEAN
      /\ overlapped' \in BOOLEAN
  BY <1>2, <1>4, <1>5, <1>6, ProceedType
<1>8. scheduled' \subseteq Keys
  BY <1>1 DEF Fail, TypeOK
<1>9. QED
  BY <1>7, <1>8 DEF Fail, TypeOK

\* The type invariant across timers, tools, saves and arrivals.
LEMMA EnvironmentType == ASSUME TypeOK, Environment PROVE TypeOK'
<1>1. ASSUME NEW i \in Items, Arrive(i) \/ DeleteItem(i) PROVE TypeOK'
  BY <1>1 DEF TypeOK, Arrive, DeleteItem, Presence, histVars
<1>2. ASSUME NEW m \in Msgs, CleanUp(m) \/ MarkRead(m) PROVE TypeOK'
  BY <1>1, <1>2 DEF TypeOK, CleanUp, MarkRead, Items, histVars
<1>3. ASSUME NEW t \in Tasks, NEW a \in Agents, ClaimTask(t, a) PROVE TypeOK'
  BY <1>3 DEF TypeOK, ClaimTask, Status, histVars
<1>4. ASSUME NEW t \in Tasks, NEW s \in {"claimed", "completed", "failed"}, ReportTask(t, s)
      PROVE TypeOK'
  BY <1>4 DEF TypeOK, ReportTask, Status, histVars
<1>5. ASSUME NEW a \in LocalAgents, AdvertiseSkills(a) PROVE TypeOK'
  BY <1>5 DEF TypeOK, AdvertiseSkills, procVars, histVars
<1>6. QED
  BY <1>1, <1>2, <1>3, <1>4, <1>5 DEF Environment

\* The file always holds a well-typed document, so a restart restores one.
LEMMA CrashType == ASSUME TypeOK, Crash PROVE TypeOK'
<1>1. crashes' \in 0..MaxCrashes
  BY BoundsAssumption DEF TypeOK, Crash
<1>2. QED
  BY <1>1 DEF TypeOK, Crash, RestoreDisk, StopPasses

\* Type correctness: the records of the document, the file and the dispatcher's
\* own sets keep their types in every behaviour.
THEOREM TypeCorrect == Spec => []TypeOK
<1>1. Init => TypeOK
  <2> SUFFICES ASSUME Init PROVE TypeOK
    OBVIOUS
  <2>1. delivery \in [Keys -> DeliveryRecord]
    BY RecordTypes DEF Init
  <2>2. 0 \in 0..MaxCrashes
    BY BoundsAssumption
  <2>3. DocType
    BY <2>1 DEF Init, DocType, Presence, Status
  <2>4. disk = Doc
    BY DEF Init
  <2>5. disk \in [presence : [Items -> Presence],
                  delivery : [Keys -> DeliveryRecord],
                  readBy : SUBSET MsgKeys,
                  status : [Tasks -> Status],
                  claimedBy : [Tasks -> Agents \union {NoAgent}],
                  deadTasks : SUBSET Tasks,
                  skilled : SUBSET LocalAgents]
    BY <2>3, <2>4 DEF DocType, Doc
  <2>6. /\ queued \in BOOLEAN /\ scheduled \subseteq Keys /\ inFlight \subseteq Keys
        /\ todo \in [Passes -> SUBSET Keys]
        /\ cur \in [Passes -> Keys \union {NoKey}]
        /\ tries \in [Passes -> Nat]
        /\ accepted \in [Keys -> Nat]
        /\ overlapped \in BOOLEAN /\ crashes \in 0..MaxCrashes
    BY <2>2 DEF Init
  <2>7. QED
    BY <2>3, <2>5, <2>6 DEF DocType, TypeOK
<1>2. TypeOK /\ [Next]_vars => TypeOK'
  <2> SUFFICES ASSUME TypeOK, [Next]_vars PROVE TypeOK'
    OBVIOUS
  <2>1. ASSUME NEW p \in Passes, StartPass(p) PROVE TypeOK'
    BY <2>1, StartPassType
  <2>2. ASSUME NEW p \in Passes, Finish(p) PROVE TypeOK'
    BY <2>2, FinishType
  <2>3. ASSUME NEW p \in Passes, Fail(p) PROVE TypeOK'
    BY <2>3, FailType
  <2>4. ASSUME NEW k \in Keys, RetryTimer(k) PROVE TypeOK'
    BY <2>4 DEF TypeOK, RetryTimer, docVars, histVars
  <2>5. CASE Heartbeat
    BY <2>5 DEF TypeOK, Heartbeat, docVars, histVars
  <2>6. CASE Environment
    BY <2>6, EnvironmentType
  <2>7. CASE Persist
    BY <2>7 DEF TypeOK, Persist, Doc, docVars, procVars, histVars
  <2>8. CASE Crash
    BY <2>8, CrashType
  <2>9. CASE UNCHANGED vars
    BY <2>9 DEF TypeOK, vars, docVars, procVars, histVars
  <2>10. QED
    BY <2>1, <2>2, <2>3, <2>4, <2>5, <2>6, <2>7, <2>8, <2>9 DEF Next
<1>3. QED
  BY <1>1, <1>2, PTL DEF Spec

-----------------------------------------------------------------------------
(***************************************************************************)
(* Mutual exclusion of the passes.                                         *)
(***************************************************************************)

\* inFlight is what the passes other than p own.
OthersOwn(p, fl) ==
  /\ fl = {cur[q] : q \in Passes \ {p}} \ {NoKey}
  /\ \A q, r \in Passes \ {p} : cur[q] = cur[r] /\ cur[q] # NoKey => q = r

\* Going on to the next item hands the pass a key nobody awaits.
LEMMA ProceedOwned ==
  ASSUME TypeOK, NEW p \in Passes, NEW S \in SUBSET Keys, NEW fl, NEW d, NEW wrote,
         OthersOwn(p, fl), Proceed(p, S, fl, d, wrote)
  PROVE  InFlightOwned'
<1>1. cur \in [Passes -> Keys \union {NoKey}] /\ NoKey \notin Keys
  BY BoundsAssumption DEF TypeOK
<1>2. CASE cur' = [cur EXCEPT ![p] = NoKey] /\ inFlight' = fl
  BY <1>1, <1>2 DEF InFlightOwned, OthersOwn
<1>3. ASSUME NEW k \in S \ fl, cur' = [cur EXCEPT ![p] = k], inFlight' = fl \union {k}
      PROVE  InFlightOwned'
  <2>1. k \in Keys /\ k # NoKey
    BY <1>1
  <2>2. \A q \in Passes \ {p} : cur'[q] = cur[q] /\ cur'[q] # k
    BY <1>1, <1>3, <2>1 DEF OthersOwn
  <2>3. cur'[p] = k
    BY <1>1, <1>3
  <2>4. inFlight' = {cur'[q] : q \in Passes} \ {NoKey}
    BY <1>3, <2>1, <2>2, <2>3 DEF OthersOwn
  <2>5. \A q, r \in Passes : cur'[q] = cur'[r] /\ cur'[q] # NoKey => q = r
    BY <2>2, <2>3 DEF OthersOwn
  <2>6. QED
    BY <2>4, <2>5 DEF InFlightOwned
<1>4. QED
  BY <1>2, <1>3 DEF Proceed, Unskipped

\* Two passes never run the same item for the same agent at the same time, and
\* the in-flight set is exact, so no key is locked out by a pass that has left it.
THEOREM InFlightOwnership == Spec => []InFlightOwned
<1>1. Init => InFlightOwned
  BY DEF Init, InFlightOwned
<1>2. TypeOK /\ InFlightOwned /\ [Next]_vars => InFlightOwned'
  <2> SUFFICES ASSUME TypeOK, InFlightOwned, [Next]_vars PROVE InFlightOwned'
    OBVIOUS
  <2>1. ASSUME NEW p \in Passes, StartPass(p) PROVE InFlightOwned'
    <3>1. OthersOwn(p, inFlight)
      BY <2>1 DEF StartPass, OthersOwn, InFlightOwned
    <3>2. Backlog \in SUBSET Keys
      BY DEF Backlog
    <3>3. QED
      BY <2>1, <3>1, <3>2, ProceedOwned DEF StartPass
  <2>2. ASSUME NEW p \in Passes, Finish(p) \/ Fail(p) PROVE InFlightOwned'
    <3>1. OthersOwn(p, inFlight \ {cur[p]})
      BY <2>2 DEF Finish, Fail, OthersOwn, InFlightOwned
    <3>2. todo[p] \in SUBSET Keys
      BY DEF TypeOK
    <3>3. QED
      BY <2>2, <3>1, <3>2, ProceedOwned DEF Finish, Fail
  <2>3. CASE Crash
    BY <2>3 DEF Crash, StopPasses, InFlightOwned
  <2>4. CASE UNCHANGED <<cur, inFlight>>
    BY <2>4 DEF InFlightOwned
  <2>5. QED
    BY <2>1, <2>2, <2>3, <2>4
       DEF Next, RetryTimer, Heartbeat, Environment, Arrive, DeleteItem, CleanUp, MarkRead,
           ClaimTask, ReportTask, AdvertiseSkills, Persist, procVars, vars
<1>3. QED
  BY <1>1, <1>2, TypeCorrect, PTL DEF Spec

-----------------------------------------------------------------------------
(***************************************************************************)
(* What a delivery record means.                                           *)
(***************************************************************************)

\* Going on to the next item turns no record into a delivered one.
LEMMA ProceedDelivers ==
  ASSUME NEW p \in Passes, NEW S \in SUBSET Keys, NEW fl, NEW wrote,
         NEW d \in [Keys -> DeliveryRecord], Proceed(p, S, fl, d, wrote),
         NEW l \in Keys, delivery'[l].state = "delivered"
  PROVE  d[l].state = "delivered"
<1>1. CASE delivery' = d
  BY <1>1
<1>2. ASSUME NEW k \in S, delivery' = MarkAttempted(d, k)
      PROVE  d[l].state = "delivered"
  BY <1>2 DEF MarkAttempted, Attempted
<1>3. QED
  BY <1>1, <1>2 DEF Proceed, Unskipped

\* Dead-lettering in the snapshot does not either.
LEMMA DeadLettersNotDelivered ==
  ASSUME NEW l \in Keys, DeadLettered[l].state = "delivered"
  PROVE  delivery[l].state = "delivered"
BY DEF DeadLettered, DeadLetter

\* Every record of the next state that says "delivered" said so before, or is the
\* one Finish writes for the key it has awaited.
LEMMA DeliveredStep ==
  ASSUME TypeOK, Next, ~Crash, NEW l \in Keys, delivery'[l].state = "delivered"
  PROVE  \/ delivery[l].state = "delivered"
         \/ \E p \in Passes : Finish(p) /\ l = cur[p] /\ presence[l[1]] = "present"
<1>1. ASSUME NEW p \in Passes, StartPass(p) PROVE delivery[l].state = "delivered"
  <2>1. DeadLettered \in [Keys -> DeliveryRecord] /\ Backlog \in SUBSET Keys
    BY DeadLetteredType DEF TypeOK, Backlog
  <2>2. DeadLettered[l].state = "delivered"
    BY <1>1, <2>1, ProceedDelivers DEF StartPass
  <2>3. QED
    BY <2>2, DeadLettersNotDelivered
<1>2. ASSUME NEW p \in Passes, Finish(p)
      PROVE  \/ delivery[l].state = "delivered"
             \/ l = cur[p] /\ presence[l[1]] = "present"
  <2> DEFINE live == presence[cur[p][1]] = "present"
             d == IF live THEN [delivery EXCEPT ![cur[p]] = Delivered(tries[p])] ELSE delivery
  <2>1. cur[p] \in Keys /\ tries[p] \in Nat /\ todo[p] \in SUBSET Keys
    BY <1>2 DEF Finish, TypeOK
  <2>2. d \in [Keys -> DeliveryRecord]
    BY <2>1, RecordTypes DEF TypeOK
  <2>3. Proceed(p, todo[p], inFlight \ {cur[p]}, d, queued \/ live)
    BY <1>2 DEF Finish
  <2>4. d[l].state = "delivered"
    <3> HIDE DEF d, live
    <3> QED BY <2>1, <2>2, <2>3, ProceedDelivers
  <2>5. QED
    BY <2>1, <2>4 DEF TypeOK
<1>3. ASSUME NEW p \in Passes, Fail(p) PROVE delivery[l].state = "delivered"
  <2> DEFINE live == presence[cur[p][1]] = "present"
             n == IF delivery[cur[p]].state = "none" THEN 1 ELSE delivery[cur[p]].attempts
             d == IF live THEN [delivery EXCEPT ![cur[p]] = Attempted(n)] ELSE delivery
  <2>1. cur[p] \in Keys /\ todo[p] \in SUBSET Keys
    BY <1>3 DEF Fail, TypeOK
  <2>2. n \in Nat
    BY <2>1 DEF TypeOK, DeliveryRecord
  <2>3. d \in [Keys -> DeliveryRecord]
    <3> HIDE DEF n
    <3> QED BY <2>1, <2>2, RecordTypes DEF TypeOK
  <2>4. Proceed(p, todo[p], inFlight \ {cur[p]}, d, queued \/ live)
    BY <1>3 DEF Fail
  <2>5. d[l].state = "delivered"
    <3> HIDE DEF d, live, n
    <3> QED BY <2>1, <2>3, <2>4, ProceedDelivers
  <2>6. QED
    BY <2>1, <2>5 DEF TypeOK, Attempted
<1>4. CASE UNCHANGED delivery
  BY <1>4
<1>5. QED
  BY <1>1, <1>2, <1>3, <1>4
     DEF Next, RetryTimer, Heartbeat, Environment, Arrive, DeleteItem, CleanUp, MarkRead,
         ClaimTask, ReportTask, AdvertiseSkills, Persist, docVars

\* A record says "delivered", in memory or in the file, only after the agent loop
\* has completed a dispatch of that item to that agent.
THEOREM DeliveryIsTrue == Spec => []NoFalseDelivery
<1>1. Init => NoFalseDelivery
  BY DEF Init, NoFalseDelivery, Doc, NoDelivery
<1>2. TypeOK /\ NoFalseDelivery /\ [Next]_vars => NoFalseDelivery'
  <2> SUFFICES ASSUME TypeOK, NoFalseDelivery, Next PROVE NoFalseDelivery'
    BY DEF NoFalseDelivery, vars, docVars, histVars
  <2>1. \A k \in Keys : accepted[k] > 0 => accepted'[k] > 0
    <3>1. accepted \in [Keys -> Nat]
      BY DEF TypeOK
    <3>2. CASE UNCHANGED accepted
      BY <3>1, <3>2
    <3>3. ASSUME NEW p \in Passes, Finish(p) PROVE \A k \in Keys : accepted[k] > 0 => accepted'[k] > 0
      BY <3>1, <3>3 DEF Finish
    <3>4. QED
      BY <3>2, <3>3
         DEF Next, StartPass, Fail, RetryTimer, Heartbeat, Environment, Arrive, DeleteItem,
             CleanUp, MarkRead, ClaimTask, ReportTask, AdvertiseSkills, Persist, Crash, histVars
  <2>2. ASSUME NEW k \in Keys, delivery'[k].state = "delivered" PROVE accepted'[k] > 0
    <3>1. CASE Crash
      BY <2>2, <3>1 DEF Crash, RestoreDisk, NoFalseDelivery
    <3>2. CASE delivery[k].state = "delivered"
      BY <2>1, <3>2 DEF NoFalseDelivery, TypeOK
    <3>3. ASSUME NEW p \in Passes, Finish(p), k = cur[p] PROVE accepted'[k] > 0
      BY <3>3 DEF Finish, TypeOK
    <3>4. QED
      BY <2>2, <3>1, <3>2, <3>3, DeliveredStep
  <2>3. disk' = disk \/ disk' = Doc
    BY DEF Next, StartPass, Finish, Fail, RetryTimer, Heartbeat, Environment, Arrive, DeleteItem,
           CleanUp, MarkRead, ClaimTask, ReportTask, AdvertiseSkills, Persist, Crash
  <2>4. ASSUME NEW k \in Keys, disk'.delivery[k].state = "delivered" PROVE accepted'[k] > 0
    <3>1. disk.delivery[k].state = "delivered" \/ delivery[k].state = "delivered"
      BY <2>3, <2>4 DEF Doc
    <3>2. QED
      BY <2>1, <3>1 DEF NoFalseDelivery, TypeOK
  <2>5. QED
    BY <2>2, <2>4 DEF NoFalseDelivery
<1>3. QED
  BY <1>1, <1>2, TypeCorrect, PTL DEF Spec

\* The strengthening behind MessageStaysDelivered: readBy_agents records every
\* delivered message, so losing the delivery state alone loses nothing.
DeliveredIsRead ==
  \A k \in MsgKeys : /\ delivery[k].state = "delivered" => k \in readBy
                     /\ disk.delivery[k].state = "delivered" => k \in disk.readBy

\* Only a crash takes a reader away from a message.
LEMMA ReadByGrows == ASSUME TypeOK, Next, ~Crash PROVE readBy \subseteq readBy'
BY DEF Next, StartPass, Finish, ReadByWith, Fail, RetryTimer, Heartbeat, Environment, Arrive,
       DeleteItem, CleanUp, MarkRead, ClaimTask, ReportTask, AdvertiseSkills, Persist, docVars

\* A message marked delivered to an agent has the agent among its readers, which is
\* what makes up for a mark that a stale pass overwrites (markDeliveredMessage).
THEOREM DeliveredMessagesAreRead == Spec => []DeliveredIsRead
<1>1. Init => DeliveredIsRead
  BY DEF Init, DeliveredIsRead, Doc, NoDelivery, MsgKeys
<1>2. TypeOK /\ DeliveredIsRead /\ [Next]_vars => DeliveredIsRead'
  <2> SUFFICES ASSUME TypeOK, DeliveredIsRead, Next PROVE DeliveredIsRead'
    BY DEF DeliveredIsRead, vars, docVars
  <2>1. ASSUME NEW k \in MsgKeys, delivery'[k].state = "delivered" PROVE k \in readBy'
    <3>1. CASE Crash
      BY <2>1, <3>1 DEF Crash, RestoreDisk, DeliveredIsRead
    <3>2. CASE ~Crash /\ delivery[k].state = "delivered"
      BY <3>2, ReadByGrows DEF DeliveredIsRead
    <3>3. ASSUME NEW p \in Passes, Finish(p), k = cur[p], presence[k[1]] = "present"
          PROVE  k \in readBy'
      BY <3>3 DEF Finish, ReadByWith
    <3>4. k \in Keys
      BY DEF MsgKeys
    <3>5. QED
      BY <2>1, <3>1, <3>2, <3>3, <3>4, DeliveredStep
  <2>2. disk' = disk \/ disk' = Doc
    BY DEF Next, StartPass, Finish, Fail, RetryTimer, Heartbeat, Environment, Arrive, DeleteItem,
           CleanUp, MarkRead, ClaimTask, ReportTask, AdvertiseSkills, Persist, Crash
  <2>3. ASSUME NEW k \in MsgKeys, disk'.delivery[k].state = "delivered"
        PROVE  k \in disk'.readBy
    BY <2>2, <2>3 DEF DeliveredIsRead, Doc
  <2>4. QED
    BY <2>1, <2>3 DEF DeliveredIsRead
<1>3. QED
  BY <1>1, <1>2, TypeCorrect, PTL DEF Spec

\* Short of a crash, a message that counts as delivered to an agent counts as
\* delivered for ever, whatever stale passes still do with it.
THEOREM MessageStability == Spec => MessageStaysDelivered
<1>1. TypeOK /\ DeliveredIsRead /\ [Next]_vars
        => [crashes' = crashes => \A k \in MsgKeys : IsDelivered(k) => IsDelivered(k)']_vars
  <2> SUFFICES ASSUME TypeOK, DeliveredIsRead, Next, crashes' = crashes,
                      NEW k \in MsgKeys, IsDelivered(k)
               PROVE  IsDelivered(k)'
    OBVIOUS
  <2>1. ~Crash
    BY DEF Crash, TypeOK
  <2>2. k \in readBy
    BY DEF IsDelivered, DeliveredIsRead
  <2>3. QED
    BY <2>1, <2>2, ReadByGrows DEF IsDelivered
<1>2. QED
  BY <1>1, TypeCorrect, DeliveredMessagesAreRead, PTL DEF Spec, MessageStaysDelivered

-----------------------------------------------------------------------------
(***************************************************************************)
(* Duplicates come from overlapping passes only.                           *)
(***************************************************************************)

\* The two ways a pass goes on, without the definitions they are computed with.
Stops(p, d) ==
  /\ todo' = [todo EXCEPT ![p] = {}]
  /\ cur' = [cur EXCEPT ![p] = NoKey]
  /\ tries' = [tries EXCEPT ![p] = 0]
  /\ delivery' = d
  /\ UNCHANGED overlapped

Takes(p, k, T, d) ==
  /\ todo' = [todo EXCEPT ![p] = T]
  /\ cur' = [cur EXCEPT ![p] = k]
  /\ tries' = [tries EXCEPT ![p] = IF presence[k[1]] = "present" THEN d[k].attempts + 1 ELSE 1]
  /\ delivery' = MarkAttempted(d, k)
  /\ overlapped' = (overlapped \/ \E q \in Passes \ {p} : cur[q] # NoKey)

GoesOn(p, S, fl, d) ==
  Stops(p, d) \/ \E k \in S \ fl : \E T \in SUBSET (S \ {k}) : Takes(p, k, T, d)

\* What going on to the next item does to the worklists and the in-flight set.
LEMMA ProceedShape ==
  ASSUME TypeOK, NEW p \in Passes, NEW S \in SUBSET Keys, NEW fl, NEW wrote, NEW d,
         Proceed(p, S, fl, d, wrote)
  PROVE  GoesOn(p, S, fl, d)
<1>1. ASSUME NEW k \in Keys PROVE ~Precedes(k, k)
  BY KeyParts, RankAssumption DEF Precedes
<1>2. ASSUME NEW k \in S PROVE {l \in S : Precedes(k, l)} \in SUBSET (S \ {k})
  BY <1>1
<1>3. QED
  BY <1>2 DEF Proceed, Unskipped, GoesOn, Stops, Takes

\* While passes have not overlapped: one pass is active at most, what it still has
\* to do is undelivered, and what has been delivered cannot be picked up again.
OneAtATime ==
  /\ \A p, q \in Passes : cur[p] # NoKey /\ cur[q] # NoKey => p = q
  /\ \A p \in Passes : cur[p] = NoKey => todo[p] = {}
  /\ \A p \in Passes : \A k \in todo[p] :
       accepted[k] = 0 /\ presence[k[1]] # "absent" /\ k # cur[p]
  /\ \A p \in Passes : cur[p] # NoKey =>
       accepted[cur[p]] = 0 /\ presence[cur[p][1]] # "absent"
  /\ \A k \in Keys : accepted[k] > 0 =>
       delivery[k].state = "delivered" \/ presence[k[1]] = "deleted"
  /\ \A k \in Keys : accepted[k] <= 1

Sequential == ~overlapped /\ crashes = 0
SequentialInv == Sequential => OneAtATime

\* The start of a pass keeps the at-most-once invariant.
LEMMA StartPassOnce ==
  ASSUME TypeOK, SequentialInv, NEW p \in Passes, StartPass(p), Sequential'
  PROVE  OneAtATime'
<1>0. DeadLettered \in [Keys -> DeliveryRecord] /\ Backlog \in SUBSET Keys
  BY DeadLetteredType DEF TypeOK, Backlog
<1>a. GoesOn(p, Backlog, inFlight, DeadLettered)
  <2>1. Proceed(p, Backlog, inFlight, DeadLettered, \E k \in Keys : NewlyDead(k))
    BY DEF StartPass
  <2>2. QED
    BY <1>0, <2>1, ProceedShape
<1>1. Sequential /\ cur[p] = NoKey
  BY <1>a DEF Sequential, StartPass, TypeOK, GoesOn, Stops, Takes
<1>2. OneAtATime
  BY <1>1 DEF SequentialInv
<1>3. /\ UNCHANGED <<accepted, presence>>
      /\ cur \in [Passes -> Keys \union {NoKey}] /\ todo \in [Passes -> SUBSET Keys]
      /\ accepted \in [Keys -> Nat] /\ NoKey \notin Keys
  BY BoundsAssumption DEF StartPass, TypeOK
<1>5. ASSUME NEW k \in Backlog
      PROVE  accepted[k] = 0 /\ presence[k[1]] = "present"
  BY <1>2, <1>3, <1>5 DEF Backlog, Eligible, IsDelivered, OneAtATime
<1>6. ASSUME NEW k \in Keys, delivery[k].state = "delivered"
      PROVE  DeadLettered[k] = delivery[k]
  BY <1>6, KeyParts DEF DeadLettered, NewlyDead, FailedFor, Exhausted, Eligible, IsDelivered
<1>7. CASE Stops(p, DeadLettered)
  BY <1>2, <1>3, <1>6, <1>7 DEF OneAtATime, Stops
<1>8. ASSUME NEW k \in Backlog, NEW T \in SUBSET (Backlog \ {k}), Takes(p, k, T, DeadLettered)
      PROVE  OneAtATime'
  <2>1. \A q \in Passes \ {p} : cur[q] = NoKey
    BY <1>8 DEF Sequential, Takes
  <2>2. \A q \in Passes \ {p} : cur'[q] = NoKey /\ todo'[q] = {}
    BY <1>2, <1>3, <1>8, <2>1 DEF OneAtATime, Takes
  <2>3. cur'[p] = k /\ todo'[p] = T /\ k \in Keys
    BY <1>3, <1>0, <1>8 DEF Takes
  <2>4. \A l \in Keys : accepted[l] > 0 => delivery'[l] = DeadLettered[l]
    BY <1>0, <1>5, <1>8 DEF MarkAttempted, Takes
  <2>5. \A l \in Keys : accepted[l] > 0 =>
          delivery'[l].state = "delivered" \/ presence[l[1]] = "deleted"
    BY <1>2, <1>6, <2>4 DEF OneAtATime
  <2>6. \A l \in T \union {k} : accepted'[l] = 0 /\ presence'[l[1]] # "absent"
    BY <1>3, <1>5, <1>8
  <2>7. k # NoKey /\ k \notin T
    BY <1>3, <1>8, <2>3
  <2>8. \A l \in Keys : accepted'[l] <= 1
    BY <1>2, <1>3 DEF OneAtATime
  <2>9. \A l \in Keys : accepted'[l] > 0 =>
          delivery'[l].state = "delivered" \/ presence'[l[1]] = "deleted"
    BY <1>3, <2>5
  <2>10. \A q, r \in Passes : cur'[q] # NoKey /\ cur'[r] # NoKey => q = r
    BY <2>2
  <2>11. \A q \in Passes : cur'[q] = NoKey => todo'[q] = {}
    BY <2>2, <2>3, <2>7
  <2>12. \A q \in Passes : \A l \in todo'[q] :
           accepted'[l] = 0 /\ presence'[l[1]] # "absent" /\ l # cur'[q]
    BY <2>2, <2>3, <2>6, <2>7
  <2>13. \A q \in Passes : cur'[q] # NoKey =>
           accepted'[cur'[q]] = 0 /\ presence'[cur'[q][1]] # "absent"
    BY <2>2, <2>3, <2>6
  <2>14. QED
    BY <2>8, <2>9, <2>10, <2>11, <2>12, <2>13 DEF OneAtATime
<1>9. QED
  BY <1>a, <1>7, <1>8 DEF GoesOn

\* Finish and Fail: the outcome is recorded for cur[p], then the pass goes on with
\* what it has left.  acc and d are accepted and delivery with the outcome in.
LEMMA SettleOnce ==
  ASSUME TypeOK, SequentialInv, NEW p \in Passes, cur[p] # NoKey,
         UNCHANGED <<presence, crashes>>, Sequential',
         NEW fl, NEW wrote, NEW d \in [Keys -> DeliveryRecord],
         Proceed(p, todo[p], fl, d, wrote),
         \A l \in Keys \ {cur[p]} : d[l] = delivery[l] /\ accepted'[l] = accepted[l],
         \/ accepted'[cur[p]] = 0
         \/ /\ accepted'[cur[p]] = 1
            /\ presence[cur[p][1]] = "present" => d[cur[p]].state = "delivered"
  PROVE  OneAtATime'
<1>0. todo[p] \in SUBSET Keys
  BY DEF TypeOK
<1>a. GoesOn(p, todo[p], fl, d)
  BY <1>0, ProceedShape
<1>1. Sequential
  BY <1>a DEF Sequential, TypeOK, GoesOn, Stops, Takes
<1>2. OneAtATime
  BY <1>1 DEF SequentialInv
<1>3. /\ cur \in [Passes -> Keys \union {NoKey}] /\ todo \in [Passes -> SUBSET Keys]
      /\ accepted \in [Keys -> Nat] /\ NoKey \notin Keys
      /\ presence \in [Items -> Presence]
  BY BoundsAssumption DEF TypeOK
<1>4. cur[p] \in Keys /\ cur[p][1] \in Items /\ presence[cur[p][1]] # "absent"
  BY <1>2, <1>3, KeyParts DEF OneAtATime
<1>5. \A q \in Passes \ {p} : cur[q] = NoKey /\ todo[q] = {}
  BY <1>2 DEF OneAtATime
<1>6. /\ \A l \in Keys : accepted'[l] > 0 =>
           d[l].state = "delivered" \/ presence[l[1]] = "deleted"
      /\ \A l \in Keys : accepted'[l] <= 1
  BY <1>2, <1>3, <1>4 DEF OneAtATime, Presence
<1>7. \A l \in todo[p] : l \in Keys /\ accepted'[l] = 0 /\ presence[l[1]] # "absent"
  BY <1>2, <1>3 DEF OneAtATime
<1>8. CASE Stops(p, d)
  BY <1>3, <1>5, <1>6, <1>8 DEF OneAtATime, Stops
<1>9. ASSUME NEW k \in todo[p], NEW T \in SUBSET (todo[p] \ {k}), Takes(p, k, T, d)
      PROVE  OneAtATime'
  <2>1. \A q \in Passes \ {p} : cur'[q] = NoKey /\ todo'[q] = {}
    BY <1>3, <1>5, <1>9 DEF Takes
  <2>2. cur'[p] = k /\ todo'[p] = T /\ k \in Keys
    BY <1>3, <1>9 DEF Takes
  <2>3. \A l \in Keys : accepted'[l] > 0 => delivery'[l] = d[l]
    BY <1>7, <1>9 DEF MarkAttempted, Takes
  <2>4. \A l \in T \union {k} : accepted'[l] = 0 /\ presence'[l[1]] # "absent"
    BY <1>7, <1>9
  <2>5. k # NoKey /\ k \notin T
    BY <1>3, <1>9, <2>2
  <2>6. \A l \in Keys : accepted'[l] > 0 =>
          delivery'[l].state = "delivered" \/ presence'[l[1]] = "deleted"
    BY <1>6, <2>3
  <2>7. \A q, r \in Passes : cur'[q] # NoKey /\ cur'[r] # NoKey => q = r
    BY <2>1
  <2>8. \A q \in Passes : cur'[q] = NoKey => todo'[q] = {}
    BY <2>1, <2>2, <2>5
  <2>9. \A q \in Passes : \A l \in todo'[q] :
           accepted'[l] = 0 /\ presence'[l[1]] # "absent" /\ l # cur'[q]
    BY <2>1, <2>2, <2>4, <2>5
  <2>10. \A q \in Passes : cur'[q] # NoKey =>
           accepted'[cur'[q]] = 0 /\ presence'[cur'[q][1]] # "absent"
    BY <2>1, <2>2, <2>4
  <2>11. QED
    BY <1>6, <2>6, <2>7, <2>8, <2>9, <2>10 DEF OneAtATime
<1>10. QED
  BY <1>a, <1>8, <1>9 DEF GoesOn

\* A dispatch that completes keeps the at-most-once invariant.
LEMMA FinishOnce ==
  ASSUME TypeOK, SequentialInv, NEW p \in Passes, Finish(p), Sequential'
  PROVE  OneAtATime'
<1> DEFINE k == cur[p]
           d == IF presence[k[1]] = "present"
                THEN [delivery EXCEPT ![k] = Delivered(tries[p])] ELSE delivery
<1>1. /\ Proceed(p, todo[p], inFlight \ {k}, d, queued \/ presence[k[1]] = "present")
      /\ k \in Keys /\ accepted' = [accepted EXCEPT ![k] = @ + 1]
      /\ UNCHANGED <<presence, crashes>>
  BY DEF Finish, TypeOK
<1>2. /\ d \in [Keys -> DeliveryRecord]
      /\ \A l \in Keys \ {k} : d[l] = delivery[l]
      /\ presence[k[1]] = "present" => d[k].state = "delivered"
  BY <1>1, RecordTypes DEF TypeOK, Delivered
<1>3. Sequential
  <2>1. GoesOn(p, todo[p], inFlight \ {k}, d)
    <3> HIDE DEF d
    <3>1. QED
      BY <1>1, ProceedShape DEF TypeOK
  <2>2. QED
    BY <1>1, <2>1 DEF Sequential, TypeOK, GoesOn, Stops, Takes
<1>4. accepted[k] = 0
  BY <1>1, <1>3 DEF Finish, SequentialInv, OneAtATime
<1>5. /\ \A l \in Keys \ {k} : accepted'[l] = accepted[l]
      /\ accepted'[k] = 1
  BY <1>1, <1>4 DEF TypeOK
<1>6. cur[p] # NoKey
  BY DEF Finish
<1> HIDE DEF d
<1>7. QED
  BY <1>1, <1>2, <1>5, <1>6, SettleOnce

\* A dispatch that fails keeps the at-most-once invariant.
LEMMA FailOnce ==
  ASSUME TypeOK, SequentialInv, NEW p \in Passes, Fail(p), Sequential'
  PROVE  OneAtATime'
<1> DEFINE k == cur[p]
           n == IF delivery[k].state = "none" THEN 1 ELSE delivery[k].attempts
           d == IF presence[k[1]] = "present"
                THEN [delivery EXCEPT ![k] = Attempted(n)] ELSE delivery
<1>1. /\ Proceed(p, todo[p], inFlight \ {k}, d, queued \/ presence[k[1]] = "present")
      /\ k \in Keys /\ UNCHANGED <<presence, crashes, accepted>>
  BY DEF Fail, TypeOK
<1>a. n \in Nat
  BY <1>1 DEF TypeOK, DeliveryRecord
<1>2. /\ d \in [Keys -> DeliveryRecord]
      /\ \A l \in Keys \ {k} : d[l] = delivery[l]
  <2> HIDE DEF n
  <2>1. QED
    BY <1>1, <1>a, RecordTypes DEF TypeOK
<1>3. Sequential
  <2>1. GoesOn(p, todo[p], inFlight \ {k}, d)
    <3> HIDE DEF d
    <3>1. QED
      BY <1>1, ProceedShape DEF TypeOK
  <2>2. QED
    BY <1>1, <2>1 DEF Sequential, TypeOK, GoesOn, Stops, Takes
<1>4. accepted'[k] = 0
  BY <1>1, <1>3 DEF Fail, SequentialInv, OneAtATime
<1>6. cur[p] # NoKey
  BY DEF Fail
<1> HIDE DEF d
<1>7. QED
  BY <1>1, <1>2, <1>4, <1>6, SettleOnce

\* Everything else leaves the passes, their counts and the records alone; items
\* only arrive or go.
LEMMA OtherOnce ==
  ASSUME TypeOK, SequentialInv, Sequential',
         UNCHANGED <<delivery, todo, cur, accepted, overlapped, crashes>>,
         \A i \in Items : /\ presence[i] # "absent" => presence'[i] # "absent"
                          /\ presence[i] = "deleted" => presence'[i] = "deleted"
  PROVE  OneAtATime'
<1>1. OneAtATime
  BY DEF SequentialInv, Sequential
<1>2. \A k \in Keys : k[1] \in Items
  BY KeyParts
<1>3. cur \in [Passes -> Keys \union {NoKey}] /\ todo \in [Passes -> SUBSET Keys]
  BY DEF TypeOK
<1>4. QED
  BY <1>1, <1>2, <1>3 DEF OneAtATime

\* Without overlapping passes and crashes, every item is run at most once per
\* agent: the snapshot leaves out what was delivered, and nothing delivered is
\* ever left in the worklist of the one pass that is active.
THEOREM OnceEach == Spec => []OnceUnlessOverlapped
<1>1. Init => SequentialInv
  BY DEF Init, SequentialInv, OneAtATime
<1>2. TypeOK /\ SequentialInv /\ [Next]_vars => SequentialInv'
  <2> SUFFICES ASSUME TypeOK, SequentialInv, [Next]_vars, Sequential' PROVE OneAtATime'
    BY DEF SequentialInv
  <2>1. ASSUME NEW p \in Passes, StartPass(p) PROVE OneAtATime'
    BY <2>1, StartPassOnce
  <2>2. ASSUME NEW p \in Passes, Finish(p) PROVE OneAtATime'
    BY <2>2, FinishOnce
  <2>3. ASSUME NEW p \in Passes, Fail(p) PROVE OneAtATime'
    BY <2>3, FailOnce
  <2>4. CASE (\E k \in Keys : RetryTimer(k)) \/ Heartbeat \/ Persist \/ UNCHANGED vars
    <3>1. UNCHANGED <<delivery, todo, cur, accepted, overlapped, crashes, presence>>
      BY <2>4 DEF RetryTimer, Heartbeat, Persist, vars, docVars, procVars, histVars
    <3>2. QED
      BY <3>1, OtherOnce
  <2>5. CASE Environment
    <3>1. /\ UNCHANGED <<delivery, todo, cur, accepted, overlapped, crashes>>
          /\ \A i \in Items : /\ presence[i] # "absent" => presence'[i] # "absent"
                              /\ presence[i] = "deleted" => presence'[i] = "deleted"
      BY <2>5 DEF Environment, Arrive, DeleteItem, CleanUp, MarkRead, ClaimTask, ReportTask,
                  AdvertiseSkills, procVars, histVars, TypeOK
    <3>2. QED
      BY <3>1, OtherOnce
  <2>6. CASE Crash
    BY <2>6 DEF Crash, Sequential, TypeOK
  <2>7. QED
    BY <2>1, <2>2, <2>3, <2>4, <2>5, <2>6 DEF Next
<1>3. SequentialInv => OnceUnlessOverlapped
  BY DEF SequentialInv, Sequential, OneAtATime, OnceUnlessOverlapped
<1>4. QED
  BY <1>1, <1>2, <1>3, TypeCorrect, PTL DEF Spec
-----------------------------------------------------------------------------
(***************************************************************************)
(* How far overlapping passes go.  A pass that has taken a key into its    *)
(* worklist holds a right to one more dispatch of it, whatever happens to  *)
(* the key meanwhile.  What bounds attempts and duplicates is the sum of   *)
(* those made and the rights still held, and rights are given out only by  *)
(* a snapshot that has found the key neither exhausted nor delivered.      *)
(***************************************************************************)

\* A pass that awaits nothing has nothing left to do, the key it awaits is not also
\* in what is left, and the items of both have arrived.
WorklistsOK ==
  /\ \A p \in Passes : cur[p] = NoKey => todo[p] = {}
  /\ \A p \in Passes : cur[p] \notin todo[p]
  /\ \A p \in Passes, k \in Keys :
       cur[p] = k \/ k \in todo[p] => presence[k[1]] # "absent"

\* The passes that still have k in their worklist.
Holding(k) == {p \in Passes : k \in todo[p]}

\* The record of a key in flight says attempted, with no fewer attempts than the
\* pass that awaits it will write back.
TriesRecorded ==
  \A p \in Passes, k \in Keys : cur[p] = k /\ presence[k[1]] = "present" =>
    delivery[k].state # "none" /\ tries[p] <= delivery[k].attempts

AttemptsAndRights ==
  \A k \in Keys : delivery[k].attempts + Cardinality(Holding(k)) < MaxAttempts + Cardinality(Passes)

SavedAttempts ==
  \A k \in Keys : disk.delivery[k].attempts < MaxAttempts + Cardinality(Passes)

BoundInv == WorklistsOK /\ TriesRecorded /\ AttemptsAndRights /\ SavedAttempts

\* How many passes there are, and may be left when one is taken away.
LEMMA PassCounts ==
  ASSUME NEW A \in SUBSET Passes, NEW B \in SUBSET A, NEW p \in Passes
  PROVE  /\ Cardinality(Passes) \in Nat /\ Cardinality(A) \in Nat /\ Cardinality(B) \in Nat
         /\ Cardinality(B) <= Cardinality(A) /\ Cardinality(A) <= Cardinality(Passes)
         /\ p \in A /\ p \notin B => Cardinality(B) + 1 <= Cardinality(A)
<1>1. IsFiniteSet(Passes) /\ IsFiniteSet(A) /\ IsFiniteSet(B)
  BY FS_Subset, BoundsAssumption
<1>2. /\ Cardinality(Passes) \in Nat /\ Cardinality(A) \in Nat /\ Cardinality(B) \in Nat
      /\ Cardinality(B) <= Cardinality(A) /\ Cardinality(A) <= Cardinality(Passes)
  BY <1>1, FS_CardinalityType, FS_Subset
<1>3. ASSUME p \in A, p \notin B
      PROVE  Cardinality(B) + 1 <= Cardinality(A)
  <2>1. IsFiniteSet(A \ {p}) /\ Cardinality(A \ {p}) = Cardinality(A) - 1
    BY <1>1, <1>3, FS_RemoveElement
  <2>2. B \in SUBSET (A \ {p})
    BY <1>3
  <2>3. Cardinality(B) <= Cardinality(A \ {p})
    BY <2>1, <2>2, FS_Subset
  <2> QED BY <1>2, <2>1, <2>3
<1> QED BY <1>2, <1>3

\* Going on keeps the worklists in order.
LEMMA GoesOnWorklists ==
  ASSUME TypeOK, WorklistsOK, NEW p \in Passes, NEW S \in SUBSET Keys, NEW fl, NEW d,
         GoesOn(p, S, fl, d), \A k \in S : presence[k[1]] # "absent", presence' = presence
  PROVE  WorklistsOK'
<1>1. cur \in [Passes -> Keys \union {NoKey}] /\ todo \in [Passes -> SUBSET Keys] /\ NoKey \notin Keys
  BY BoundsAssumption DEF TypeOK
<1>2. CASE Stops(p, d)
  BY <1>1, <1>2 DEF WorklistsOK, Stops
<1>3. ASSUME NEW k \in S \ fl, NEW T \in SUBSET (S \ {k}), Takes(p, k, T, d)
      PROVE  WorklistsOK'
  <2>1. /\ cur'[p] = k /\ todo'[p] = T
        /\ \A q \in Passes \ {p} : cur'[q] = cur[q] /\ todo'[q] = todo[q]
    BY <1>1, <1>3 DEF Takes
  <2> QED BY <1>1, <2>1 DEF WorklistsOK
<1> QED BY <1>2, <1>3 DEF GoesOn

\* A right is used by an attempt: a pass that takes k attempts it once and has it in
\* its worklist no more.
LEMMA GoesOnBound ==
  ASSUME TypeOK, AttemptsAndRights, NEW p \in Passes, NEW S \in SUBSET Keys, NEW fl,
         NEW d \in [Keys -> DeliveryRecord], GoesOn(p, S, fl, d),
         \A k \in Keys : d[k].attempts <= delivery[k].attempts,
         \A k \in S : k \in todo[p] \/ delivery[k].attempts < MaxAttempts
  PROVE  AttemptsAndRights'
<1>1. SUFFICES ASSUME NEW l \in Keys
               PROVE  delivery'[l].attempts + Cardinality(Holding(l)')
                        < MaxAttempts + Cardinality(Passes)
  BY DEF AttemptsAndRights
<1>2. /\ todo \in [Passes -> SUBSET Keys] /\ MaxAttempts \in Nat
      /\ d[l].attempts \in Nat /\ delivery[l].attempts \in Nat
      /\ d[l].attempts <= delivery[l].attempts
      /\ delivery[l].attempts + Cardinality(Holding(l)) < MaxAttempts + Cardinality(Passes)
  BY BoundsAssumption DEF TypeOK, DeliveryRecord, AttemptsAndRights
<1>3. Holding(l) \in SUBSET Passes /\ Holding(l)' \in SUBSET Passes
  BY DEF Holding
<1>4. /\ Cardinality(Passes) \in Nat /\ Cardinality(Holding(l)) \in Nat
      /\ Cardinality(Holding(l)') \in Nat /\ Cardinality(Holding(l)') <= Cardinality(Passes)
  BY <1>3, PassCounts
<1>5. CASE Stops(p, d)
  <2>1. Holding(l)' \in SUBSET Holding(l)
    BY <1>2, <1>5 DEF Stops, Holding
  <2>2. Cardinality(Holding(l)') <= Cardinality(Holding(l))
    BY <1>3, <2>1, PassCounts
  <2>3. delivery'[l].attempts = d[l].attempts
    BY <1>5 DEF Stops
  <2> QED BY <1>2, <1>4, <2>2, <2>3
<1>6. ASSUME NEW k \in S \ fl, NEW T \in SUBSET (S \ {k}), Takes(p, k, T, d)
      PROVE  delivery'[l].attempts + Cardinality(Holding(l)')
               < MaxAttempts + Cardinality(Passes)
  <2>1. todo'[p] = T /\ \A q \in Passes \ {p} : todo'[q] = todo[q]
    BY <1>2, <1>6 DEF Takes
  <2>2. /\ delivery'[l].attempts \in {d[l].attempts, d[l].attempts + 1}
        /\ l # k => delivery'[l].attempts = d[l].attempts
    BY <1>6 DEF Takes, MarkAttempted, Attempted
  <2>3. CASE l = k
    <3>1. p \notin Holding(l)' /\ Holding(l)' \in SUBSET (Holding(l) \union {p})
      BY <2>1, <2>3 DEF Holding
    <3>2. CASE p \in Holding(l)
      <4>1. Holding(l)' \in SUBSET Holding(l)
        BY <3>1, <3>2
      <4>2. Cardinality(Holding(l)') + 1 <= Cardinality(Holding(l))
        BY <1>3, <3>1, <3>2, <4>1, PassCounts
      <4> QED BY <1>2, <1>4, <2>2, <4>2
    <3>3. CASE p \notin Holding(l)
      <4>1. delivery[l].attempts < MaxAttempts
        BY <1>6, <2>3, <3>3 DEF Holding
      <4>2. Cardinality(Holding(l)') + 1 <= Cardinality(Passes)
        BY <1>3, <3>1, PassCounts
      <4> QED BY <1>2, <1>4, <2>2, <4>1, <4>2
    <3> QED BY <3>2, <3>3
  <2>4. CASE l # k
    <3>1. CASE l \in S /\ p \notin Holding(l)
      <4>1. delivery[l].attempts < MaxAttempts
        BY <3>1 DEF Holding
      <4> QED BY <1>2, <1>4, <2>2, <2>4, <4>1
    <3>2. CASE l \notin S \/ p \in Holding(l)
      <4>1. Holding(l)' \in SUBSET Holding(l)
        BY <2>1, <3>2 DEF Holding
      <4>2. Cardinality(Holding(l)') <= Cardinality(Holding(l))
        BY <1>3, <4>1, PassCounts
      <4> QED BY <1>2, <1>4, <2>2, <2>4, <4>2
    <3> QED BY <3>1, <3>2
  <2> QED BY <2>3, <2>4
<1> QED BY <1>5, <1>6 DEF GoesOn

\* The key a pass takes is nobody else's, so the records other passes wait to write
\* back stay as they were.
LEMMA GoesOnTries ==
  ASSUME TypeOK, TriesRecorded, NEW p \in Passes, NEW S \in SUBSET Keys, NEW fl,
         NEW d \in [Keys -> DeliveryRecord], GoesOn(p, S, fl, d), OthersOwn(p, fl),
         presence' = presence,
         \A k \in Keys : \A q \in Passes \ {p} : cur[q] = k =>
           /\ delivery[k].attempts <= d[k].attempts
           /\ delivery[k].state # "none" => d[k].state # "none"
  PROVE  TriesRecorded'
<1>1. SUFFICES ASSUME NEW q \in Passes, NEW l \in Keys, cur'[q] = l, presence[l[1]] = "present"
               PROVE  delivery'[l].state # "none" /\ tries'[q] <= delivery'[l].attempts
  BY DEF TriesRecorded
<1>2. /\ cur \in [Passes -> Keys \union {NoKey}] /\ tries \in [Passes -> Nat] /\ NoKey \notin Keys
      /\ d[l].attempts \in Nat /\ delivery[l].attempts \in Nat
  BY BoundsAssumption DEF TypeOK, DeliveryRecord
<1>3. ASSUME q # p, cur[q] = l
      PROVE  d[l].state # "none" /\ tries[q] <= d[l].attempts
  BY <1>1, <1>2, <1>3 DEF TriesRecorded
<1>4. CASE Stops(p, d)
  <2>1. q # p /\ cur[q] = l /\ tries'[q] = tries[q]
    BY <1>1, <1>2, <1>4 DEF Stops
  <2> QED BY <1>3, <1>4, <2>1 DEF Stops
<1>5. ASSUME NEW k \in S \ fl, NEW T \in SUBSET (S \ {k}), Takes(p, k, T, d)
      PROVE  delivery'[l].state # "none" /\ tries'[q] <= delivery'[l].attempts
  <2>1. CASE q = p
    <3>1. l = k /\ tries'[q] = d[l].attempts + 1
      BY <1>1, <1>2, <1>5, <2>1 DEF Takes
    <3>2. delivery'[l] = Attempted(d[l].attempts + 1)
      BY <1>1, <1>5, <3>1 DEF Takes, MarkAttempted
    <3> QED BY <1>2, <3>1, <3>2 DEF Attempted
  <2>2. CASE q # p
    <3>1. cur[q] = l /\ tries'[q] = tries[q]
      BY <1>1, <1>2, <1>5, <2>2 DEF Takes
    <3>2. l # k
      BY <1>2, <1>5, <2>2, <3>1 DEF OthersOwn
    <3>3. delivery'[l] = d[l]
      BY <1>5, <3>2 DEF Takes, MarkAttempted
    <3> QED BY <1>3, <2>2, <3>1, <3>3
  <2> QED BY <2>1, <2>2
<1> QED BY <1>4, <1>5 DEF GoesOn

\* The snapshot gives out rights for keys that are not exhausted only.
LEMMA StartPassBound ==
  ASSUME TypeOK, InFlightOwned, BoundInv, NEW p \in Passes, StartPass(p)
  PROVE  BoundInv'
<1>1. DeadLettered \in [Keys -> DeliveryRecord] /\ Backlog \in SUBSET Keys
  BY DeadLetteredType DEF TypeOK, Backlog
<1>2. GoesOn(p, Backlog, inFlight, DeadLettered)
  <2>1. Proceed(p, Backlog, inFlight, DeadLettered, \E k \in Keys : NewlyDead(k))
    BY DEF StartPass
  <2> QED BY <1>1, <2>1, ProceedShape
<1>3. cur[p] = NoKey /\ presence' = presence /\ disk' = disk
  BY DEF StartPass
<1>4. OthersOwn(p, inFlight)
  BY <1>3 DEF OthersOwn, InFlightOwned
<1>5. \A k \in Keys : /\ DeadLettered[k].attempts = delivery[k].attempts
                      /\ delivery[k].state # "none" => DeadLettered[k].state # "none"
  BY DEF DeadLettered, DeadLetter
<1>6. \A k \in Backlog : presence[k[1]] # "absent" /\ delivery[k].attempts < MaxAttempts
  BY DEF Backlog, Eligible
<1>7. \A k \in Keys : DeadLettered[k].attempts <= delivery[k].attempts
                        /\ delivery[k].attempts <= DeadLettered[k].attempts
  BY <1>5 DEF TypeOK, DeliveryRecord
<1> HIDE DEF BoundInv
<1>8. WorklistsOK /\ TriesRecorded /\ AttemptsAndRights /\ SavedAttempts
  BY DEF BoundInv
<1>9. WorklistsOK'
  BY <1>1, <1>2, <1>3, <1>6, <1>8, GoesOnWorklists
<1>10. TriesRecorded'
  BY <1>1, <1>2, <1>3, <1>4, <1>5, <1>7, <1>8, GoesOnTries
<1>11. AttemptsAndRights'
  BY <1>1, <1>2, <1>6, <1>7, <1>8, GoesOnBound
<1>12. SavedAttempts'
  BY <1>3, <1>8 DEF SavedAttempts
<1> QED BY <1>9, <1>10, <1>11, <1>12 DEF BoundInv

\* A dispatch that settles, its outcome recorded as d, writes back no more attempts
\* than were recorded when it began.
LEMMA SettleBound ==
  ASSUME TypeOK, InFlightOwned, BoundInv, NEW p \in Passes, cur[p] # NoKey,
         NEW d \in [Keys -> DeliveryRecord], NEW wrote,
         Proceed(p, todo[p], inFlight \ {cur[p]}, d, wrote),
         \A k \in Keys : d[k].attempts <= delivery[k].attempts,
         \A k \in Keys \ {cur[p]} : d[k] = delivery[k],
         UNCHANGED <<presence, disk>>
  PROVE  BoundInv'
<1>1. todo[p] \in SUBSET Keys
  BY DEF TypeOK
<1>2. GoesOn(p, todo[p], inFlight \ {cur[p]}, d)
  BY <1>1, ProceedShape
<1>3. OthersOwn(p, inFlight \ {cur[p]})
  BY DEF OthersOwn, InFlightOwned
<1>4. WorklistsOK /\ TriesRecorded /\ AttemptsAndRights /\ SavedAttempts
  BY DEF BoundInv
<1>5. \A k \in todo[p] : presence[k[1]] # "absent"
  BY <1>1, <1>4 DEF WorklistsOK
<1>6. \A k \in Keys : \A q \in Passes \ {p} : cur[q] = k => d[k] = delivery[k]
  BY DEF InFlightOwned
<1>7. \A k \in Keys : delivery[k].attempts \in Nat
  BY DEF TypeOK, DeliveryRecord
<1>8. WorklistsOK'
  BY <1>1, <1>2, <1>4, <1>5, GoesOnWorklists
<1>9. TriesRecorded'
  BY <1>1, <1>2, <1>3, <1>4, <1>6, <1>7, GoesOnTries
<1>10. AttemptsAndRights'
  BY <1>1, <1>2, <1>4, GoesOnBound
<1>11. SavedAttempts'
  BY <1>4 DEF SavedAttempts
<1> QED BY <1>8, <1>9, <1>10, <1>11 DEF BoundInv

\* Finish writes back the attempts its pass counted.
LEMMA FinishBound ==
  ASSUME TypeOK, InFlightOwned, BoundInv, NEW p \in Passes, Finish(p)
  PROVE  BoundInv'
<1> DEFINE k == cur[p]
           live == presence[k[1]] = "present"
           d == IF live THEN [delivery EXCEPT ![k] = Delivered(tries[p])] ELSE delivery
<1>1. /\ Proceed(p, todo[p], inFlight \ {k}, d, queued \/ live)
      /\ k \in Keys /\ cur[p] # NoKey /\ tries[p] \in Nat /\ UNCHANGED <<presence, disk>>
  BY DEF Finish, TypeOK
<1>2. d \in [Keys -> DeliveryRecord]
  BY <1>1, RecordTypes DEF TypeOK
<1>3. live => tries[p] <= delivery[k].attempts
  BY <1>1 DEF BoundInv, TriesRecorded
<1>4. \A l \in Keys : delivery[l].attempts \in Nat
  BY DEF TypeOK, DeliveryRecord
<1>5. \A l \in Keys \ {k} : d[l] = delivery[l]
  BY <1>1 DEF TypeOK
<1>6. d[k].attempts <= delivery[k].attempts
  BY <1>1, <1>3, <1>4 DEF TypeOK, Delivered
<1>7. \A l \in Keys : d[l].attempts <= delivery[l].attempts
  BY <1>4, <1>5, <1>6
<1> HIDE DEF d, live
<1> QED BY <1>1, <1>2, <1>5, <1>7, SettleBound

\* Fail keeps the attempts of the record, which says attempted already.
LEMMA FailBound ==
  ASSUME TypeOK, InFlightOwned, BoundInv, NEW p \in Passes, Fail(p)
  PROVE  BoundInv'
<1> DEFINE k == cur[p]
           live == presence[k[1]] = "present"
           n == IF delivery[k].state = "none" THEN 1 ELSE delivery[k].attempts
           d == IF live THEN [delivery EXCEPT ![k] = Attempted(n)] ELSE delivery
<1>1. /\ Proceed(p, todo[p], inFlight \ {k}, d, queued \/ live)
      /\ k \in Keys /\ cur[p] # NoKey /\ UNCHANGED <<presence, disk>>
  BY DEF Fail, TypeOK
<1>2. live => n = delivery[k].attempts
  BY <1>1 DEF BoundInv, TriesRecorded
<1>3. \A l \in Keys : delivery[l].attempts \in Nat
  BY DEF TypeOK, DeliveryRecord
<1>4. n \in Nat
  BY <1>1, <1>3
<1> HIDE DEF n
<1>5. d \in [Keys -> DeliveryRecord]
  BY <1>1, <1>4, RecordTypes DEF TypeOK
<1>6. \A l \in Keys \ {k} : d[l] = delivery[l]
  BY <1>1 DEF TypeOK
<1>7. d[k].attempts <= delivery[k].attempts
  BY <1>1, <1>2, <1>3 DEF TypeOK, Attempted
<1>8. \A l \in Keys : d[l].attempts <= delivery[l].attempts
  BY <1>3, <1>6, <1>7
<1> HIDE DEF d, live
<1> QED BY <1>1, <1>5, <1>6, <1>8, SettleBound

\* Everything else leaves the passes and the records alone, or takes the rights away.
LEMMA OtherBound ==
  ASSUME TypeOK, BoundInv,
         UNCHANGED <<delivery, todo, cur, tries>>, disk' = disk \/ disk' = Doc,
         \A i \in Items : /\ presence[i] # "absent" => presence'[i] # "absent"
                          /\ presence'[i] = "present" => presence[i] \in {"absent", "present"}
  PROVE  BoundInv'
<1>1. \A k \in Keys : k[1] \in Items
  BY KeyParts
<1>2. cur \in [Passes -> Keys \union {NoKey}] /\ todo \in [Passes -> SUBSET Keys]
  BY DEF TypeOK
<1>3. WorklistsOK'
  BY <1>1, <1>2 DEF BoundInv, WorklistsOK
<1>4. TriesRecorded'
  BY <1>1, <1>2 DEF BoundInv, TriesRecorded, WorklistsOK, TypeOK, Presence
<1>5. \A k \in Keys : Holding(k)' = Holding(k)
  BY DEF Holding
<1>6. AttemptsAndRights'
  BY <1>5 DEF BoundInv, AttemptsAndRights
<1>7. \A k \in Keys : delivery[k].attempts < MaxAttempts + Cardinality(Passes)
  <2> SUFFICES ASSUME NEW k \in Keys
               PROVE  delivery[k].attempts < MaxAttempts + Cardinality(Passes)
    OBVIOUS
  <2>1. Holding(k) \in SUBSET Passes
    BY DEF Holding
  <2>2. /\ Cardinality(Holding(k)) \in Nat /\ Cardinality(Passes) \in Nat
        /\ delivery[k].attempts \in Nat /\ MaxAttempts \in Nat
    BY <2>1, PassCounts, BoundsAssumption DEF TypeOK, DeliveryRecord
  <2> QED BY <2>2 DEF BoundInv, AttemptsAndRights
<1>8. SavedAttempts'
  BY <1>7 DEF BoundInv, SavedAttempts, Doc
<1> QED BY <1>3, <1>4, <1>6, <1>8 DEF BoundInv

\* A crash ends all passes and goes back to the attempts in the file.
LEMMA CrashBound == ASSUME TypeOK, BoundInv, Crash PROVE BoundInv'
<1>1. /\ todo' = [p \in Passes |-> {}] /\ cur' = [p \in Passes |-> NoKey]
      /\ delivery' = disk.delivery /\ disk' = disk /\ NoKey \notin Keys
  BY BoundsAssumption DEF Crash, RestoreDisk, StopPasses
<1>2. WorklistsOK' /\ TriesRecorded'
  BY <1>1 DEF WorklistsOK, TriesRecorded
<1>3. \A k \in Keys : Holding(k)' = {}
  BY <1>1 DEF Holding
<1>4. AttemptsAndRights'
  <2> SUFFICES ASSUME NEW k \in Keys
               PROVE  delivery'[k].attempts + Cardinality(Holding(k)')
                        < MaxAttempts + Cardinality(Passes)
    BY DEF AttemptsAndRights
  <2>1. Cardinality(Holding(k)') = 0
    BY <1>3, FS_EmptySet
  <2>2. disk.delivery[k].attempts \in Nat
    BY DEF TypeOK, DeliveryRecord
  <2> QED BY <1>1, <2>1, <2>2 DEF BoundInv, SavedAttempts
<1>5. SavedAttempts'
  BY <1>1 DEF BoundInv, SavedAttempts
<1> QED BY <1>2, <1>4, <1>5 DEF BoundInv

\* What the steps outside the passes do to the presence of items, short of a crash.
LEMMA ItemsComeAndGo ==
  ASSUME TypeOK, Environment
  PROVE  /\ UNCHANGED <<delivery, todo, cur, tries, disk, accepted, crashes>>
         /\ \A i \in Items : /\ presence[i] # "absent" => presence'[i] # "absent"
                             /\ presence[i] = "deleted" => presence'[i] = "deleted"
BY DEF Environment, Arrive, DeleteItem, CleanUp, MarkRead, ClaimTask, ReportTask,
       AdvertiseSkills, procVars, histVars, TypeOK

\* The attempts made for a key, and the rights to make more, are never more than the
\* cap and one for each pass.
THEOREM RightsBounded == Spec => []BoundInv
<1>1. Init => BoundInv
  <2> SUFFICES ASSUME Init PROVE BoundInv
    OBVIOUS
  <2>1. /\ todo = [p \in Passes |-> {}] /\ cur = [p \in Passes |-> NoKey]
        /\ delivery = [k \in Keys |-> NoDelivery] /\ disk.delivery = delivery /\ NoKey \notin Keys
    BY BoundsAssumption DEF Init, Doc
  <2>2. WorklistsOK /\ TriesRecorded
    BY <2>1 DEF WorklistsOK, TriesRecorded
  <2>3. \A k \in Keys : Cardinality(Holding(k)) = 0 /\ delivery[k].attempts = 0
    <3>1. \A k \in Keys : Holding(k) = {}
      BY <2>1 DEF Holding
    <3>2. \A k \in Keys : delivery[k].attempts = 0
      BY <2>1 DEF NoDelivery
    <3> QED BY <3>1, <3>2, FS_EmptySet
  <2>4. Cardinality(Passes) \in Nat /\ MaxAttempts \in Nat \ {0}
    BY FS_CardinalityType, BoundsAssumption
  <2> QED BY <2>1, <2>2, <2>3, <2>4 DEF BoundInv, AttemptsAndRights, SavedAttempts
<1>2. TypeOK /\ InFlightOwned /\ BoundInv /\ [Next]_vars => BoundInv'
  <2> SUFFICES ASSUME TypeOK, InFlightOwned, BoundInv, [Next]_vars PROVE BoundInv'
    OBVIOUS
  <2>1. ASSUME NEW p \in Passes, StartPass(p) \/ Finish(p) \/ Fail(p) PROVE BoundInv'
    BY <2>1, StartPassBound, FinishBound, FailBound
  <2>2. CASE (\E k \in Keys : RetryTimer(k)) \/ Heartbeat \/ Persist \/ UNCHANGED vars
    <3>1. UNCHANGED <<delivery, todo, cur, tries, presence>> /\ (disk' = disk \/ disk' = Doc)
      BY <2>2 DEF RetryTimer, Heartbeat, Persist, vars, docVars, procVars, histVars
    <3>2. \A i \in Items : presence'[i] = "present" => presence[i] \in {"absent", "present"}
      BY <3>1
    <3> QED BY <3>1, <3>2, OtherBound
  <2>3. CASE Environment
    <3>1. \A i \in Items : presence'[i] = "present" => presence[i] \in {"absent", "present"}
      BY <2>3, ItemsComeAndGo DEF TypeOK, Presence
    <3> QED BY <2>3, <3>1, ItemsComeAndGo, OtherBound
  <2>4. CASE Crash
    BY <2>4, CrashBound
  <2> QED BY <2>1, <2>2, <2>3, <2>4 DEF Next
<1> QED BY <1>1, <1>2, TypeCorrect, InFlightOwnership, PTL DEF Spec

\* The attempts cap, read in the snapshot only (MAX_DELIVERY_ATTEMPTS), is overshot by
\* fewer attempts than there are passes, also over crashes.
THEOREM AttemptsBounded == Spec => []AttemptsOvershoot
<1>1. TypeOK /\ BoundInv => AttemptsOvershoot
  <2> SUFFICES ASSUME TypeOK, BoundInv, NEW k \in Keys
               PROVE  delivery[k].attempts < MaxAttempts + Cardinality(Passes)
    BY DEF AttemptsOvershoot
  <2>1. Holding(k) \in SUBSET Passes
    BY DEF Holding
  <2>2. /\ Cardinality(Holding(k)) \in Nat /\ Cardinality(Passes) \in Nat
        /\ delivery[k].attempts \in Nat /\ MaxAttempts \in Nat
    BY <2>1, PassCounts, BoundsAssumption DEF TypeOK, DeliveryRecord
  <2> QED BY <2>2 DEF BoundInv, AttemptsAndRights
<1> QED BY <1>1, TypeCorrect, RightsBounded, PTL

-----------------------------------------------------------------------------
(***************************************************************************)
(* Duplicates of messages, in the same way.  A message that was run counts *)
(* as read or has been deleted, so no later snapshot takes it again.       *)
(***************************************************************************)

\* The passes that may still complete a dispatch of k.
Busy(k) == {p \in Passes : cur[p] = k \/ k \in todo[p]}

RunIsOver ==
  \A k \in MsgKeys : accepted[k] = 0 \/ k \in readBy \/ presence[k[1]] = "deleted"

RunsAndRights ==
  \A k \in MsgKeys : accepted[k] + Cardinality(Busy(k)) <= Cardinality(Passes)

DuplicatesInv == crashes = 0 => RunIsOver /\ RunsAndRights

\* Going on makes no pass busy with a key that was not, unless the key is in the
\* worklist the pass is given; and it is busy with that one only through it.
LEMMA GoesOnBusy ==
  ASSUME TypeOK, NEW p \in Passes, NEW S \in SUBSET Keys, NEW fl, NEW d, GoesOn(p, S, fl, d),
         NEW k \in Keys
  PROVE  Busy(k)' \in SUBSET ((Busy(k) \ {p}) \union (IF k \in S THEN {p} ELSE {}))
<1>1. cur \in [Passes -> Keys \union {NoKey}] /\ todo \in [Passes -> SUBSET Keys] /\ NoKey \notin Keys
  BY BoundsAssumption DEF TypeOK
<1>2. \A q \in Passes \ {p} : cur'[q] = cur[q] /\ todo'[q] = todo[q]
  BY <1>1 DEF GoesOn, Stops, Takes
<1>3. (cur'[p] = NoKey /\ todo'[p] = {}) \/ (cur'[p] \in S /\ todo'[p] \subseteq S)
  BY <1>1 DEF GoesOn, Stops, Takes
<1> QED BY <1>1, <1>2, <1>3 DEF Busy

\* The start of a pass gives out rights to run a message that nobody has run.
LEMMA StartPassDuplicates ==
  ASSUME TypeOK, WorklistsOK, DuplicatesInv, NEW p \in Passes, StartPass(p)
  PROVE  DuplicatesInv'
<1>1. SUFFICES ASSUME crashes' = 0
               PROVE  RunIsOver' /\ RunsAndRights'
  BY DEF DuplicatesInv
<1>2. /\ UNCHANGED <<accepted, presence, readBy>> /\ crashes = 0 /\ cur[p] = NoKey
      /\ todo[p] = {} /\ Backlog \in SUBSET Keys /\ accepted \in [Keys -> Nat]
  BY <1>1 DEF StartPass, WorklistsOK, Backlog, TypeOK
<1>3. RunIsOver /\ RunsAndRights
  BY <1>2 DEF DuplicatesInv
<1>4. GoesOn(p, Backlog, inFlight, DeadLettered)
  BY <1>2, ProceedShape DEF StartPass
<1>5. RunIsOver'
  BY <1>2, <1>3 DEF RunIsOver
<1>6. ASSUME NEW k \in MsgKeys
      PROVE  accepted'[k] + Cardinality(Busy(k)') <= Cardinality(Passes)
  <2>1. k \in Keys /\ accepted[k] \in Nat /\ accepted'[k] = accepted[k]
    BY <1>2 DEF MsgKeys
  <2>2. Busy(k) \in SUBSET Passes /\ Busy(k)' \in SUBSET Passes
    BY DEF Busy
  <2>3. /\ Cardinality(Passes) \in Nat /\ Cardinality(Busy(k)) \in Nat
        /\ Cardinality(Busy(k)') \in Nat /\ Cardinality(Busy(k)') <= Cardinality(Passes)
    BY <2>2, PassCounts
  <2>4. CASE k \in Backlog
    <3>1. accepted[k] = 0
      BY <2>4, <1>3 DEF Backlog, Eligible, IsDelivered, RunIsOver
    <3> QED BY <2>1, <2>3, <3>1
  <2>5. CASE k \notin Backlog
    <3>1. Busy(k)' \in SUBSET Busy(k)
      BY <1>2, <1>4, <2>1, <2>5, GoesOnBusy
    <3>2. Cardinality(Busy(k)') <= Cardinality(Busy(k))
      BY <2>2, <3>1, PassCounts
    <3> QED BY <1>3, <2>1, <2>3, <3>2 DEF RunsAndRights
  <2> QED BY <2>4, <2>5
<1> QED BY <1>5, <1>6 DEF RunsAndRights

\* A dispatch that settles gives up its right: by a run, or for nothing.
LEMMA SettleDuplicates ==
  ASSUME TypeOK, WorklistsOK, RunsAndRights, NEW p \in Passes, cur[p] # NoKey,
         NEW fl, NEW d, GoesOn(p, todo[p], fl, d),
         \A k \in Keys \ {cur[p]} : accepted'[k] = accepted[k],
         accepted'[cur[p]] \in {accepted[cur[p]], accepted[cur[p]] + 1}
  PROVE  RunsAndRights'
<1>1. /\ todo[p] \in SUBSET Keys /\ cur[p] \in Keys /\ cur[p] \notin todo[p]
      /\ accepted \in [Keys -> Nat]
  BY DEF TypeOK, WorklistsOK
<1>2. SUFFICES ASSUME NEW k \in MsgKeys
               PROVE  accepted'[k] + Cardinality(Busy(k)') <= Cardinality(Passes)
  BY DEF RunsAndRights
<1>3. k \in Keys /\ accepted[k] \in Nat /\ Busy(k) \in SUBSET Passes
  BY <1>1 DEF MsgKeys, Busy
<1>a. Busy(k)' \in SUBSET ((Busy(k) \ {p}) \union (IF k \in todo[p] THEN {p} ELSE {}))
  BY <1>1, <1>3, GoesOnBusy
<1>4. Busy(k)' \in SUBSET Busy(k)
  BY <1>a DEF Busy
<1>5. /\ Cardinality(Passes) \in Nat /\ Cardinality(Busy(k)) \in Nat
      /\ Cardinality(Busy(k)') \in Nat /\ Cardinality(Busy(k)') <= Cardinality(Busy(k))
  BY <1>3, <1>4, PassCounts
<1>6. accepted[k] + Cardinality(Busy(k)) <= Cardinality(Passes)
  BY DEF RunsAndRights
<1>7. CASE k # cur[p]
  BY <1>3, <1>5, <1>6, <1>7
<1>8. CASE k = cur[p]
  <2>1. p \in Busy(k) /\ p \notin Busy(k)'
    BY <1>1, <1>a, <1>8 DEF Busy
  <2>2. Cardinality(Busy(k)') + 1 <= Cardinality(Busy(k))
    BY <1>3, <1>4, <2>1, PassCounts
  <2> QED BY <1>3, <1>5, <1>6, <1>8, <2>2
<1> QED BY <1>7, <1>8

\* A completed dispatch makes the agent a reader of the message, unless it is deleted.
LEMMA FinishDuplicates ==
  ASSUME TypeOK, WorklistsOK, DuplicatesInv, NEW p \in Passes, Finish(p)
  PROVE  DuplicatesInv'
<1> DEFINE d == IF presence[cur[p][1]] = "present"
                THEN [delivery EXCEPT ![cur[p]] = Delivered(tries[p])] ELSE delivery
<1>1. SUFFICES ASSUME crashes' = 0
               PROVE  RunIsOver' /\ RunsAndRights'
  BY DEF DuplicatesInv
<1>2. /\ cur[p] # NoKey /\ cur[p] \in Keys /\ presence' = presence /\ crashes = 0
      /\ accepted \in [Keys -> Nat] /\ accepted' = [accepted EXCEPT ![cur[p]] = @ + 1]
      /\ readBy' = ReadByWith(cur[p]) /\ todo[p] \in SUBSET Keys
  BY <1>1 DEF Finish, TypeOK
<1>3. RunIsOver /\ RunsAndRights
  BY <1>2 DEF DuplicatesInv
<1>4. GoesOn(p, todo[p], inFlight \ {cur[p]}, d)
  <2>1. Proceed(p, todo[p], inFlight \ {cur[p]}, d, queued \/ presence[cur[p][1]] = "present")
    BY DEF Finish
  <2> HIDE DEF d
  <2> QED BY <1>2, <2>1, ProceedShape
<1>5. RunsAndRights'
  <2> HIDE DEF d
  <2> QED BY <1>2, <1>3, <1>4, SettleDuplicates
<1>6. presence[cur[p][1]] \in {"present", "deleted"}
  BY <1>2, KeyParts DEF WorklistsOK, TypeOK, Presence
<1>7. RunIsOver'
  BY <1>2, <1>3, <1>6 DEF RunIsOver, ReadByWith, MsgKeys
<1> QED BY <1>5, <1>7

\* A failed dispatch runs nothing.
LEMMA FailDuplicates ==
  ASSUME TypeOK, WorklistsOK, DuplicatesInv, NEW p \in Passes, Fail(p)
  PROVE  DuplicatesInv'
<1> DEFINE n == IF delivery[cur[p]].state = "none" THEN 1 ELSE delivery[cur[p]].attempts
           d == IF presence[cur[p][1]] = "present"
                THEN [delivery EXCEPT ![cur[p]] = Attempted(n)] ELSE delivery
<1>1. /\ cur[p] # NoKey /\ todo[p] \in SUBSET Keys
      /\ UNCHANGED <<presence, crashes, accepted, readBy>>
  BY DEF Fail, TypeOK
<1>2. GoesOn(p, todo[p], inFlight \ {cur[p]}, d)
  <2>1. Proceed(p, todo[p], inFlight \ {cur[p]}, d, queued \/ presence[cur[p][1]] = "present")
    BY DEF Fail
  <2> HIDE DEF d
  <2> QED BY <1>1, <2>1, ProceedShape
<1> HIDE DEF d, n
<1>3. RunsAndRights => RunsAndRights'
  BY <1>1, <1>2, SettleDuplicates
<1> QED BY <1>1, <1>3 DEF DuplicatesInv, RunIsOver

\* Everything else runs nothing and takes no right; readers and deletions stay.
LEMMA OtherDuplicates ==
  ASSUME TypeOK, DuplicatesInv, UNCHANGED <<todo, cur, accepted, crashes>>,
         readBy \subseteq readBy',
         \A i \in Items : presence[i] = "deleted" => presence'[i] = "deleted"
  PROVE  DuplicatesInv'
<1>1. \A k \in MsgKeys : k[1] \in Items /\ Busy(k)' = Busy(k)
  BY KeyParts DEF Busy, MsgKeys
<1> QED BY <1>1 DEF DuplicatesInv, RunIsOver, RunsAndRights

\* The agent loop completes no more dispatches of one message for one agent than
\* there are passes, short of a crash: each of them must have taken the message into
\* its snapshot before the first delivery.
THEOREM DuplicatesBounded == Spec => []MessageDuplicatesBounded
<1>1. Init => DuplicatesInv
  <2> SUFFICES ASSUME Init PROVE RunIsOver /\ RunsAndRights
    BY DEF DuplicatesInv
  <2>1. \A k \in MsgKeys : k \in Keys /\ accepted[k] = 0
    BY DEF Init, MsgKeys
  <2>2. \A k \in MsgKeys : Busy(k) = {}
    BY <2>1, BoundsAssumption DEF Init, Busy
  <2>3. Cardinality(Passes) \in Nat
    BY FS_CardinalityType, BoundsAssumption
  <2> QED BY <2>1, <2>2, <2>3, FS_EmptySet DEF RunIsOver, RunsAndRights
<1>2. TypeOK /\ BoundInv /\ DuplicatesInv /\ [Next]_vars => DuplicatesInv'
  <2> SUFFICES ASSUME TypeOK, BoundInv, DuplicatesInv, [Next]_vars PROVE DuplicatesInv'
    OBVIOUS
  <2>0. WorklistsOK
    BY DEF BoundInv
  <2>1. ASSUME NEW p \in Passes, StartPass(p) \/ Finish(p) \/ Fail(p) PROVE DuplicatesInv'
    BY <2>0, <2>1, StartPassDuplicates, FinishDuplicates, FailDuplicates
  <2>2. CASE (\E k \in Keys : RetryTimer(k)) \/ Heartbeat \/ Persist \/ UNCHANGED vars
    <3>1. UNCHANGED <<todo, cur, accepted, crashes, readBy, presence>>
      BY <2>2 DEF RetryTimer, Heartbeat, Persist, vars, docVars, procVars, histVars
    <3> QED BY <3>1, OtherDuplicates
  <2>3. CASE Environment
    <3>1. ~Crash
      BY <2>3, ItemsComeAndGo DEF Crash, TypeOK
    <3>2. readBy \subseteq readBy'
      BY <2>3, <3>1, ReadByGrows DEF Next
    <3> QED BY <2>3, <3>2, ItemsComeAndGo, OtherDuplicates
  <2>4. CASE Crash
    BY <2>4 DEF Crash, DuplicatesInv, TypeOK
  <2> QED BY <2>1, <2>2, <2>3, <2>4 DEF Next
<1>3. TypeOK /\ DuplicatesInv => MessageDuplicatesBounded
  <2> SUFFICES ASSUME TypeOK, RunsAndRights, NEW k \in MsgKeys
               PROVE  accepted[k] <= Cardinality(Passes)
    BY DEF DuplicatesInv, MessageDuplicatesBounded
  <2>1. k \in Keys /\ accepted[k] \in Nat /\ Busy(k) \in SUBSET Passes
    BY DEF TypeOK, MsgKeys, Busy
  <2>2. Cardinality(Busy(k)) \in Nat /\ Cardinality(Passes) \in Nat
    BY <2>1, PassCounts, BoundsAssumption
  <2> QED BY <2>1, <2>2 DEF RunsAndRights
<1> QED BY <1>1, <1>2, <1>3, TypeCorrect, RightsBounded, PTL DEF Spec

-----------------------------------------------------------------------------
(***************************************************************************)
(* Dispatcher implements Delivery, for every set of items, agents and      *)
(* passes: its initial states map to one of Delivery, and its steps to     *)
(* steps of Delivery or to none.                                           *)
(***************************************************************************)

\* The mapped state: what Delivery calls marked and saved.
Marked == {k \in Keys : IsDelivered(k)}
Saved == {k \in Keys : disk.delivery[k].state = "delivered" \/ k \in disk.readBy}

\* Going on to the next item begins at most one dispatch, of a key not in flight.
LEMMA ProceedBegins ==
  ASSUME NEW p, NEW S \in SUBSET Keys, NEW fl, NEW d, NEW wrote, Proceed(p, S, fl, d, wrote)
  PROVE  Promise!Begin(fl)
<1>1. inFlight' = fl \/ \E k \in S \ fl : inFlight' = fl \union {k}
  BY DEF Proceed, Unskipped
<1>2. QED
  BY <1>1 DEF Promise!Begin

\* Without a crash no message loses its mark.
LEMMA MessagesKeepMarks ==
  ASSUME TypeOK, DeliveredIsRead, Next, ~Crash
  PROVE  Marked \intersect MsgKeys \subseteq Marked'
<1>1. SUFFICES ASSUME NEW k \in Marked, k \in MsgKeys
               PROVE  k \in Marked'
  OBVIOUS
<1>2. k \in readBy
  BY <1>1 DEF Marked, IsDelivered, DeliveredIsRead
<1>3. k \in readBy'
  BY <1>2, ReadByGrows
<1>4. QED
  BY <1>1, <1>3 DEF Marked, IsDelivered

\* A dispatch is completed by the pass that has awaited it, and by no other.
LEMMA FinishCounts ==
  ASSUME TypeOK, NEW p \in Passes, Finish(p)
  PROVE  /\ accepted' # accepted
         /\ \A q \in Passes : Finish(q) => cur[q] = cur[p]
<1>1. cur[p] \in Keys /\ accepted \in [Keys -> Nat]
  BY DEF Finish, TypeOK
<1>2. accepted' = [accepted EXCEPT ![cur[p]] = @ + 1]
  BY DEF Finish
<1>3. accepted'[cur[p]] = accepted[cur[p]] + 1 /\ accepted[cur[p]] \in Nat
  BY <1>1, <1>2
<1>4. ASSUME NEW q \in Passes, Finish(q), cur[q] # cur[p]
      PROVE  FALSE
  <2>1. accepted' = [accepted EXCEPT ![cur[q]] = @ + 1]
    BY <1>4 DEF Finish
  <2>2. accepted'[cur[p]] = accepted[cur[p]]
    BY <1>1, <1>4, <2>1
  <2>3. QED
    BY <1>3, <2>2
<1>5. QED
  BY <1>3, <1>4

\* Starting a pass begins a dispatch or none, and marks nothing.
LEMMA StartPassTakes ==
  ASSUME TypeOK, DeliveredIsRead, NEW p \in Passes, StartPass(p)
  PROVE  Promise!Take
<1>1. Next
  BY DEF Next
<1>2. UNCHANGED <<accepted, disk, readBy>>
  BY DEF StartPass
<1>3. ~Crash
  BY DEF StartPass, Crash, TypeOK
<1>4. Promise!Begin(inFlight)
  <2>1. Backlog \in SUBSET Keys
    BY DEF Backlog
  <2>2. QED
    BY <2>1, ProceedBegins DEF StartPass
<1>5. Marked' \subseteq Marked
  <2>1. SUFFICES ASSUME NEW k \in Keys, delivery'[k].state = "delivered"
                 PROVE  delivery[k].state = "delivered"
    BY <1>2 DEF Marked, IsDelivered
  <2>2. QED
    BY <1>1, <1>2, <1>3, <2>1, DeliveredStep, FinishCounts
<1>6. Marked \intersect MsgKeys \subseteq Marked'
  BY <1>1, <1>3, MessagesKeepMarks
<1>7. QED
  BY <1>2, <1>4, <1>5, <1>6 DEF Promise!Take, Promise!Kept, Marked

\* A pass whose dispatch completes counts the run, and marks that key only.
LEMMA FinishCompletes ==
  ASSUME TypeOK, DeliveredIsRead, InFlightOwned, NEW p \in Passes, Finish(p)
  PROVE  Promise!Complete(cur[p])
<1>1. Next
  BY DEF Next
<1>2. ~Crash
  BY DEF Finish, Crash, TypeOK
<1>3. cur[p] \in inFlight
  BY DEF Finish, InFlightOwned
<1>4. Promise!Begin(inFlight \ {cur[p]})
  <2>1. todo[p] \in SUBSET Keys
    BY DEF TypeOK
  <2>2. QED
    BY <2>1, ProceedBegins DEF Finish
<1>5. Marked' \subseteq Marked \union {cur[p]}
  <2>1. SUFFICES ASSUME NEW k \in Keys, IsDelivered(k)', k # cur[p]
                 PROVE  IsDelivered(k)
    BY DEF Marked
  <2>2. CASE k \in readBy'
    BY <2>1, <2>2 DEF Finish, ReadByWith, IsDelivered
  <2>3. CASE delivery'[k].state = "delivered"
    BY <1>1, <1>2, <2>1, <2>3, DeliveredStep, FinishCounts DEF IsDelivered
  <2>4. QED
    BY <2>1, <2>2, <2>3 DEF IsDelivered
<1>6. Marked \intersect MsgKeys \subseteq Marked'
  BY <1>1, <1>2, MessagesKeepMarks
<1>7. accepted' = [accepted EXCEPT ![cur[p]] = @ + 1] /\ UNCHANGED disk
  BY DEF Finish
<1>8. QED
  BY <1>3, <1>4, <1>5, <1>6, <1>7 DEF Promise!Complete, Promise!Kept, Marked

\* A pass whose dispatch fails gives the key back, and marks nothing.
LEMMA FailGivesBack ==
  ASSUME TypeOK, DeliveredIsRead, InFlightOwned, NEW p \in Passes, Fail(p)
  PROVE  Promise!GiveBack(cur[p])
<1>1. Next
  BY DEF Next
<1>2. UNCHANGED <<accepted, disk, readBy>>
  BY DEF Fail
<1>3. ~Crash
  BY DEF Fail, Crash, TypeOK
<1>4. cur[p] \in inFlight
  BY DEF Fail, InFlightOwned
<1>5. Promise!Begin(inFlight \ {cur[p]})
  <2>1. todo[p] \in SUBSET Keys
    BY DEF TypeOK
  <2>2. QED
    BY <2>1, ProceedBegins DEF Fail
<1>6. Marked' \subseteq Marked
  <2>1. SUFFICES ASSUME NEW k \in Keys, delivery'[k].state = "delivered"
                 PROVE  delivery[k].state = "delivered"
    BY <1>2 DEF Marked, IsDelivered
  <2>2. QED
    BY <1>1, <1>2, <1>3, <2>1, DeliveredStep, FinishCounts
<1>7. Marked \intersect MsgKeys \subseteq Marked'
  BY <1>1, <1>3, MessagesKeepMarks
<1>8. QED
  BY <1>2, <1>4, <1>5, <1>6, <1>7 DEF Promise!GiveBack, Promise!Kept, Marked

\* What the node reads by itself is an acknowledgement.
LEMMA MarkReadAcknowledges ==
  ASSUME NEW m \in Msgs, MarkRead(m)
  PROVE  \E k \in Keys : Promise!Acknowledge(k)
<1> DEFINE k == <<m, NodeAgent>>
<1>1. k \in MsgKeys /\ readBy' = readBy \union {k}
  BY DEF MarkRead
<1>2. UNCHANGED <<delivery, disk, inFlight, accepted>>
  BY DEF MarkRead, histVars
<1>3. k \in Keys
  BY <1>1 DEF MsgKeys
<1> HIDE DEF k
<1>4. Marked' = Marked \union {k}
  BY <1>1, <1>2, <1>3 DEF Marked, IsDelivered
<1>5. QED
  BY <1>1, <1>2, <1>3, <1>4 DEF Promise!Acknowledge, Marked

\* Steps that touch nothing Delivery speaks of.
LEMMA OthersStutter ==
  ASSUME UNCHANGED <<delivery, readBy, disk, inFlight, accepted>>
  PROVE  UNCHANGED Promise!vars
BY DEF Promise!vars, IsDelivered

\* Every step of the dispatcher and of its environment is allowed by Delivery.
LEMMA StepAllowed ==
  ASSUME TypeOK, DeliveredIsRead, InFlightOwned, [Next]_vars
  PROVE  [Promise!Next]_(Promise!vars)
<1>1. ASSUME NEW p \in Passes, StartPass(p) PROVE Promise!Next
  BY <1>1, StartPassTakes DEF Promise!Next
<1>2. ASSUME NEW p \in Passes, Finish(p) PROVE Promise!Next
  <2>1. cur[p] \in Keys
    BY <1>2 DEF Finish, TypeOK
  <2>2. QED
    BY <1>2, <2>1, FinishCompletes DEF Promise!Next
<1>3. ASSUME NEW p \in Passes, Fail(p) PROVE Promise!Next
  <2>1. cur[p] \in Keys
    BY <1>3 DEF Fail, TypeOK
  <2>2. QED
    BY <1>3, <2>1, FailGivesBack DEF Promise!Next
<1>4. ASSUME NEW m \in Msgs, MarkRead(m) PROVE Promise!Next
  BY <1>4, MarkReadAcknowledges DEF Promise!Next
<1>5. CASE Persist
  <2>1. Saved' = Marked
    BY <1>5 DEF Persist, Saved, Marked, Doc, IsDelivered
  <2>2. UNCHANGED <<delivery, readBy, inFlight, accepted>>
    BY <1>5 DEF Persist, docVars, procVars, histVars
  <2>3. QED
    BY <2>1, <2>2 DEF Promise!Next, Promise!Save, Saved, Marked, IsDelivered
<1>6. CASE Crash
  <2>1. Marked' = Saved
    BY <1>6 DEF Crash, RestoreDisk, Saved, Marked, IsDelivered
  <2>2. inFlight' = {} /\ UNCHANGED <<disk, accepted>>
    BY <1>6 DEF Crash
  <2>3. QED
    BY <2>1, <2>2 DEF Promise!Next, Promise!CrashAndRestart, Saved, Marked
<1>7. CASE UNCHANGED <<delivery, readBy, disk, inFlight, accepted>>
  BY <1>7, OthersStutter
<1>8. QED
  BY <1>1, <1>2, <1>3, <1>4, <1>5, <1>6, <1>7
     DEF Next, RetryTimer, Heartbeat, Environment, Arrive, DeleteItem, CleanUp, ClaimTask, ReportTask,
         AdvertiseSkills, docVars, procVars, histVars, vars

\* The dispatcher implements Delivery: one dispatch of an item to an agent at a
\* time, no mark without a run or a reading, no mark of a message taken back
\* but by a crash, whatever its passes and timers do (src/dispatcher.ts).
THEOREM Implementation == Spec => KeepsPromise
<1>1. Init => Promise!Init
  BY DEF Init, Promise!Init, IsDelivered, NoDelivery, Doc
<1>2. QED
  BY <1>1, StepAllowed, TypeCorrect, DeliveredMessagesAreRead, InFlightOwnership, PTL
     DEF Spec, KeepsPromise, Promise!Spec
=============================================================================
