-------------------------- MODULE AdmissionProofs --------------------------
(***************************************************************************)
(* Proofs about Admission, for any gateways, nodes and bounds: how often   *)
(* an invite lets somebody in, whom, and that a backbone node remains.     *)
(*                                                                         *)
(* An invite is written once, by its maker, and otherwise only deleted; a  *)
(* ticket likewise.  So a replica has seen no write of it or exactly that  *)
(* one, and a replica that has seen it deleted never takes it back from    *)
(* one that has not.  About the nodes the argument is one of the latest    *)
(* state, from which every call starts as long as nothing races.           *)
(***************************************************************************)
EXTENDS Admission, ReplicaProofs

Entry(g, i) == doc[g][InviteKey(i)]

Unseen == [g \in Gateways |-> 0]
SeenOf(m) == [g \in Gateways |-> IF g = m THEN 1 ELSE 0]

IsRecord(e) == e = [val |-> e.val, seen |-> e.seen, by |-> e.by]

\* An entry of an invite that m makes: not seen and not there, or seen once.
OneWrite(e, m) ==
  /\ IsRecord(e)
  /\ (e.seen = Unseen /\ e.val = Gone) \/ e.seen = SeenOf(m)

DocShape == doc = [g \in Gateways |-> [k \in Keys |-> doc[g][k]]]

WrittenOnce ==
  \A i \in Invites : \E m \in Gateways : \A g \in Gateways : OneWrite(Entry(g, i), m)

NotYetIssued ==
  \A i \in Invites, g \in Gateways : i > issued =>
    Entry(g, i).seen = Unseen /\ Entry(g, i).val = Gone

UsesShape == uses \in [Invites -> [Gateways -> Nat]]

\* Where an invite has let somebody in, it did so once, was seen and is gone.
UsedIsGone ==
  \A i \in Invites, g \in Gateways : uses[i][g] # 0 =>
    uses[i][g] = 1 /\ Entry(g, i).val = Gone /\ Entry(g, i).seen # Unseen

IInv ==
  /\ issued \in Nat
  /\ DocShape
  /\ WrittenOnce
  /\ NotYetIssued
  /\ UsesShape
  /\ UsedIsGone
  /\ SingleUse

-----------------------------------------------------------------------------
(***************************************************************************)
(* Merging two entries of one write.                                       *)
(***************************************************************************)

\* One write is seen or it is not.
LEMMA SeenDiffers ==
  ASSUME NEW m \in Gateways
  PROVE  SeenOf(m) # Unseen
BY DEF SeenOf, Unseen

\* What includes what.
LEMMA IncludesCases ==
  ASSUME NEW m \in Gateways, NEW e, NEW f, OneWrite(e, m), OneWrite(f, m)
  PROVE  /\ f.seen = Unseen => Includes(e, f)
         /\ e.seen = SeenOf(m) => Includes(e, f)
         /\ e.seen = Unseen /\ f.seen = SeenOf(m) => ~Includes(e, f)
BY DEF Includes, OneWrite, Unseen, SeenOf

\* Merging takes one of the two entries; a seen deletion stays, and a deletion that
\* is received is taken over.
LEMMA MergeOneWrite ==
  ASSUME NEW m \in Gateways, NEW e, NEW f, OneWrite(e, m), OneWrite(f, m)
  PROVE  /\ OneWrite(Merge(e, f), m)
         /\ e.seen = Unseen /\ f.seen = Unseen =>
              Merge(e, f).seen = Unseen /\ Merge(e, f).val = Gone
         /\ e.val = Gone /\ e.seen # Unseen =>
              Merge(e, f).val = Gone /\ Merge(e, f).seen # Unseen
         /\ e.seen = SeenOf(m) /\ f.seen = SeenOf(m) /\ f.val = Gone =>
              Merge(e, f) = f
<1>1. CASE e.seen = Unseen /\ f.seen = Unseen
  <2>1. Includes(e, f) /\ Includes(f, e) /\ f.val = Gone
    BY <1>1, IncludesCases, SeenDiffers DEF OneWrite
  <2>2. Merge(e, f) = f
    BY <2>1 DEF Merge
  <2> QED BY <1>1, <2>1, <2>2, SeenDiffers
<1>2. CASE e.seen = SeenOf(m) /\ f.seen = Unseen
  <2>1. Includes(e, f) /\ ~Includes(f, e)
    BY <1>2, IncludesCases
  <2>2. Merge(e, f) = e
    BY <2>1 DEF Merge
  <2> QED BY <1>2, <2>2, SeenDiffers
<1>3. CASE e.seen = Unseen /\ f.seen = SeenOf(m)
  <2>1. ~Includes(e, f) /\ Includes(f, e)
    BY <1>3, IncludesCases
  <2>2. Merge(e, f) = f
    BY <2>1 DEF Merge
  <2> QED BY <1>3, <2>2, SeenDiffers
<1>4. CASE e.seen = SeenOf(m) /\ f.seen = SeenOf(m)
  <2>1. Includes(e, f) /\ Includes(f, e)
    BY <1>4, IncludesCases
  <2>2. Merge(e, f) = IF f.val = Gone THEN f ELSE e
    BY <2>1 DEF Merge
  <2> QED BY <1>4, <2>2, SeenDiffers
<1> QED BY <1>1, <1>2, <1>3, <1>4 DEF OneWrite

-----------------------------------------------------------------------------
(***************************************************************************)
(* What a call does to the invites: it leaves them or deletes them.  Only  *)
(* GenerateInviteToken writes one.                                         *)
(***************************************************************************)

Left(g, i) == Entry(g, i)' = Entry(g, i)

Dropped(g, i) ==
  /\ IsRecord(Entry(g, i)')
  /\ Entry(g, i)'.val = Gone /\ Entry(g, i)'.seen = Entry(g, i).seen

Quiet == \A g \in Gateways, i \in Invites : Left(g, i) \/ Dropped(g, i)

\* The keys of different maps are different.
LEMMA KeysDiffer ==
  /\ \A i \in Invites : InviteKey(i) \in Keys
  /\ \A i \in Invites, n \in Nodes : InviteKey(i) # NodeKey(n)
  /\ \A i \in Invites : \A t : InviteKey(i) # TicketKey(t)
  /\ \A i, j \in Invites : InviteKey(i) = InviteKey(j) => i = j
BY DEF Keys, InviteKey, NodeKey, TicketKey

\* A gateway that deletes invites, and writes others keys, is quiet.
LEMMA QuietWrites ==
  ASSUME NEW g \in Gateways, NEW f, Writes(g, f), DocShape, WrittenOnce,
         \A i \in Invites : InviteKey(i) \in DOMAIN f => f[InviteKey(i)] = Gone
  PROVE  /\ DocShape'
         /\ Quiet
         /\ \A i \in Invites : InviteKey(i) \in DOMAIN f => Dropped(g, i)
<1>1. \A h \in Gateways, k \in Keys : doc'[h][k] =
        IF h # g \/ k \notin DOMAIN f THEN doc[h][k]
        ELSE IF f[k] = Gone THEN Delete(doc[g][k]) ELSE Set(doc[g][k], g, f[k])
  BY DEF Writes, DocShape
<1>2. DocShape'
  BY DEF Writes, DocShape
<1>3. \A i \in Invites : IsRecord(Entry(g, i))
  BY DEF WrittenOnce, OneWrite
<1>4. \A i \in Invites : InviteKey(i) \in DOMAIN f => Dropped(g, i)
  <2>1. SUFFICES ASSUME NEW i \in Invites, InviteKey(i) \in DOMAIN f
                 PROVE  Dropped(g, i)
    OBVIOUS
  <2>2. Entry(g, i)' = [Entry(g, i) EXCEPT !.val = Gone]
    BY <1>1, <2>1, KeysDiffer DEF Entry, Delete
  <2>3. IsRecord(Entry(g, i))
    BY <1>3
  <2>4. /\ Entry(g, i)'.val = Gone /\ Entry(g, i)'.seen = Entry(g, i).seen
        /\ IsRecord(Entry(g, i)')
    BY <2>2, <2>3 DEF IsRecord
  <2> QED BY <2>4 DEF Dropped
<1>5. Quiet
  <2>1. SUFFICES ASSUME NEW h \in Gateways, NEW i \in Invites
                 PROVE  Left(h, i) \/ Dropped(h, i)
    BY DEF Quiet
  <2>2. CASE h = g /\ InviteKey(i) \in DOMAIN f
    BY <2>2, <1>4
  <2>3. CASE h # g \/ InviteKey(i) \notin DOMAIN f
    BY <2>3, <1>1, KeysDiffer DEF Left, Entry
  <2> QED BY <2>2, <2>3
<1> QED BY <1>2, <1>4, <1>5

\* A quiet step keeps what is known of the entries.
LEMMA QuietKeeps ==
  ASSUME WrittenOnce, NotYetIssued, Quiet, issued' = issued
  PROVE  WrittenOnce' /\ NotYetIssued'
<1>1. ASSUME NEW i \in Invites, NEW g \in Gateways, NEW m \in Gateways, OneWrite(Entry(g, i), m)
      PROVE  OneWrite(Entry(g, i)', m)
  BY <1>1 DEF Quiet, Left, Dropped, OneWrite
<1>2. WrittenOnce'
  <2>1. SUFFICES ASSUME NEW i \in Invites
                 PROVE  \E m \in Gateways : \A g \in Gateways : OneWrite(Entry(g, i)', m)
    BY DEF WrittenOnce
  <2>2. PICK m \in Gateways : \A g \in Gateways : OneWrite(Entry(g, i), m)
    BY DEF WrittenOnce
  <2> QED BY <2>2, <1>1
<1>3. NotYetIssued'
  BY DEF NotYetIssued, Quiet, Left, Dropped
<1> QED BY <1>2, <1>3

\* A quiet step in which nobody enters keeps the invariant.
LEMMA QuietStep ==
  ASSUME IInv, Quiet, DocShape', issued' = issued, uses' = uses, raced \subseteq raced'
  PROVE  IInv'
<1>1. WrittenOnce' /\ NotYetIssued'
  BY QuietKeeps DEF IInv
<1>2. UsedIsGone'
  BY DEF IInv, UsedIsGone, Quiet, Left, Dropped
<1>3. SingleUse'
  BY DEF IInv, SingleUse
<1> QED BY <1>1, <1>2, <1>3 DEF IInv, UsesShape

\* Where everything about invites has arrived, an invite somebody used is gone.
LEMMA UpToDateKnowsUses ==
  ASSUME IInv, NEW g \in Gateways, NEW h \in Gateways, NEW i \in Invites,
         UpToDate(g, "invite"), uses[i][h] # 0
  PROVE  Entry(g, i).val = Gone
<1>1. PICK m \in Gateways : \A x \in Gateways : OneWrite(Entry(x, i), m)
  BY DEF IInv, WrittenOnce
<1>2. Entry(h, i).val = Gone /\ Entry(h, i).seen = SeenOf(m)
  BY <1>1 DEF IInv, UsedIsGone, OneWrite
<1>3. SUFFICES ASSUME Entry(g, i).val # Gone
               PROVE  FALSE
  OBVIOUS
<1>4. Entry(g, i).seen = SeenOf(m)
  BY <1>1, <1>3 DEF OneWrite
<1>5. Merge(Entry(g, i), Entry(h, i)) = Entry(h, i)
  BY <1>1, <1>2, <1>4, MergeOneWrite
<1>6. Merge(Entry(g, i), Entry(h, i)) = Entry(g, i)
  BY KeysDiffer DEF UpToDate, Entry, InviteKey
<1> QED BY <1>2, <1>3, <1>5, <1>6

\* A step that enters a node by an invite keeps the invariant.
LEMMA EnterStep ==
  ASSUME IInv, NEW g \in Gateways, NEW i \in Invites, NEW n \in Nodes, NEW more,
         \A j \in Invites : InviteKey(j) \notin DOMAIN more,
         Call(g, Kinds), IsGoodFor(g, i, n), Enter(g, i, n, more), issued' = issued
  PROVE  IInv'
<1> DEFINE f == [k \in EnterKeys(g, i, n) \union DOMAIN more |->
                   IF k = NodeKey(n) THEN [tier |-> Invite(g, i).tier, by |-> Invite(g, i).by]
                   ELSE IF k \in DOMAIN more THEN more[k] ELSE Gone]
<1>1. Writes(g, f)
  BY DEF Enter
<1>2. \A j \in Invites : InviteKey(j) \in DOMAIN f => f[InviteKey(j)] = Gone
  BY KeysDiffer DEF EnterKeys
<1>3. InviteKey(i) \in DOMAIN f
  BY DEF EnterKeys
<1> HIDE DEF f
<1>4. DocShape' /\ Quiet /\ Dropped(g, i)
  BY <1>1, <1>2, <1>3, QuietWrites DEF IInv
<1>5. WrittenOnce' /\ NotYetIssued'
  BY <1>4, QuietKeeps DEF IInv
<1>6. Entry(g, i).val # Gone
  BY DEF IsGoodFor, Invite, Entry
<1>7. uses[i][g] = 0
  BY <1>6 DEF IInv, UsedIsGone
<1>8. Entry(g, i).seen # Unseen
  BY <1>6, SeenDiffers DEF IInv, WrittenOnce, OneWrite
<1>9. /\ uses' \in [Invites -> [Gateways -> Nat]]
      /\ \A j \in Invites, h \in Gateways :
           uses'[j][h] = IF j = i /\ h = g THEN 1 ELSE uses[j][h]
  BY <1>7 DEF Enter, IInv, UsesShape
<1>10. UsedIsGone'
  <2>1. SUFFICES ASSUME NEW j \in Invites, NEW h \in Gateways, uses'[j][h] # 0
                 PROVE  uses'[j][h] = 1 /\ Entry(h, j)'.val = Gone /\ Entry(h, j)'.seen # Unseen
    BY DEF UsedIsGone
  <2>2. CASE j = i /\ h = g
    BY <2>2, <1>4, <1>8, <1>9 DEF Dropped
  <2>3. CASE ~(j = i /\ h = g)
    BY <2>1, <2>3, <1>4, <1>9 DEF IInv, UsedIsGone, Quiet, Left, Dropped
  <2> QED BY <2>2, <2>3
<1>11. SingleUse'
  <2>1. SUFFICES ASSUME "invite" \notin raced',
                        NEW j \in Invites, NEW h \in Gateways, NEW x \in Gateways, h # x
                 PROVE  uses'[j][h] + uses'[j][x] <= 1
    BY DEF SingleUse
  <2>2. "invite" \notin raced /\ UpToDate(g, "invite")
    BY <2>1 DEF Call, Kinds
  <2>3. \A y \in Gateways : uses[i][y] = 0
    BY <2>2, <1>6, UpToDateKnowsUses
  <2>4. uses[j][h] + uses[j][x] <= 1
    BY <2>1, <2>2 DEF IInv, SingleUse
  <2> QED BY <2>1, <2>3, <2>4, <1>9
<1> QED BY <1>4, <1>5, <1>9, <1>10, <1>11 DEF IInv, UsesShape

\* A call that finds the invite expired keeps the invariant.
LEMMA DropStep ==
  ASSUME IInv, NEW g \in Gateways, NEW i \in Invites, NEW keys,
         Call(g, Kinds), DropExpired(g, i, keys), issued' = issued
  PROVE  IInv'
<1> DEFINE f == [k \in keys \union {InviteKey(i)} |-> Gone]
<1>1. Writes(g, f)
  BY DEF DropExpired
<1>2. \A j \in Invites : InviteKey(j) \in DOMAIN f => f[InviteKey(j)] = Gone
  OBVIOUS
<1> HIDE DEF f
<1>3. DocShape' /\ Quiet
  BY <1>1, <1>2, QuietWrites DEF IInv
<1> QED BY <1>3, QuietStep DEF DropExpired, Call

-----------------------------------------------------------------------------
(***************************************************************************)
(* The initial states, and one lemma for each action that is not quiet.    *)
(***************************************************************************)

\* No initial document holds an invite.
LEMMA InitIInv == Init => IInv
<1>1. SUFFICES ASSUME Init
               PROVE  IInv
  OBVIOUS
<1>2. PICK M \in {{}, Gateways} :
        /\ doc = [g \in Gateways |-> [k \in Keys |->
                    First(IF \E n \in M : k = NodeKey(n)
                          THEN [tier |-> "backbone", by |-> k[2]] ELSE Gone)]]
        /\ issued = 0
        /\ uses = [i \in Invites |-> [g \in Gateways |-> 0]]
  BY <1>1 DEF Init
<1>3. M \subseteq Nodes
  BY <1>2, AdmissionAssumption
<1>4. \A g \in Gateways, i \in Invites : Entry(g, i) = First(Gone)
  BY <1>2, <1>3, KeysDiffer DEF Entry
<1>5. \A g \in Gateways, i \in Invites :
        IsRecord(Entry(g, i)) /\ Entry(g, i).seen = Unseen /\ Entry(g, i).val = Gone
  BY <1>4 DEF First, IsRecord, Unseen
<1>6. WrittenOnce
  BY <1>5, ReplicaAssumption DEF WrittenOnce, OneWrite
<1>7. NotYetIssued
  BY <1>5 DEF NotYetIssued
<1>8. UsesShape /\ UsedIsGone /\ SingleUse
  BY <1>2 DEF UsesShape, UsedIsGone, SingleUse
<1>9. issued \in Nat /\ DocShape
  BY <1>2 DEF DocShape
<1> QED BY <1>6, <1>7, <1>8, <1>9 DEF IInv

\* Receiving merges entries of one write each.
LEMMA ReceiveStep ==
  ASSUME IInv, NEW g \in Gateways, NEW h \in Gateways, Receive(g, h)
  PROVE  IInv'
<1>1. \A x \in Gateways, k \in Keys :
        doc'[x][k] = IF x = h THEN Merge(doc[h][k], doc[g][k]) ELSE doc[x][k]
  BY DEF Receive, Received, IInv, DocShape
<1>2. DocShape'
  BY DEF Receive, Received, IInv, DocShape
<1>3. \A x \in Gateways, i \in Invites :
        Entry(x, i)' = IF x = h THEN Merge(Entry(h, i), Entry(g, i)) ELSE Entry(x, i)
  BY <1>1, KeysDiffer DEF Entry
<1> HIDE DEF Entry
<1>4. WrittenOnce'
  <2>1. SUFFICES ASSUME NEW i \in Invites
                 PROVE  \E m \in Gateways : \A x \in Gateways : OneWrite(Entry(x, i)', m)
    BY DEF WrittenOnce
  <2>2. PICK m \in Gateways : \A x \in Gateways : OneWrite(Entry(x, i), m)
    BY DEF IInv, WrittenOnce
  <2>3. OneWrite(Merge(Entry(h, i), Entry(g, i)), m)
    BY <2>2, MergeOneWrite
  <2> QED BY <2>2, <2>3, <1>3
<1>5. NotYetIssued'
  <2>1. SUFFICES ASSUME NEW i \in Invites, NEW x \in Gateways, i > issued
                 PROVE  Entry(x, i)'.seen = Unseen /\ Entry(x, i)'.val = Gone
    BY DEF NotYetIssued, Receive
  <2>2. PICK m \in Gateways : \A y \in Gateways : OneWrite(Entry(y, i), m)
    BY DEF IInv, WrittenOnce
  <2>3. \A y \in Gateways : Entry(y, i).seen = Unseen /\ Entry(y, i).val = Gone
    BY <2>1 DEF IInv, NotYetIssued
  <2> QED BY <2>2, <2>3, <1>3, MergeOneWrite
<1>6. UsedIsGone'
  <2>1. SUFFICES ASSUME NEW i \in Invites, NEW x \in Gateways, uses[i][x] # 0
                 PROVE  uses[i][x] = 1 /\ Entry(x, i)'.val = Gone /\ Entry(x, i)'.seen # Unseen
    BY DEF UsedIsGone, Receive
  <2>2. PICK m \in Gateways : \A y \in Gateways : OneWrite(Entry(y, i), m)
    BY DEF IInv, WrittenOnce
  <2>3. uses[i][x] = 1 /\ Entry(x, i).val = Gone /\ Entry(x, i).seen # Unseen
    BY <2>1 DEF IInv, UsedIsGone
  <2> QED BY <2>2, <2>3, <1>3, MergeOneWrite
<1>7. UsesShape' /\ SingleUse' /\ issued' \in Nat
  BY DEF IInv, UsesShape, SingleUse, Receive
<1> QED BY <1>2, <1>4, <1>5, <1>6, <1>7 DEF IInv

\* A new invite is the first write of its key, and nobody has used it.
LEMMA GenerateStep ==
  ASSUME IInv, NEW g \in Gateways, NEW tier, NEW bound, GenerateInviteToken(g, tier, bound)
  PROVE  IInv'
<1>0. PICK new \in Invites : new = issued + 1
  BY AdmissionAssumption DEF GenerateInviteToken, IInv, Invites
<1> DEFINE v == [tier |-> tier, bound |-> bound, by |-> g]
           f == [k \in {InviteKey(new)} |-> v]
<1>1. new = issued + 1 /\ issued' = new /\ uses' = uses /\ raced \subseteq raced'
  BY <1>0 DEF GenerateInviteToken, Prepare, Call
<1>2. Writes(g, f)
  BY <1>0 DEF GenerateInviteToken
<1>3. \A x \in Gateways, k \in Keys : doc'[x][k] =
        IF x # g \/ k # InviteKey(new) THEN doc[x][k]
        ELSE IF v = Gone THEN Delete(doc[g][k]) ELSE Set(doc[g][k], g, v)
  BY <1>2 DEF Writes, IInv, DocShape
<1>4. DocShape'
  BY <1>2 DEF Writes, IInv, DocShape
<1> HIDE DEF f, v
<1>5. /\ \A x \in Gateways, i \in Invites : ~(x = g /\ i = new) => Entry(x, i)' = Entry(x, i)
      /\ Entry(g, new)' = IF v = Gone THEN Delete(Entry(g, new)) ELSE Set(Entry(g, new), g, v)
  BY <1>1, <1>3, KeysDiffer DEF Entry
<1>6. \A x \in Gateways :
        IsRecord(Entry(x, new)) /\ Entry(x, new).seen = Unseen /\ Entry(x, new).val = Gone
  BY <1>1 DEF IInv, WrittenOnce, OneWrite, NotYetIssued, Invites
<1>7. OneWrite(Entry(g, new)', g)
  <2>1. CASE v = Gone
    <3>1. Entry(g, new)' = [Entry(g, new) EXCEPT !.val = Gone]
      BY <2>1, <1>5 DEF Delete
    <3>2. Entry(g, new) = [val |-> Entry(g, new).val, seen |-> Entry(g, new).seen,
                           by |-> Entry(g, new).by]
      BY <1>6 DEF IsRecord
    <3>3. IsRecord(Entry(g, new)') /\ Entry(g, new)'.val = Gone
            /\ Entry(g, new)'.seen = Unseen
      BY <3>1, <3>2, <1>6 DEF IsRecord
    <3> QED BY <3>3 DEF OneWrite
  <2>2. CASE v # Gone
    <3>1. Entry(g, new)' = [val |-> v, seen |-> [Entry(g, new).seen EXCEPT ![g] = @ + 1], by |-> g]
      BY <2>2, <1>5 DEF Set
    <3>2. [Entry(g, new).seen EXCEPT ![g] = @ + 1] = SeenOf(g)
      BY <1>6 DEF Unseen, SeenOf
    <3> QED BY <3>1, <3>2 DEF OneWrite, IsRecord
  <2> QED BY <2>1, <2>2
<1>8. WrittenOnce'
  <2>1. SUFFICES ASSUME NEW i \in Invites
                 PROVE  \E m \in Gateways : \A x \in Gateways : OneWrite(Entry(x, i)', m)
    BY DEF WrittenOnce
  <2>2. CASE i = new
    <3>1. ASSUME NEW x \in Gateways
          PROVE  OneWrite(Entry(x, i)', g)
      <4>1. CASE x = g
        BY <4>1, <2>2, <1>7
      <4>2. CASE x # g
        <5>1. Entry(x, i)' = Entry(x, new)
          BY <4>2, <2>2, <1>5
        <5> QED BY <5>1, <1>6 DEF OneWrite
      <4> QED BY <4>1, <4>2
    <3> QED BY <3>1
  <2>3. CASE i # new
    BY <2>3, <1>5 DEF IInv, WrittenOnce
  <2> QED BY <2>2, <2>3
<1>9. NotYetIssued'
  <2>1. SUFFICES ASSUME NEW i \in Invites, NEW x \in Gateways, i > new
                 PROVE  Entry(x, i)'.seen = Unseen /\ Entry(x, i)'.val = Gone
    BY <1>1 DEF NotYetIssued
  <2>2. i # new /\ i > issued
    BY <2>1, <1>1 DEF IInv, Invites
  <2> QED BY <2>2, <1>5 DEF IInv, NotYetIssued
<1>10. UsedIsGone'
  <2>1. uses[new][g] = 0
    BY <1>1, <1>6 DEF IInv, UsedIsGone
  <2> QED BY <2>1, <1>1, <1>5 DEF IInv, UsedIsGone
<1>11. UsesShape' /\ SingleUse' /\ issued' \in Nat
  BY <1>1 DEF IInv, UsesShape, SingleUse
<1> QED BY <1>4, <1>8, <1>9, <1>10, <1>11 DEF IInv

-----------------------------------------------------------------------------
(***************************************************************************)
(* The quiet actions.                                                      *)
(***************************************************************************)

\* What a call writes besides invites.
LEMMA OtherKeys ==
  /\ \A g \in Gateways, i \in Invites : InviteKey(i) \notin DeadTickets(g)
  /\ \A i \in Invites : InviteKey(i) \notin DOMAIN Nothing
BY KeysDiffer DEF DeadTickets, Nothing

\* A call that writes no invite, and lets nobody in, keeps the invariant.
LEMMA OtherWrites ==
  ASSUME IInv, NEW g \in Gateways, NEW f, Writes(g, f), NEW kinds, Call(g, kinds),
         \A i \in Invites : InviteKey(i) \notin DOMAIN f,
         issued' = issued, uses' = uses
  PROVE  IInv'
<1>1. DocShape' /\ Quiet
  BY QuietWrites DEF IInv
<1> QED BY <1>1, QuietStep DEF Call

\* A step that leaves the document and the history alone.
LEMMA DocUnchanged ==
  ASSUME IInv, UNCHANGED <<doc, issued, uses, raced>>
  PROVE  IInv'
BY DEF IInv, DocShape, WrittenOnce, OneWrite, IsRecord, NotYetIssued, UsesShape, UsedIsGone,
       SingleUse, Entry

LEMMA BootstrapStep ==
  ASSUME IInv, NEW g \in Gateways, NEW tier \in Tier, BootstrapFirstNode(g, tier)
  PROVE  IInv'
<1> DEFINE f == [k \in {NodeKey(g)} |-> [tier |-> tier, by |-> g]]
<1>1. Writes(g, f) /\ Call(g, {"node"}) /\ issued' = issued /\ uses' = uses
  BY DEF BootstrapFirstNode, Prepare
<1>2. \A i \in Invites : InviteKey(i) \notin DOMAIN f
  BY KeysDiffer, AdmissionAssumption
<1> HIDE DEF f
<1> QED BY <1>1, <1>2, OtherWrites

LEMMA SyncStep ==
  ASSUME IInv, NEW g \in Gateways, NEW tier \in Tier, SyncNodeCapabilities(g, tier)
  PROVE  IInv'
<1> DEFINE info == IF IsKnown(g, g) THEN Node(g, g) ELSE [tier |-> tier, by |-> g]
           f == [k \in {NodeKey(g)} |-> info]
<1>1. Writes(g, f) /\ Call(g, {"node"}) /\ issued' = issued /\ uses' = uses
  BY DEF SyncNodeCapabilities
<1>2. \A i \in Invites : InviteKey(i) \notin DOMAIN f
  BY KeysDiffer, AdmissionAssumption
<1> HIDE DEF f
<1> QED BY <1>1, <1>2, OtherWrites

LEMMA RevokeStep ==
  ASSUME IInv, NEW g \in Gateways, NEW n \in Nodes, RevokeNode(g, n)
  PROVE  IInv'
<1> DEFINE f == [k \in {NodeKey(n)} |-> Gone]
<1>1. Writes(g, f) /\ Call(g, {"node"}) /\ issued' = issued /\ uses' = uses
  BY DEF RevokeNode, Prepare
<1>2. \A i \in Invites : InviteKey(i) \notin DOMAIN f
  BY KeysDiffer
<1> HIDE DEF f
<1> QED BY <1>1, <1>2, OtherWrites

LEMMA PruneStep ==
  ASSUME IInv, NEW g \in Gateways, Prune(g), Call(g, Kinds), issued' = issued
  PROVE  IInv'
<1> DEFINE f == [k \in DeadTickets(g) |-> Gone]
<1>1. Writes(g, f) /\ uses' = uses
  BY DEF Prune
<1>2. \A i \in Invites : InviteKey(i) \notin DOMAIN f
  BY OtherKeys
<1> HIDE DEF f
<1> QED BY <1>1, <1>2, OtherWrites

LEMMA MintStep ==
  ASSUME IInv, NEW g \in Gateways, NEW i \in Invites, NEW n \in Nodes,
         MintWsTicketFromInvite(g, i, n)
  PROVE  IInv'
<1>1. Call(g, Kinds) /\ issued' = issued
  BY DEF MintWsTicketFromInvite, Prepare
<1>2. CASE DropExpired(g, i, DeadTickets(g))
  BY <1>1, <1>2, DropStep
<1>3. CASE Prune(g)
  BY <1>1, <1>3, PruneStep
<1>4. CASE /\ Writes(g, [k \in DeadTickets(g) \union {TicketKey(minted + 1)} |->
                          IF k = TicketKey(minted + 1)
                          THEN [invite |-> i, node |-> n, used |-> FALSE] ELSE Gone])
           /\ uses' = uses
  <2> DEFINE f == [k \in DeadTickets(g) \union {TicketKey(minted + 1)} |->
                     IF k = TicketKey(minted + 1)
                     THEN [invite |-> i, node |-> n, used |-> FALSE] ELSE Gone]
  <2>1. Writes(g, f)
    BY <1>4
  <2>2. \A j \in Invites : InviteKey(j) \notin DOMAIN f
    BY KeysDiffer, OtherKeys
  <2> HIDE DEF f
  <2> QED BY <2>1, <2>2, <1>1, <1>4, OtherWrites
<1> QED BY <1>2, <1>3, <1>4 DEF MintWsTicketFromInvite

LEMMA JoinStep ==
  ASSUME IInv, NEW g \in Gateways, NEW i \in Invites, JoinWithToken(g, i)
  PROVE  IInv'
<1>1. Call(g, Kinds) /\ issued' = issued /\ g \in Nodes
  BY AdmissionAssumption DEF JoinWithToken
<1>2. CASE IsGoodFor(g, i, g) /\ Enter(g, i, g, Nothing)
  BY <1>1, <1>2, EnterStep, OtherKeys
<1>3. CASE DropExpired(g, i, {})
  BY <1>1, <1>3, DropStep
<1> QED BY <1>2, <1>3 DEF JoinWithToken

LEMMA AcceptInviteStep ==
  ASSUME IInv, NEW g \in Gateways, NEW n \in Nodes, NEW i \in Invites, AcceptInvite(g, n, i)
  PROVE  IInv'
<1>1. Call(g, Kinds) /\ issued' = issued
  BY DEF AcceptInvite
<1>2. CASE IsGoodFor(g, i, n) /\ Enter(g, i, n, Nothing)
  BY <1>1, <1>2, EnterStep, OtherKeys
<1>3. CASE DropExpired(g, i, {})
  BY <1>1, <1>3, DropStep
<1> QED BY <1>2, <1>3 DEF AcceptInvite

LEMMA AcceptTicketStep ==
  ASSUME IInv, NEW g \in Gateways, NEW n \in Nodes, NEW t \in Tickets, NEW i \in Invites,
         AcceptTicket(g, n, t, i)
  PROVE  IInv'
<1> DEFINE kept == [k \in DeadTickets(g) \union {TicketKey(t)} |->
                      IF k = TicketKey(t) THEN [Ticket(g, t) EXCEPT !.used = TRUE] ELSE Gone]
<1>1. Call(g, Kinds) /\ issued' = issued /\ Ticket(g, t).invite = i
  BY DEF AcceptTicket
<1>2. \A j \in Invites : InviteKey(j) \notin DOMAIN kept
  BY KeysDiffer, OtherKeys
<1>3. \/ TicketIsGood(g, t, n) /\ Enter(g, i, n, kept)
      \/ DropExpired(g, i, DeadTickets(g))
      \/ Prune(g)
  BY DEF AcceptTicket
<1> HIDE DEF kept
<1>4. CASE TicketIsGood(g, t, n) /\ Enter(g, i, n, kept)
  BY <1>1, <1>2, <1>4, EnterStep DEF TicketIsGood
<1>5. CASE DropExpired(g, i, DeadTickets(g))
  BY <1>1, <1>5, DropStep
<1>6. CASE Prune(g)
  BY <1>1, <1>6, PruneStep
<1> QED BY <1>3, <1>4, <1>5, <1>6

-----------------------------------------------------------------------------
\* Every step keeps the invariant.
LEMMA NextIInv ==
  ASSUME IInv, [Next]_vars
  PROVE  IInv'
<1>1. CASE UNCHANGED vars
  BY <1>1, DocUnchanged DEF vars
<1>2. ASSUME NEW g \in Gateways, Membership(g)
      PROVE  IInv'
  BY <1>2, SyncStep, BootstrapStep, GenerateStep, JoinStep, RevokeStep, MintStep DEF Membership
<1>3. ASSUME NEW g \in Gateways, Connections(g)
      PROVE  IInv'
  <2>1. PICK n \in Nodes \ {g} :
          \/ AcceptKnown(g, n) \/ Disconnect(g, n)
          \/ \E t \in Tickets, i \in Invites : AcceptTicket(g, n, t, i)
          \/ \E i \in Invites : AcceptInvite(g, n, i)
    BY <1>3 DEF Connections
  <2>2. CASE AcceptKnown(g, n) \/ Disconnect(g, n)
    BY <2>2, DocUnchanged DEF AcceptKnown, Disconnect
  <2> QED BY <2>1, <2>2, AcceptTicketStep, AcceptInviteStep
<1>4. ASSUME NEW g \in Gateways, NEW h \in Gateways, Receive(g, h)
      PROVE  IInv'
  BY <1>4, ReceiveStep
<1>5. CASE TimePasses
  BY <1>5, DocUnchanged DEF TimePasses, Expire
<1> QED BY <1>1, <1>2, <1>3, <1>4, <1>5 DEF Next

\* The inductive invariant holds.
THEOREM Inductive == Spec => []IInv
<1>1. IInv /\ [Next]_vars => IInv'
  BY NextIInv
<1> QED BY InitIInv, <1>1, PTL DEF Spec

\* An invite lets nobody in twice on the same gateway, whatever arrives late:
\* admission by token, by invite and by ticket (src/auth.ts, src/admission.ts).
THEOREM OnceOnEveryGateway == Spec => []OncePerGateway
<1>1. IInv => OncePerGateway
  <2>1. SUFFICES ASSUME IInv, NEW i \in Invites, NEW g \in Gateways
                 PROVE  uses[i][g] <= 1
    BY DEF OncePerGateway
  <2>2. uses[i][g] \in Nat
    BY <2>1 DEF IInv, UsesShape
  <2> QED BY <2>1, <2>2 DEF IInv, UsedIsGone
<1> QED BY Inductive, <1>1, PTL

\* An invite is single-use in the whole network as long as calls are made on
\* gateways that have received everything about invites.
THEOREM SingleUseInTheNetwork == Spec => []SingleUse
<1>1. IInv => SingleUse
  BY DEF IInv
<1> QED BY Inductive, <1>1, PTL

-----------------------------------------------------------------------------
(***************************************************************************)
(* What the calls write.  Whatever it is for, a call makes one new invite  *)
(* at most, mints a ticket only from an invite that is good for its node,  *)
(* enters a node only with a warrant or as the gateway itself, and leaves  *)
(* a backbone node where it touches the list of nodes (or the network      *)
(* counts as demoted, or the call raced with another).                     *)
(***************************************************************************)

WritesInvites(f) ==
  \A i \in Invites : InviteKey(i) \in DOMAIN f =>
    \/ f[InviteKey(i)] = Gone
    \/ f[InviteKey(i)] \in PendingInvite /\ i = issued + 1 /\ issued' = i

WritesTickets(g, f) ==
  \A t \in Tickets : TicketKey(t) \in DOMAIN f =>
    \/ f[TicketKey(t)] = Gone
    \/ Ticket(g, t) # Gone /\ f[TicketKey(t)] = [Ticket(g, t) EXCEPT !.used = TRUE]
    \/ /\ t = minted + 1 /\ minted' = t
       /\ \E i \in Invites, n \in Nodes :
            IsGoodFor(g, i, n) /\ f[TicketKey(t)] = [invite |-> i, node |-> n, used |-> FALSE]

WritesNodes(g, f) ==
  \A n \in Nodes : NodeKey(n) \in DOMAIN f =>
    \/ f[NodeKey(n)] \in {Gone, Node(g, n)}
    \/ /\ f[NodeKey(n)] \in NodeInfo
       /\ \/ n \in Gateways /\ f[NodeKey(n)].by = n
          \/ [node |-> n, tier |-> f[NodeKey(n)].tier, by |-> f[NodeKey(n)].by] \in warrants'

LeavesBackbone(g, f) ==
  \/ demoted' \/ ~UpToDate(g, "node")
  \/ \A n \in Nodes : NodeKey(n) \notin DOMAIN f
  \/ \E n \in Nodes : IsBackbone(g, n) /\ NodeKey(n) \notin DOMAIN f
  \/ \E n \in Nodes : /\ NodeKey(n) \in DOMAIN f /\ f[NodeKey(n)] # Gone
                      /\ f[NodeKey(n)].tier = "backbone"

LegalWrite(g, f) ==
  /\ Writes(g, f)
  /\ WritesInvites(f) /\ WritesTickets(g, f) /\ WritesNodes(g, f)
  /\ LeavesBackbone(g, f)

EntriesOK == \A g \in Gateways, k \in Keys : IsEntry(doc[g][k], ValueOf(k))

\* Every key has its map, and different keys have different names.
LEMMA AllKeys ==
  /\ \A n \in Nodes : NodeKey(n) \in Keys /\ ValueOf(NodeKey(n)) = NodeInfo
  /\ \A i \in Invites : InviteKey(i) \in Keys /\ ValueOf(InviteKey(i)) = PendingInvite
  /\ \A t \in Tickets : TicketKey(t) \in Keys /\ ValueOf(TicketKey(t)) = WsTicketRecord
  /\ \A k \in Keys : \/ \E n \in Nodes : k = NodeKey(n)
                     \/ \E i \in Invites : k = InviteKey(i)
                     \/ \E t \in Tickets : k = TicketKey(t)
  /\ \A n, t, i : /\ NodeKey(n) # InviteKey(i) /\ NodeKey(n) # TicketKey(t)
                  /\ InviteKey(i) # TicketKey(t)
  /\ \A x, y : /\ NodeKey(x) = NodeKey(y) => x = y
               /\ InviteKey(x) = InviteKey(y) => x = y
               /\ TicketKey(x) = TicketKey(y) => x = y
BY DEF Keys, NodeKey, InviteKey, TicketKey, ValueOf

\* What the maps of a well-typed document hold.
LEMMA HeldValues ==
  ASSUME EntriesOK, NEW g \in Gateways
  PROVE  /\ \A n \in Nodes : Node(g, n) \in NodeInfo \union {Gone}
         /\ \A i \in Invites : Invite(g, i) \in PendingInvite \union {Gone}
         /\ \A t \in Tickets : Ticket(g, t) \in WsTicketRecord \union {Gone}
BY AllKeys DEF EntriesOK, IsEntry, Node, Invite, Ticket

\* The values a legal write leaves, and that it moves its gateway forward only.
LEMMA LegalValues ==
  ASSUME EntriesOK, DocShape, NEW g \in Gateways, NEW f, LegalWrite(g, f)
  PROVE  /\ EntriesOK' /\ DocShape'
         /\ \A h \in Gateways \ {g} : doc'[h] = doc[h]
         /\ \A k \in Keys : /\ doc'[g][k].val = IF k \in DOMAIN f THEN f[k] ELSE doc[g][k].val
                            /\ Follows(doc'[g][k], doc[g][k])
<1>1. \A k \in Keys : k \in DOMAIN f => f[k] = Gone \/ f[k] \in ValueOf(k)
  <2>1. SUFFICES ASSUME NEW k \in Keys, k \in DOMAIN f, f[k] # Gone
                 PROVE  f[k] \in ValueOf(k)
    OBVIOUS
  <2>2. CASE \E n \in Nodes : k = NodeKey(n)
    BY <2>1, <2>2, AllKeys, HeldValues DEF LegalWrite, WritesNodes
  <2>3. CASE \E i \in Invites : k = InviteKey(i)
    BY <2>1, <2>3, AllKeys DEF LegalWrite, WritesInvites
  <2>4. ASSUME NEW t \in Tickets, k = TicketKey(t)
        PROVE  f[k] \in ValueOf(k)
    <3>1. Ticket(g, t) # Gone => [Ticket(g, t) EXCEPT !.used = TRUE] \in WsTicketRecord
      BY HeldValues DEF WsTicketRecord
    <3>2. \A i \in Invites, n \in Nodes : [invite |-> i, node |-> n, used |-> FALSE] \in WsTicketRecord
      BY DEF WsTicketRecord
    <3>3. \/ Ticket(g, t) # Gone /\ f[k] = [Ticket(g, t) EXCEPT !.used = TRUE]
          \/ \E i \in Invites, n \in Nodes : f[k] = [invite |-> i, node |-> n, used |-> FALSE]
      BY <2>1, <2>4 DEF LegalWrite, WritesTickets
    <3>4. ValueOf(k) = WsTicketRecord
      BY <2>4, AllKeys
    <3> QED BY <3>1, <3>2, <3>3, <3>4
  <2> QED BY <2>2, <2>3, <2>4, AllKeys
<1>2. /\ DocShape'
      /\ \A h \in Gateways \ {g} : doc'[h] = doc[h]
      /\ \A k \in Keys : doc'[g][k] =
           IF k \notin DOMAIN f THEN doc[g][k]
           ELSE IF f[k] = Gone THEN Delete(doc[g][k]) ELSE Set(doc[g][k], g, f[k])
  BY DEF LegalWrite, Writes, DocShape
<1>3. ASSUME NEW k \in Keys
      PROVE  /\ IsEntry(doc'[g][k], ValueOf(k))
             /\ doc'[g][k].val = IF k \in DOMAIN f THEN f[k] ELSE doc[g][k].val
             /\ Follows(doc'[g][k], doc[g][k])
  <2>1. IsEntry(doc[g][k], ValueOf(k))
    BY DEF EntriesOK
  <2>2. CASE k \notin DOMAIN f
    BY <1>2, <2>1, <2>2 DEF Follows
  <2>3. CASE k \in DOMAIN f /\ f[k] = Gone
    <3>1. doc'[g][k] = Delete(doc[g][k])
      BY <1>2, <2>3
    <3> QED BY <2>1, <2>3, <3>1, DeleteEntry, WritesFollow
  <2>4. CASE k \in DOMAIN f /\ f[k] # Gone
    <3>1. doc'[g][k] = Set(doc[g][k], g, f[k]) /\ f[k] \in ValueOf(k)
      BY <1>1, <1>2, <2>4
    <3> QED BY <2>1, <2>4, <3>1, SetEntry, WritesFollow
  <2> QED BY <2>2, <2>3, <2>4
<1>4. EntriesOK'
  <2>1. SUFFICES ASSUME NEW h \in Gateways, NEW k \in Keys
                 PROVE  IsEntry(doc'[h][k], ValueOf(k))
    BY DEF EntriesOK
  <2>2. CASE h = g
    BY <1>3, <2>2
  <2>3. CASE h # g
    BY <1>2, <2>3 DEF EntriesOK
  <2> QED BY <2>2, <2>3
<1> QED BY <1>2, <1>3, <1>4

\* Receiving takes, of each key, the value of one side or the other.
LEMMA ReceivedValues ==
  ASSUME EntriesOK, DocShape, NEW g \in Gateways, NEW h \in Gateways, Receive(g, h)
  PROVE  /\ EntriesOK' /\ DocShape'
         /\ \A x \in Gateways \ {h} : doc'[x] = doc[x]
         /\ \A k \in Keys : doc'[h][k] = Merge(doc[h][k], doc[g][k])
         /\ \A k \in Keys : doc'[h][k].val \in {doc[h][k].val, doc[g][k].val}
<1>1. /\ DocShape'
      /\ \A x \in Gateways \ {h} : doc'[x] = doc[x]
      /\ \A k \in Keys : doc'[h][k] = Merge(doc[h][k], doc[g][k])
  BY DEF Receive, Received, DocShape
<1>2. ASSUME NEW k \in Keys
      PROVE  /\ IsEntry(doc'[h][k], ValueOf(k))
             /\ doc'[h][k].val \in {doc[h][k].val, doc[g][k].val}
  BY <1>1, MergeEntry DEF EntriesOK
<1>3. EntriesOK'
  <2>1. SUFFICES ASSUME NEW x \in Gateways, NEW k \in Keys
                 PROVE  IsEntry(doc'[x][k], ValueOf(k))
    BY DEF EntriesOK
  <2>2. CASE x = h
    BY <1>2, <2>2
  <2>3. CASE x # h
    BY <1>1, <2>3 DEF EntriesOK
  <2> QED BY <2>2, <2>3
<1> QED BY <1>1, <1>2, <1>3

-----------------------------------------------------------------------------
(***************************************************************************)
(* Every call writes legally.                                              *)
(***************************************************************************)

\* Nothing but a legal write by a gateway happens to the document, and what is
\* recorded about it only grows.
Called(g) ==
  /\ \E kinds : "node" \in kinds /\ Call(g, kinds)
  /\ \E f : LegalWrite(g, f)
  /\ warrants \subseteq warrants' /\ (demoted => demoted')
  /\ issued' \in {issued, issued + 1} /\ minted' \in {minted, minted + 1}

DocLeft == UNCHANGED <<doc, issued, minted, raced, demoted, warrants>>

\* What is in the maps is not Gone.
LEMMA NotGone ==
  /\ Gone \notin NodeInfo /\ Gone \notin PendingInvite /\ Gone \notin WsTicketRecord
BY GoneAssumption

\* Dead tickets are tickets.
LEMMA DeadAreTickets ==
  ASSUME NEW g, NEW k \in DeadTickets(g)
  PROVE  \E t \in Tickets : k = TicketKey(t)
BY DEF DeadTickets

\* Deleting invites and tickets is a legal write.
LEMMA DeletionIsLegal ==
  ASSUME NEW g \in Gateways, NEW ks, Writes(g, [k \in ks |-> Gone]),
         \A k \in ks : \E x : k = InviteKey(x) \/ k = TicketKey(x)
  PROVE  \E f : LegalWrite(g, f)
<1> DEFINE f == [k \in ks |-> Gone]
<1>1. DOMAIN f = ks /\ \A k \in ks : f[k] = Gone
  OBVIOUS
<1>2. Writes(g, f)
  OBVIOUS
<1> HIDE DEF f
<1>3. \A n \in Nodes : NodeKey(n) \notin DOMAIN f
  BY <1>1, AllKeys
<1>4. LegalWrite(g, f)
  BY <1>1, <1>2, <1>3 DEF LegalWrite, WritesInvites, WritesTickets, WritesNodes, LeavesBackbone
<1> QED BY <1>4

\* So is deleting an expired invite, with or without the dead tickets.
LEMMA DropIsLegal ==
  ASSUME NEW g \in Gateways, NEW i \in Invites, NEW ks, ks \in {{}, DeadTickets(g)},
         DropExpired(g, i, ks)
  PROVE  \E f : LegalWrite(g, f)
<1>1. \A k \in ks \union {InviteKey(i)} : \E x : k = InviteKey(x) \/ k = TicketKey(x)
  BY DeadAreTickets
<1>2. Writes(g, [k \in ks \union {InviteKey(i)} |-> Gone])
  BY DEF DropExpired
<1> QED BY <1>1, <1>2, DeletionIsLegal

\* And deleting the dead tickets alone.
LEMMA PruneIsLegal ==
  ASSUME NEW g \in Gateways, Prune(g)
  PROVE  \E f : LegalWrite(g, f)
<1>1. \A k \in DeadTickets(g) : \E x : k = InviteKey(x) \/ k = TicketKey(x)
  BY DeadAreTickets
<1>2. Writes(g, [k \in DeadTickets(g) |-> Gone])
  BY DEF Prune
<1> QED BY <1>1, <1>2, DeletionIsLegal

\* Letting a node in by a good invite is: the warrant is recorded with it.
LEMMA EnterIsLegal ==
  ASSUME EntriesOK, demoted \in BOOLEAN,
         NEW g \in Gateways, NEW i \in Invites, NEW n \in Nodes, NEW more,
         IsGoodFor(g, i, n), Enter(g, i, n, more),
         \A k \in DOMAIN more : \E t \in Tickets :
           /\ k = TicketKey(t)
           /\ more[k] = Gone \/ (Ticket(g, t) # Gone /\ more[k] = [Ticket(g, t) EXCEPT !.used = TRUE])
  PROVE  (\E f : LegalWrite(g, f)) /\ warrants \subseteq warrants' /\ (demoted => demoted')
<1> DEFINE v == Invite(g, i)
           info == [tier |-> v.tier, by |-> v.by]
           f == [k \in EnterKeys(g, i, n) \union DOMAIN more |->
                   IF k = NodeKey(n) THEN info ELSE IF k \in DOMAIN more THEN more[k] ELSE Gone]
<1>1. v \in PendingInvite /\ info \in NodeInfo /\ info.tier = v.tier /\ info.by = v.by
  BY HeldValues DEF IsGoodFor, PendingInvite, NodeInfo
<1>2. /\ Writes(g, f)
      /\ demoted' = (demoted \/ Demotes(g, n, v.tier))
      /\ warrants' = warrants \union {[node |-> n, tier |-> v.tier, by |-> v.by]}
  BY DEF Enter, IsGoodFor
<1>3. DOMAIN f = {NodeKey(n), InviteKey(i)} \union DOMAIN more
  BY DEF EnterKeys
<1>4. /\ f[NodeKey(n)] = info
      /\ \A k \in DOMAIN f : k # NodeKey(n) => f[k] = IF k \in DOMAIN more THEN more[k] ELSE Gone
  BY <1>3
<1> HIDE DEF f, info
<1>5. \A m \in Nodes : NodeKey(m) \in DOMAIN f <=> m = n
  BY <1>3, AllKeys
<1>6. WritesInvites(f)
  BY <1>3, <1>4, AllKeys DEF WritesInvites
<1>7. WritesTickets(g, f)
  <2>1. SUFFICES ASSUME NEW t \in Tickets, TicketKey(t) \in DOMAIN f, f[TicketKey(t)] # Gone
                 PROVE  Ticket(g, t) # Gone /\ f[TicketKey(t)] = [Ticket(g, t) EXCEPT !.used = TRUE]
    BY DEF WritesTickets
  <2>2. TicketKey(t) \in DOMAIN more /\ f[TicketKey(t)] = more[TicketKey(t)]
    BY <2>1, <1>4, AllKeys
  <2>3. PICK u \in Tickets :
          /\ TicketKey(t) = TicketKey(u)
          /\ Ticket(g, u) # Gone /\ more[TicketKey(t)] = [Ticket(g, u) EXCEPT !.used = TRUE]
    BY <2>1, <2>2
  <2>4. t = u
    BY <2>3, AllKeys
  <2> QED BY <2>2, <2>3, <2>4
<1>8. WritesNodes(g, f)
  BY <1>1, <1>2, <1>4, <1>5 DEF WritesNodes
<1>9. LeavesBackbone(g, f)
  <2>1. CASE v.tier = "backbone"
    BY <1>1, <1>4, <1>5, <2>1, NotGone DEF LeavesBackbone
  <2>2. CASE v.tier = "edge" /\ \A m \in Nodes \ {n} : ~IsBackbone(g, m)
    BY <1>2, <2>2 DEF LeavesBackbone, Demotes
  <2>3. CASE \E m \in Nodes \ {n} : IsBackbone(g, m)
    BY <1>5, <2>3 DEF LeavesBackbone
  <2> QED BY <1>1, <2>1, <2>2, <2>3 DEF PendingInvite, Tier
<1> QED BY <1>2, <1>6, <1>7, <1>8, <1>9 DEF LegalWrite

LEMMA BootstrapCalls ==
  ASSUME NEW g \in Gateways, NEW tier \in Tier, BootstrapFirstNode(g, tier)
  PROVE  Called(g)
<1> DEFINE info == [tier |-> tier, by |-> g]
           f == [k \in {NodeKey(g)} |-> info]
<1>1. /\ NoNodes(g) /\ Call(g, {"node"}) /\ Writes(g, f)
      /\ demoted' = (demoted \/ Demotes(g, g, tier))
      /\ UNCHANGED <<issued, minted, warrants>>
  BY DEF BootstrapFirstNode, Prepare
<1>2. g \in Nodes /\ info \in NodeInfo /\ info.tier = tier /\ info.by = g
  BY AdmissionAssumption DEF NodeInfo
<1>3. DOMAIN f = {NodeKey(g)} /\ f[NodeKey(g)] = info
  OBVIOUS
<1> HIDE DEF f, info
<1>4. WritesInvites(f) /\ WritesTickets(g, f)
  BY <1>3, AllKeys DEF WritesInvites, WritesTickets
<1>5. WritesNodes(g, f)
  <2>1. \A n \in Nodes : NodeKey(n) \in DOMAIN f => n = g
    BY <1>2, <1>3, AllKeys
  <2> QED BY <1>1, <1>2, <1>3, <2>1 DEF WritesNodes
<1>6. LeavesBackbone(g, f)
  <2>1. CASE tier = "backbone"
    BY <1>2, <1>3, <2>1, NotGone DEF LeavesBackbone
  <2>2. CASE tier = "edge"
    BY <1>1, <2>2 DEF LeavesBackbone, Demotes, NoNodes, IsBackbone
  <2> QED BY <2>1, <2>2 DEF Tier
<1> QED BY <1>1, <1>4, <1>5, <1>6 DEF Called, LegalWrite

\* A gateway that starts leaves its entry as it was or has none yet.
LEMMA SyncCalls ==
  ASSUME EntriesOK, NEW g \in Gateways, NEW tier \in Tier, SyncNodeCapabilities(g, tier)
  PROVE  Called(g)
<1> DEFINE info == IF IsKnown(g, g) THEN Node(g, g) ELSE [tier |-> tier, by |-> g]
           f == [k \in {NodeKey(g)} |-> info]
<1>1. /\ Call(g, {"node"}) /\ Writes(g, f)
      /\ demoted' = (demoted \/ Demotes(g, g, info.tier))
      /\ UNCHANGED <<issued, minted, warrants>>
  BY DEF SyncNodeCapabilities
<1>2. g \in Nodes
  BY AdmissionAssumption
<1>3. info \in NodeInfo /\ (info = Node(g, g) \/ info.by = g)
  <2>1. [tier |-> tier, by |-> g] \in NodeInfo
    BY <1>2 DEF NodeInfo
  <2>2. IsKnown(g, g) => Node(g, g) \in NodeInfo
    BY <1>2, HeldValues DEF IsKnown
  <2> QED BY <2>1, <2>2
<1>4. DOMAIN f = {NodeKey(g)} /\ f[NodeKey(g)] = info
  OBVIOUS
<1> HIDE DEF f, info
<1>5. WritesInvites(f) /\ WritesTickets(g, f)
  BY <1>4, AllKeys DEF WritesInvites, WritesTickets
<1>6. \A n \in Nodes : NodeKey(n) \in DOMAIN f => n = g
  BY <1>2, <1>4, AllKeys
<1>7. WritesNodes(g, f)
  BY <1>3, <1>4, <1>6 DEF WritesNodes
<1>8. LeavesBackbone(g, f)
  <2>1. CASE info.tier = "backbone"
    BY <1>2, <1>3, <1>4, <2>1, NotGone DEF LeavesBackbone
  <2>2. CASE info.tier = "edge" /\ \A m \in Nodes \ {g} : ~IsBackbone(g, m)
    BY <1>1, <2>2 DEF LeavesBackbone, Demotes
  <2>3. CASE \E m \in Nodes \ {g} : IsBackbone(g, m)
    BY <1>6, <2>3 DEF LeavesBackbone
  <2> QED BY <1>3, <2>1, <2>2, <2>3 DEF NodeInfo, Tier
<1> QED BY <1>1, <1>5, <1>7, <1>8 DEF Called, LegalWrite

LEMMA GenerateCalls ==
  ASSUME issued \in Nat, NEW g \in Gateways, NEW tier \in Tier, NEW bound \in Bindings,
         GenerateInviteToken(g, tier, bound)
  PROVE  Called(g)
<1> DEFINE v == [tier |-> tier, bound |-> bound, by |-> g]
           f == [k \in {InviteKey(issued + 1)} |-> v]
<1>1. /\ Call(g, Kinds) /\ Writes(g, f) /\ issued' = issued + 1
      /\ UNCHANGED <<minted, demoted, warrants>>
      /\ issued + 1 \in Invites
  BY AdmissionAssumption DEF GenerateInviteToken, Prepare, Invites
<1>2. v \in PendingInvite
  BY AdmissionAssumption DEF PendingInvite
<1>3. DOMAIN f = {InviteKey(issued + 1)} /\ f[InviteKey(issued + 1)] = v
  OBVIOUS
<1> HIDE DEF f, v
<1>4. WritesInvites(f)
  <2>1. \A i \in Invites : InviteKey(i) \in DOMAIN f => i = issued + 1
    BY <1>1, <1>3, AllKeys
  <2> QED BY <1>1, <1>2, <1>3, <2>1 DEF WritesInvites
<1>5. WritesTickets(g, f) /\ WritesNodes(g, f) /\ LeavesBackbone(g, f)
  BY <1>3, AllKeys DEF WritesTickets, WritesNodes, LeavesBackbone
<1> QED BY <1>1, <1>4, <1>5 DEF Called, Kinds, LegalWrite

LEMMA RevokeCalls ==
  ASSUME NEW g \in Gateways, NEW n \in Nodes, RevokeNode(g, n)
  PROVE  Called(g)
<1> DEFINE f == [k \in {NodeKey(n)} |-> Gone]
<1>1. /\ IsBackbone(g, g) /\ n # g /\ Call(g, {"node"}) /\ Writes(g, f)
      /\ UNCHANGED <<issued, minted, demoted, warrants>>
  BY DEF RevokeNode, MayRevoke, Prepare
<1>2. DOMAIN f = {NodeKey(n)} /\ f[NodeKey(n)] = Gone
  OBVIOUS
<1> HIDE DEF f
<1>3. WritesInvites(f) /\ WritesTickets(g, f) /\ WritesNodes(g, f)
  BY <1>2, AllKeys DEF WritesInvites, WritesTickets, WritesNodes
<1>4. LeavesBackbone(g, f)
  <2>1. g \in Nodes /\ NodeKey(g) \notin DOMAIN f
    BY <1>1, <1>2, AllKeys, AdmissionAssumption
  <2> QED BY <1>1, <2>1 DEF LeavesBackbone
<1> QED BY <1>1, <1>3, <1>4 DEF Called, Kinds, LegalWrite

LEMMA MintCalls ==
  ASSUME minted \in Nat, NEW g \in Gateways, NEW i \in Invites, NEW n \in Nodes,
         MintWsTicketFromInvite(g, i, n)
  PROVE  Called(g)
<1>1. Call(g, Kinds) /\ UNCHANGED issued
  BY DEF MintWsTicketFromInvite, Prepare
<1>2. CASE DropExpired(g, i, DeadTickets(g)) /\ UNCHANGED minted
  BY <1>1, <1>2, DropIsLegal DEF Called, Kinds, DropExpired
<1>3. CASE Prune(g) /\ UNCHANGED minted
  BY <1>1, <1>3, PruneIsLegal DEF Called, Kinds, Prune
<1>4. CASE /\ IsGoodFor(g, i, n)
           /\ minted < MaxTickets
           /\ minted' = minted + 1
           /\ Writes(g, [k \in DeadTickets(g) \union {TicketKey(minted + 1)} |->
                           IF k = TicketKey(minted + 1)
                           THEN [invite |-> i, node |-> n, used |-> FALSE] ELSE Gone])
           /\ UNCHANGED <<demoted, uses, warrants>>
  <2> DEFINE r == [invite |-> i, node |-> n, used |-> FALSE]
             f == [k \in DeadTickets(g) \union {TicketKey(minted + 1)} |->
                     IF k = TicketKey(minted + 1) THEN r ELSE Gone]
  <2>1. Writes(g, f)
    BY <1>4
  <2>2. /\ DOMAIN f = DeadTickets(g) \union {TicketKey(minted + 1)}
        /\ \A k \in DOMAIN f : f[k] = IF k = TicketKey(minted + 1) THEN r ELSE Gone
    OBVIOUS
  <2> HIDE DEF f
  <2>3. \A k \in DOMAIN f : \E t : k = TicketKey(t)
    BY <2>2, DeadAreTickets
  <2>4. WritesInvites(f) /\ WritesNodes(g, f) /\ LeavesBackbone(g, f)
    BY <2>3, AllKeys DEF WritesInvites, WritesNodes, LeavesBackbone
  <2>5. WritesTickets(g, f)
    <3>1. SUFFICES ASSUME NEW t \in Tickets, TicketKey(t) \in DOMAIN f, f[TicketKey(t)] # Gone
                   PROVE  /\ t = minted + 1 /\ minted' = t
                          /\ \E j \in Invites, m \in Nodes :
                               /\ IsGoodFor(g, j, m)
                               /\ f[TicketKey(t)] = [invite |-> j, node |-> m, used |-> FALSE]
      BY DEF WritesTickets
    <3>2. TicketKey(t) = TicketKey(minted + 1) /\ f[TicketKey(t)] = r
      BY <2>2, <3>1
    <3>3. t = minted + 1
      BY <3>2, AllKeys
    <3> QED BY <1>4, <3>2, <3>3
  <2> QED BY <1>1, <1>4, <2>1, <2>4, <2>5 DEF Called, Kinds, LegalWrite
<1> QED BY <1>2, <1>3, <1>4 DEF MintWsTicketFromInvite

LEMMA JoinCalls ==
  ASSUME EntriesOK, demoted \in BOOLEAN, NEW g \in Gateways, NEW i \in Invites,
         JoinWithToken(g, i)
  PROVE  Called(g)
<1>1. Call(g, Kinds) /\ UNCHANGED <<issued, minted>> /\ g \in Nodes /\ DOMAIN Nothing = {}
  BY AdmissionAssumption DEF JoinWithToken, Nothing
<1>2. CASE IsGoodFor(g, i, g) /\ Enter(g, i, g, Nothing)
  BY <1>1, <1>2, EnterIsLegal DEF Called, Kinds
<1>3. CASE DropExpired(g, i, {})
  BY <1>1, <1>3, DropIsLegal DEF Called, Kinds, DropExpired
<1> QED BY <1>2, <1>3 DEF JoinWithToken

LEMMA AcceptInviteCalls ==
  ASSUME EntriesOK, demoted \in BOOLEAN,
         NEW g \in Gateways, NEW n \in Nodes, NEW i \in Invites, AcceptInvite(g, n, i)
  PROVE  Called(g)
<1>1. Call(g, Kinds) /\ UNCHANGED <<issued, minted>> /\ DOMAIN Nothing = {}
  BY DEF AcceptInvite, Nothing
<1>2. CASE IsGoodFor(g, i, n) /\ Enter(g, i, n, Nothing)
  BY <1>1, <1>2, EnterIsLegal DEF Called, Kinds
<1>3. CASE DropExpired(g, i, {})
  BY <1>1, <1>3, DropIsLegal DEF Called, Kinds, DropExpired
<1> QED BY <1>2, <1>3 DEF AcceptInvite

LEMMA AcceptTicketCalls ==
  ASSUME EntriesOK, demoted \in BOOLEAN,
         NEW g \in Gateways, NEW n \in Nodes, NEW t \in Tickets, NEW i \in Invites,
         AcceptTicket(g, n, t, i)
  PROVE  Called(g)
<1> DEFINE kept == [k \in DeadTickets(g) \union {TicketKey(t)} |->
                      IF k = TicketKey(t) THEN [Ticket(g, t) EXCEPT !.used = TRUE] ELSE Gone]
<1>1. /\ Call(g, Kinds) /\ UNCHANGED <<issued, minted>>
      /\ Ticket(g, t) # Gone /\ Ticket(g, t).invite = i
  BY DEF AcceptTicket
<1>2. \A k \in DOMAIN kept : \E u \in Tickets :
        /\ k = TicketKey(u)
        /\ kept[k] = Gone \/ (Ticket(g, u) # Gone /\ kept[k] = [Ticket(g, u) EXCEPT !.used = TRUE])
  <2>1. SUFFICES ASSUME NEW k \in DeadTickets(g) \union {TicketKey(t)}
                 PROVE  \E u \in Tickets :
                   /\ k = TicketKey(u)
                   /\ \/ kept[k] = Gone
                      \/ Ticket(g, u) # Gone /\ kept[k] = [Ticket(g, u) EXCEPT !.used = TRUE]
    OBVIOUS
  <2>2. CASE k = TicketKey(t)
    BY <1>1, <2>2
  <2>3. CASE k # TicketKey(t)
    <3>1. kept[k] = Gone /\ k \in DeadTickets(g)
      BY <2>3
    <3> HIDE DEF kept
    <3> QED BY <3>1, DeadAreTickets
  <2> QED BY <2>2, <2>3
<1>3. \/ TicketIsGood(g, t, n) /\ Enter(g, i, n, kept)
      \/ DropExpired(g, i, DeadTickets(g))
      \/ Prune(g)
  BY DEF AcceptTicket
<1> HIDE DEF kept
<1>4. CASE TicketIsGood(g, t, n) /\ Enter(g, i, n, kept)
  <2>1. IsGoodFor(g, i, n)
    BY <1>1, <1>4 DEF TicketIsGood
  <2>2. (\E f : LegalWrite(g, f)) /\ warrants \subseteq warrants' /\ (demoted => demoted')
    BY <1>2, <1>4, <2>1, EnterIsLegal
  <2> QED BY <1>1, <2>2 DEF Called, Kinds
<1>5. CASE DropExpired(g, i, DeadTickets(g))
  BY <1>1, <1>5, DropIsLegal DEF Called, Kinds, DropExpired
<1>6. CASE Prune(g)
  BY <1>1, <1>6, PruneIsLegal DEF Called, Kinds, Prune
<1> QED BY <1>3, <1>4, <1>5, <1>6

\* So a step leaves the document alone, is a call, or brings what another gateway has.
LEMMA StepsAre ==
  ASSUME EntriesOK, issued \in Nat, minted \in Nat, demoted \in BOOLEAN, [Next]_vars
  PROVE  \/ DocLeft
         \/ \E g \in Gateways : Called(g)
         \/ \E g, h \in Gateways : Receive(g, h)
<1>1. CASE UNCHANGED vars
  BY <1>1 DEF vars, DocLeft
<1>2. ASSUME NEW g \in Gateways, Membership(g)
      PROVE  Called(g)
  BY <1>2, SyncCalls, BootstrapCalls, GenerateCalls, JoinCalls, RevokeCalls, MintCalls DEF Membership
<1>3. ASSUME NEW g \in Gateways, Connections(g)
      PROVE  Called(g) \/ DocLeft
  <2>1. PICK n \in Nodes \ {g} :
          \/ AcceptKnown(g, n) \/ Disconnect(g, n)
          \/ \E t \in Tickets, i \in Invites : AcceptTicket(g, n, t, i)
          \/ \E i \in Invites : AcceptInvite(g, n, i)
    BY <1>3 DEF Connections
  <2>2. CASE AcceptKnown(g, n) \/ Disconnect(g, n)
    BY <2>2 DEF AcceptKnown, Disconnect, DocLeft
  <2> QED BY <2>1, <2>2, AcceptTicketCalls, AcceptInviteCalls
<1>4. CASE TimePasses
  BY <1>4 DEF TimePasses, Expire, DocLeft
<1> QED BY <1>1, <1>2, <1>3, <1>4 DEF Next

-----------------------------------------------------------------------------
(***************************************************************************)
(* Types, counts, and what all replicas agree on: of an invite or a ticket *)
(* that is not deleted there is one version, but for the use of a ticket.  *)
(***************************************************************************)

ScalarsOK ==
  /\ linked \subseteq SUBSET Gateways
  /\ expired \subseteq {InviteKey(i) : i \in 1..issued} \union {TicketKey(t) : t \in 1..minted}
  /\ issued \in 0..MaxInvites /\ minted \in 0..MaxTickets
  /\ requests \in 0..MaxRequests /\ raced \subseteq Kinds /\ demoted \in BOOLEAN
  /\ warrants \subseteq [node : Nodes, tier : Tier, by : Nodes]

Counted ==
  /\ \A g \in Gateways, i \in Invites : Invite(g, i) # Gone => i <= issued
  /\ \A g \in Gateways, t \in Tickets : Ticket(g, t) # Gone =>
       t <= minted /\ Ticket(g, t).invite <= issued

InvitesAgree ==
  \A g, h \in Gateways, i \in Invites :
    Invite(g, i) # Gone /\ Invite(h, i) # Gone => Invite(g, i) = Invite(h, i)

TicketsFit ==
  \A g, h \in Gateways, t \in Tickets :
    Ticket(g, t) # Gone /\ Invite(h, Ticket(g, t).invite) # Gone =>
      Invite(h, Ticket(g, t).invite).bound \in {Anyone, Ticket(g, t).node}

TInv ==
  /\ IInv
  /\ ScalarsOK /\ EntriesOK /\ Counted /\ InvitesAgree /\ TicketsFit
  /\ NodesAsInvited

\* The invariant gives the types.
LEMMA TInvTypes == TInv => TypeOK
BY DEF TInv, IInv, UsesShape, ScalarsOK, EntriesOK, TicketsFit, TypeOK

LEMMA InitTInv == Init => TInv
<1>1. SUFFICES ASSUME Init
               PROVE  TInv
  OBVIOUS
<1>2. PICK M \in {{}, Gateways} :
        /\ doc = [g \in Gateways |-> [k \in Keys |->
                    First(IF \E n \in M : k = NodeKey(n)
                          THEN [tier |-> "backbone", by |-> k[2]] ELSE Gone)]]
        /\ linked = {{p[1], p[2]} : p \in {q \in M \X M : q[1] # q[2]}}
        /\ expired = {} /\ issued = 0 /\ minted = 0 /\ requests = 0
        /\ raced = {} /\ demoted = FALSE /\ warrants = {}
  BY <1>1 DEF Init
<1>3. M \subseteq Nodes /\ M \subseteq Gateways
  BY <1>2, AdmissionAssumption
<1>4. ScalarsOK
  <2>1. linked \subseteq SUBSET Gateways
    BY <1>2, <1>3
  <2>2. 0 \in 0..MaxInvites /\ 0 \in 0..MaxTickets /\ 0 \in 0..MaxRequests
    BY AdmissionAssumption
  <2> QED BY <1>2, <2>1, <2>2 DEF ScalarsOK
<1>5. \A g \in Gateways, n \in Nodes :
        doc[g][NodeKey(n)] = First(IF n \in M THEN [tier |-> "backbone", by |-> n] ELSE Gone)
  <2>1. SUFFICES ASSUME NEW g \in Gateways, NEW n \in Nodes
                 PROVE  doc[g][NodeKey(n)] = First(IF n \in M THEN [tier |-> "backbone", by |-> n] ELSE Gone)
    OBVIOUS
  <2>2. NodeKey(n) \in Keys /\ NodeKey(n)[2] = n
    BY AllKeys DEF NodeKey
  <2>3. (\E m \in M : NodeKey(n) = NodeKey(m)) <=> n \in M
    BY AllKeys
  <2> QED BY <1>2, <2>2, <2>3
<1>6. /\ \A g \in Gateways, i \in Invites : doc[g][InviteKey(i)] = First(Gone)
      /\ \A g \in Gateways, t \in Tickets : doc[g][TicketKey(t)] = First(Gone)
  BY <1>2, <1>3, AllKeys
<1>7. \A v : First(v).val = v
  BY DEF First
<1>8. \A n \in M : [tier |-> "backbone", by |-> n] \in NodeInfo
  BY <1>3 DEF NodeInfo, Tier
<1>9. EntriesOK
  <2>1. SUFFICES ASSUME NEW g \in Gateways, NEW k \in Keys
                 PROVE  IsEntry(doc[g][k], ValueOf(k))
    BY DEF EntriesOK
  <2>2. ASSUME NEW n \in Nodes, k = NodeKey(n)
        PROVE  IsEntry(doc[g][k], ValueOf(k))
    <3>1. PICK v : doc[g][k] = First(v) /\ (v = Gone \/ v \in NodeInfo)
      BY <1>5, <1>8, <2>2
    <3>2. IsEntry(First(v), NodeInfo)
      BY <3>1, FirstEntry
    <3> QED BY <2>2, <3>1, <3>2, AllKeys
  <2>3. CASE \/ \E i \in Invites : k = InviteKey(i)
             \/ \E t \in Tickets : k = TicketKey(t)
    BY <1>6, <2>3, FirstEntry
  <2> QED BY <2>2, <2>3, AllKeys
<1>10. Counted /\ InvitesAgree /\ TicketsFit
  BY <1>6, <1>7 DEF Counted, InvitesAgree, TicketsFit, Invite, Ticket
<1>11. NodesAsInvited
  <2>1. SUFFICES ASSUME NEW g \in Gateways, NEW n \in Nodes, IsKnown(g, n)
                 PROVE  n \in Gateways /\ Node(g, n).by = n
    BY DEF NodesAsInvited
  <2>2. n \in M /\ Node(g, n) = [tier |-> "backbone", by |-> n]
    BY <1>5, <1>7, <2>1 DEF IsKnown, Node
  <2> QED BY <1>3, <2>2
<1> QED BY <1>1, <1>4, <1>9, <1>10, <1>11, InitIInv DEF TInv

\* Steps keep the types of the variables besides the document.
LEMMA ScalarsStep ==
  ASSUME ScalarsOK, EntriesOK, Counted, [Next]_vars
  PROVE  ScalarsOK'
<1> USE AdmissionAssumption
<1>1. ASSUME NEW g \in Gateways, NEW n \in Nodes, Link(g, n) \/ UNCHANGED linked
      PROVE  (linked \subseteq SUBSET Gateways)'
  BY <1>1 DEF ScalarsOK, Link
<1>2. ASSUME NEW g, NEW kinds \in {{"node"}, Kinds}, Call(g, kinds)
      PROVE  (requests \in 0..MaxRequests /\ raced \subseteq Kinds)'
  <2>1. {kind \in kinds : ~UpToDate(g, kind)} \subseteq Kinds
    BY DEF Kinds
  <2>2. /\ requests \in Nat /\ requests < MaxRequests /\ requests' = requests + 1
        /\ raced \subseteq Kinds /\ raced' = raced \union {kind \in kinds : ~UpToDate(g, kind)}
    BY <1>2 DEF ScalarsOK, Call
  <2> QED BY <2>1, <2>2
<1>3. ASSUME NEW g \in Gateways, NEW i \in Invites, NEW n \in Nodes, NEW more,
             IsGoodFor(g, i, n), Enter(g, i, n, more)
      PROVE  (demoted \in BOOLEAN /\ warrants \subseteq [node : Nodes, tier : Tier, by : Nodes])'
  <2>1. Invite(g, i) \in PendingInvite
    BY <1>3, HeldValues DEF IsGoodFor
  <2>2. [node |-> n, tier |-> Invite(g, i).tier, by |-> Invite(g, i).by]
          \in [node : Nodes, tier : Tier, by : Nodes]
    BY <2>1 DEF PendingInvite
  <2>3. /\ demoted' = (demoted \/ Demotes(g, n, Invite(g, i).tier))
        /\ \/ warrants' = warrants
           \/ warrants' = warrants \union
                {[node |-> n, tier |-> Invite(g, i).tier, by |-> Invite(g, i).by]}
    BY <1>3 DEF Enter
  <2> QED BY <2>2, <2>3 DEF ScalarsOK
<1>4. CASE UNCHANGED vars
  BY <1>4 DEF vars, ScalarsOK
<1>5. ASSUME NEW g \in Gateways, NEW tier \in Tier, BootstrapFirstNode(g, tier)
      PROVE  ScalarsOK'
  BY <1>2, <1>5 DEF BootstrapFirstNode, Prepare, ScalarsOK
<1>6. ASSUME NEW g \in Gateways, NEW tier, NEW bound, GenerateInviteToken(g, tier, bound)
      PROVE  ScalarsOK'
  BY <1>2, <1>6 DEF GenerateInviteToken, Prepare, ScalarsOK
<1>7. ASSUME NEW g \in Gateways, NEW i \in Invites, JoinWithToken(g, i)
      PROVE  ScalarsOK'
  <2>1. CASE IsGoodFor(g, i, g) /\ Enter(g, i, g, Nothing)
    BY <1>2, <1>3, <1>7, <2>1 DEF JoinWithToken, ScalarsOK
  <2>2. CASE DropExpired(g, i, {})
    BY <1>2, <1>7, <2>2 DEF JoinWithToken, DropExpired, ScalarsOK
  <2> QED BY <1>7, <2>1, <2>2 DEF JoinWithToken
<1>8. ASSUME NEW g \in Gateways, NEW n \in Nodes, RevokeNode(g, n)
      PROVE  ScalarsOK'
  BY <1>2, <1>8 DEF RevokeNode, Prepare, ScalarsOK
<1>9. ASSUME NEW g \in Gateways, NEW i \in Invites, NEW n \in Nodes, MintWsTicketFromInvite(g, i, n)
      PROVE  ScalarsOK'
  <2>1. Call(g, Kinds) /\ UNCHANGED <<linked, expired, issued, demoted, warrants>>
    BY <1>9 DEF MintWsTicketFromInvite, Prepare, DropExpired, Prune
  <2>2. UNCHANGED minted \/ (minted < MaxTickets /\ minted' = minted + 1)
    BY <1>9 DEF MintWsTicketFromInvite
  <2> QED BY <1>2, <2>1, <2>2 DEF ScalarsOK
<1>10. ASSUME NEW g \in Gateways, NEW n \in Nodes, AcceptKnown(g, n) \/ Disconnect(g, n)
       PROVE  ScalarsOK'
  BY <1>1, <1>10 DEF AcceptKnown, Disconnect, ScalarsOK
<1>11. ASSUME NEW g \in Gateways, NEW n \in Nodes, NEW t \in Tickets, NEW i \in Invites,
              AcceptTicket(g, n, t, i)
       PROVE  ScalarsOK'
  <2>1. Call(g, Kinds) /\ UNCHANGED <<expired, issued, minted>> /\ (Link(g, n) \/ UNCHANGED linked)
    BY <1>11 DEF AcceptTicket
  <2>2. \/ UNCHANGED <<demoted, warrants>>
        \/ \E more : IsGoodFor(g, i, n) /\ Enter(g, i, n, more)
    BY <1>11 DEF AcceptTicket, TicketIsGood, DropExpired, Prune
  <2> QED BY <1>1, <1>2, <1>3, <2>1, <2>2 DEF ScalarsOK
<1>12. ASSUME NEW g \in Gateways, NEW n \in Nodes, NEW i \in Invites, AcceptInvite(g, n, i)
       PROVE  ScalarsOK'
  <2>1. Call(g, Kinds) /\ UNCHANGED <<expired, issued, minted>> /\ (Link(g, n) \/ UNCHANGED linked)
    BY <1>12 DEF AcceptInvite
  <2>2. \/ UNCHANGED <<demoted, warrants>>
        \/ \E more : IsGoodFor(g, i, n) /\ Enter(g, i, n, more)
    BY <1>12 DEF AcceptInvite, DropExpired
  <2> QED BY <1>1, <1>2, <1>3, <2>1, <2>2 DEF ScalarsOK
<1>13. ASSUME NEW g, NEW h, Receive(g, h)
       PROVE  ScalarsOK'
  BY <1>13 DEF Receive, ScalarsOK
<1>14. ASSUME NEW g \in Gateways, NEW tier \in Tier, SyncNodeCapabilities(g, tier)
       PROVE  ScalarsOK'
  BY <1>2, <1>14 DEF SyncNodeCapabilities, ScalarsOK
<1>15. CASE TimePasses
  <2>1. PICK k \in {InviteKey(i) : i \in 1..issued} \union {TicketKey(t) : t \in 1..minted} : Expire(k)
    BY <1>15 DEF TimePasses, Counted, Invites, Tickets, ScalarsOK
  <2> QED BY <2>1 DEF Expire, ScalarsOK
<1> QED BY <1>4, <1>5, <1>6, <1>7, <1>8, <1>9, <1>10, <1>11, <1>12, <1>13, <1>14, <1>15
        DEF Next, Membership, Connections

\* What a call leaves of invites, tickets and nodes.
LEMMA CalledValues ==
  ASSUME EntriesOK, DocShape, NEW g \in Gateways, Called(g)
  PROVE  /\ EntriesOK'
         /\ \A h \in Gateways, i \in Invites : Invite(h, i)' # Gone =>
              Invite(h, i)' = Invite(h, i) \/ (h = g /\ i = issued + 1 /\ issued' = i)
         /\ \A h \in Gateways, t \in Tickets : Ticket(h, t)' # Gone =>
              \/ /\ Ticket(h, t) # Gone
                 /\ Ticket(h, t)'.invite = Ticket(h, t).invite /\ Ticket(h, t)'.node = Ticket(h, t).node
              \/ /\ t = minted + 1 /\ minted' = t
                 /\ Ticket(h, t)'.invite \in Invites
                 /\ IsGoodFor(g, Ticket(h, t)'.invite, Ticket(h, t)'.node)
         /\ \A h \in Gateways, n \in Nodes : Node(h, n)' # Gone =>
              \/ Node(h, n)' = Node(h, n)
              \/ n \in Gateways /\ Node(h, n)'.by = n
              \/ [node |-> n, tier |-> Node(h, n)'.tier, by |-> Node(h, n)'.by] \in warrants'
<1>1. PICK f : LegalWrite(g, f)
  BY DEF Called
<1>2. /\ EntriesOK'
      /\ \A h \in Gateways \ {g} : doc'[h] = doc[h]
      /\ \A k \in Keys : doc'[g][k].val = IF k \in DOMAIN f THEN f[k] ELSE doc[g][k].val
  BY <1>1, LegalValues
<1>3. /\ \A i \in Invites : Invite(g, i)' =
           IF InviteKey(i) \in DOMAIN f THEN f[InviteKey(i)] ELSE Invite(g, i)
      /\ \A t \in Tickets : Ticket(g, t)' =
           IF TicketKey(t) \in DOMAIN f THEN f[TicketKey(t)] ELSE Ticket(g, t)
      /\ \A n \in Nodes : Node(g, n)' =
           IF NodeKey(n) \in DOMAIN f THEN f[NodeKey(n)] ELSE Node(g, n)
  BY <1>2, AllKeys DEF Invite, Ticket, Node
<1>4. \A h \in Gateways \ {g} :
        /\ \A i \in Invites : Invite(h, i)' = Invite(h, i)
        /\ \A t \in Tickets : Ticket(h, t)' = Ticket(h, t)
        /\ \A n \in Nodes : Node(h, n)' = Node(h, n)
  BY <1>2 DEF Invite, Ticket, Node
<1>5. ASSUME NEW h \in Gateways, NEW i \in Invites, Invite(h, i)' # Gone
      PROVE  Invite(h, i)' = Invite(h, i) \/ (h = g /\ i = issued + 1 /\ issued' = i)
  BY <1>1, <1>3, <1>4, <1>5 DEF LegalWrite, WritesInvites
<1>6. ASSUME NEW h \in Gateways, NEW t \in Tickets, Ticket(h, t)' # Gone
      PROVE  \/ /\ Ticket(h, t) # Gone
                /\ Ticket(h, t)'.invite = Ticket(h, t).invite /\ Ticket(h, t)'.node = Ticket(h, t).node
             \/ /\ t = minted + 1 /\ minted' = t
                /\ Ticket(h, t)'.invite \in Invites
                /\ IsGoodFor(g, Ticket(h, t)'.invite, Ticket(h, t)'.node)
  <2>1. CASE Ticket(h, t)' = Ticket(h, t)
    BY <1>6, <2>1
  <2>2. CASE h = g /\ TicketKey(t) \in DOMAIN f
    <3>1. Ticket(g, t)' = f[TicketKey(t)]
      BY <1>3, <2>2
    <3>2. CASE Ticket(g, t) # Gone /\ f[TicketKey(t)] = [Ticket(g, t) EXCEPT !.used = TRUE]
      <4>1. Ticket(g, t) \in WsTicketRecord
        BY <3>2, HeldValues
      <4> QED BY <2>2, <3>1, <3>2, <4>1 DEF WsTicketRecord
    <3>3. CASE /\ t = minted + 1 /\ minted' = t
               /\ \E i \in Invites, n \in Nodes :
                    IsGoodFor(g, i, n) /\ f[TicketKey(t)] = [invite |-> i, node |-> n, used |-> FALSE]
      BY <2>2, <3>1, <3>3
    <3> QED BY <1>1, <1>6, <2>2, <3>1, <3>2, <3>3 DEF LegalWrite, WritesTickets
  <2> QED BY <1>3, <1>4, <2>1, <2>2
<1>7. ASSUME NEW h \in Gateways, NEW n \in Nodes, Node(h, n)' # Gone
      PROVE  \/ Node(h, n)' = Node(h, n)
             \/ n \in Gateways /\ Node(h, n)'.by = n
             \/ [node |-> n, tier |-> Node(h, n)'.tier, by |-> Node(h, n)'.by] \in warrants'
  BY <1>1, <1>3, <1>4, <1>7 DEF LegalWrite, WritesNodes
<1> QED BY <1>2, <1>5, <1>6, <1>7

\* A call keeps what the replicas agree on.
LEMMA CallKeeps ==
  ASSUME TInv, NEW g \in Gateways, Called(g), ScalarsOK'
  PROVE  EntriesOK' /\ Counted' /\ InvitesAgree' /\ TicketsFit' /\ NodesAsInvited'
<1>1. /\ EntriesOK /\ DocShape /\ Counted /\ InvitesAgree /\ TicketsFit /\ NodesAsInvited
      /\ issued \in Nat /\ minted \in Nat
      /\ issued' \in {issued, issued + 1} /\ minted' \in {minted, minted + 1}
      /\ warrants \subseteq warrants'
  BY DEF TInv, IInv, ScalarsOK, Called
<1>2. /\ EntriesOK'
      /\ \A h \in Gateways, i \in Invites : Invite(h, i)' # Gone =>
           Invite(h, i)' = Invite(h, i) \/ (h = g /\ i = issued + 1 /\ issued' = i)
  BY <1>1, CalledValues
<1>3. \A h \in Gateways, t \in Tickets : Ticket(h, t)' # Gone =>
        \/ /\ Ticket(h, t) # Gone
           /\ Ticket(h, t)'.invite = Ticket(h, t).invite /\ Ticket(h, t)'.node = Ticket(h, t).node
        \/ /\ t = minted + 1 /\ minted' = t
           /\ Ticket(h, t)'.invite \in Invites
           /\ IsGoodFor(g, Ticket(h, t)'.invite, Ticket(h, t)'.node)
  BY <1>1, CalledValues
<1>4. \A h \in Gateways, n \in Nodes : Node(h, n)' # Gone =>
        \/ Node(h, n)' = Node(h, n)
        \/ n \in Gateways /\ Node(h, n)'.by = n
        \/ [node |-> n, tier |-> Node(h, n)'.tier, by |-> Node(h, n)'.by] \in warrants'
  BY <1>1, CalledValues
<1>5. Counted'
  <2>1. ASSUME NEW h \in Gateways, NEW i \in Invites, Invite(h, i)' # Gone
        PROVE  i <= issued'
    BY <1>1, <1>2, <2>1 DEF Counted, Invites
  <2>2. ASSUME NEW h \in Gateways, NEW t \in Tickets, Ticket(h, t)' # Gone
        PROVE  t <= minted' /\ Ticket(h, t)'.invite <= issued'
    <3>1. CASE Ticket(h, t) # Gone /\ Ticket(h, t)'.invite = Ticket(h, t).invite
      <4>1. Ticket(h, t) \in WsTicketRecord
        BY <1>1, <3>1, HeldValues
      <4>2. t <= minted /\ Ticket(h, t).invite <= issued /\ Ticket(h, t).invite \in Nat /\ t \in Nat
        BY <1>1, <3>1, <4>1 DEF Counted, WsTicketRecord, Invites, Tickets
      <4> QED BY <1>1, <3>1, <4>2
    <3>2. CASE /\ t = minted + 1 /\ minted' = t
               /\ Ticket(h, t)'.invite \in Invites
               /\ IsGoodFor(g, Ticket(h, t)'.invite, Ticket(h, t)'.node)
      <4>1. Ticket(h, t)'.invite <= issued /\ Ticket(h, t)'.invite \in Nat
        BY <1>1, <3>2 DEF Counted, IsGoodFor, Invites
      <4> QED BY <1>1, <3>2, <4>1
    <3> QED BY <1>3, <2>2, <3>1, <3>2
  <2> QED BY <2>1, <2>2 DEF Counted
<1>6. \* What is counted is not new.
      \A h \in Gateways, i \in Invites : i <= issued /\ Invite(h, i)' # Gone =>
        Invite(h, i)' = Invite(h, i)
  BY <1>1, <1>2 DEF Invites
<1>7. InvitesAgree'
  <2>1. SUFFICES ASSUME NEW h \in Gateways, NEW x \in Gateways, NEW i \in Invites,
                        Invite(h, i)' # Gone, Invite(x, i)' # Gone
                 PROVE  Invite(h, i)' = Invite(x, i)'
    BY DEF InvitesAgree
  <2>2. CASE i <= issued
    BY <1>1, <1>6, <2>1, <2>2 DEF InvitesAgree
  <2>3. CASE ~(i <= issued)
    BY <1>1, <1>2, <2>1, <2>3 DEF Counted
  <2> QED BY <2>2, <2>3
<1>8. TicketsFit'
  <2>1. SUFFICES ASSUME NEW h \in Gateways, NEW x \in Gateways, NEW t \in Tickets, NEW i,
                        Ticket(h, t)' # Gone, Ticket(h, t)'.invite = i, Invite(x, i)' # Gone
                 PROVE  Invite(x, i)'.bound \in {Anyone, Ticket(h, t)'.node}
    BY DEF TicketsFit
  <2>2. CASE /\ Ticket(h, t) # Gone
             /\ i = Ticket(h, t).invite /\ Ticket(h, t)'.node = Ticket(h, t).node
    <3>1. i \in Invites /\ i <= issued
      BY <1>1, <2>2, HeldValues DEF WsTicketRecord, Counted
    <3>2. Invite(x, i)' = Invite(x, i)
      BY <1>6, <2>1, <3>1
    <3> QED BY <1>1, <2>1, <2>2, <3>2 DEF TicketsFit
  <2>3. CASE i \in Invites /\ IsGoodFor(g, i, Ticket(h, t)'.node)
    <3>1. i <= issued /\ Invite(g, i) # Gone /\ Invite(g, i).bound \in {Anyone, Ticket(h, t)'.node}
      BY <1>1, <2>3 DEF IsGoodFor, Counted
    <3>2. Invite(x, i)' = Invite(x, i)
      BY <1>6, <2>1, <2>3, <3>1
    <3>3. Invite(x, i) = Invite(g, i)
      BY <1>1, <2>1, <2>3, <3>1, <3>2 DEF InvitesAgree
    <3> QED BY <3>1, <3>2, <3>3
  <2> QED BY <1>3, <2>1, <2>2, <2>3
<1>9. NodesAsInvited'
  BY <1>1, <1>4 DEF NodesAsInvited, IsKnown
<1> QED BY <1>2, <1>5, <1>7, <1>8, <1>9

\* So does receiving: each value is one that some gateway had.
LEMMA ReceiveKeeps ==
  ASSUME TInv, NEW g \in Gateways, NEW h \in Gateways, Receive(g, h)
  PROVE  EntriesOK' /\ Counted' /\ InvitesAgree' /\ TicketsFit' /\ NodesAsInvited'
<1>1. /\ EntriesOK /\ DocShape /\ Counted /\ InvitesAgree /\ TicketsFit /\ NodesAsInvited
      /\ UNCHANGED <<issued, minted, warrants>>
  BY DEF TInv, IInv, Receive
<1>2. /\ EntriesOK'
      /\ \A x \in Gateways \ {h} : doc'[x] = doc[x]
      /\ \A k \in Keys : doc'[h][k].val \in {doc[h][k].val, doc[g][k].val}
  BY <1>1, ReceivedValues
<1>3. \A x \in Gateways, k \in Keys : \E y \in Gateways : doc'[x][k].val = doc[y][k].val
  BY <1>2
<1>4. \A x \in Gateways, i \in Invites : \E y \in Gateways : Invite(x, i)' = Invite(y, i)
  BY <1>3, AllKeys DEF Invite
<1>5. \A x \in Gateways, t \in Tickets : \E y \in Gateways : Ticket(x, t)' = Ticket(y, t)
  BY <1>3, AllKeys DEF Ticket
<1>6. \A x \in Gateways, n \in Nodes : \E y \in Gateways : Node(x, n)' = Node(y, n)
  BY <1>3, AllKeys DEF Node
<1>7. Counted'
  BY <1>1, <1>4, <1>5 DEF Counted
<1>8. InvitesAgree'
  BY <1>1, <1>4 DEF InvitesAgree
<1>9. TicketsFit'
  <2>1. SUFFICES ASSUME NEW x \in Gateways, NEW y \in Gateways, NEW t \in Tickets, NEW i,
                        Ticket(x, t)' # Gone, Ticket(x, t)'.invite = i, Invite(y, i)' # Gone
                 PROVE  Invite(y, i)'.bound \in {Anyone, Ticket(x, t)'.node}
    BY DEF TicketsFit
  <2>2. PICK u \in Gateways : Ticket(x, t)' = Ticket(u, t)
    BY <1>5
  <2>3. i \in Invites
    BY <1>1, <2>1, <2>2, HeldValues DEF WsTicketRecord
  <2>4. PICK v \in Gateways : Invite(y, i)' = Invite(v, i)
    BY <1>4, <2>3
  <2> QED BY <1>1, <2>1, <2>2, <2>4 DEF TicketsFit
<1>10. NodesAsInvited'
  BY <1>1, <1>6 DEF NodesAsInvited, IsKnown
<1> QED BY <1>2, <1>7, <1>8, <1>9, <1>10

\* Every step keeps the invariant.
LEMMA NextTInv ==
  ASSUME TInv, [Next]_vars
  PROVE  TInv'
<1>1. IInv'
  BY NextIInv DEF TInv
<1>2. ScalarsOK'
  BY ScalarsStep DEF TInv
<1>3. CASE DocLeft
  BY <1>1, <1>2, <1>3 DEF TInv, DocLeft, EntriesOK, Counted, InvitesAgree, TicketsFit, NodesAsInvited,
                          Invite, Ticket, Node, IsKnown
<1>4. ASSUME NEW g \in Gateways, Called(g)
      PROVE  TInv'
  BY <1>1, <1>2, <1>4, CallKeeps DEF TInv
<1>5. ASSUME NEW g \in Gateways, NEW h \in Gateways, Receive(g, h)
      PROVE  TInv'
  BY <1>1, <1>2, <1>5, ReceiveKeeps DEF TInv
<1>6. EntriesOK /\ issued \in Nat /\ minted \in Nat /\ demoted \in BOOLEAN
  BY DEF TInv, ScalarsOK
<1> QED BY <1>3, <1>4, <1>5, <1>6, StepsAre

\* The replicas agree on invites and tickets, whatever is lost or late.
THEOREM ReplicasAgree == Spec => []TInv
<1>1. TInv /\ [Next]_vars => TInv'
  BY NextTInv
<1> QED BY InitTInv, <1>1, PTL DEF Spec

\* Every variable has its type, and a ticket is for a node its invite is for, on
\* whatever replica the two meet (src/admission.ts).
THEOREM TypeCorrect == Spec => []TypeOK
BY ReplicasAgree, TInvTypes, PTL

\* Nobody is in the list of nodes of any gateway that is not a gateway entered by
\* itself, at its start or as the founder, or came by an invite in time and for him,
\* with its tier: also if he entered by a ticket, and whatever was revoked, deleted or
\* merged meanwhile (src/auth.ts, src/admission.ts, syncNodeCapabilities and
\* authorizeBackboneConnection of src/service.ts).
THEOREM NodesWereInvited == Spec => []NodesAsInvited
<1>1. TInv => NodesAsInvited
  BY DEF TInv
<1> QED BY ReplicasAgree, <1>1, PTL

-----------------------------------------------------------------------------
(***************************************************************************)
(* A backbone is left.  While no call races with another one about the     *)
(* list of nodes, its replicas are a chain: each holds an earlier or a     *)
(* later state of one list, and merging gives the later.  In one list a    *)
(* call leaves a backbone node; merged states of two concurrent calls may  *)
(* have none.                                                              *)
(***************************************************************************)

NodeKeys == {NodeKey(n) : n \in Nodes}

Types == [k \in NodeKeys |-> NodeInfo]

ChainUnlessRaced == "node" \notin raced => IsChain(doc, NodeKeys)

\* The list of nodes is part of the document.
LEMMA NodesInDocument ==
  /\ NodeKeys \subseteq Keys
  /\ \A k \in NodeKeys : k[1] = "node" /\ Types[k] = ValueOf(k)
BY AllKeys DEF NodeKeys, Types, NodeKey

LEMMA EntriesAreDocument == EntriesOK => IsDocument(doc, NodeKeys, Types)
BY NodesInDocument DEF EntriesOK, IsDocument

\* A call that raced with none found the list as every gateway has it.
LEMMA UnracedCall ==
  ASSUME NEW g \in Gateways, Called(g), "node" \notin raced'
  PROVE  "node" \notin raced /\ UpToDate(g, "node")
BY DEF Called, Call

\* Steps keep the chain.
LEMMA StepKeepsChain ==
  ASSUME TInv, EntriesOK', ChainUnlessRaced, [Next]_vars
  PROVE  ChainUnlessRaced'
<1>1. EntriesOK /\ DocShape /\ issued \in Nat /\ minted \in Nat /\ demoted \in BOOLEAN
  BY DEF TInv, IInv, ScalarsOK
<1>2. IsDocument(doc, NodeKeys, Types)
  BY <1>1, EntriesAreDocument
<1>3. IsDocument(doc', NodeKeys, Types)
  BY NodesInDocument DEF EntriesOK, IsDocument
<1>4. CASE DocLeft
  BY <1>4 DEF DocLeft, ChainUnlessRaced
<1>5. ASSUME NEW g \in Gateways, Called(g)
      PROVE  ChainUnlessRaced'
  <2>1. SUFFICES ASSUME "node" \notin raced'
                 PROVE  IsChain(doc', NodeKeys)
    BY DEF ChainUnlessRaced
  <2>2. "node" \notin raced /\ UpToDate(g, "node")
    BY <1>5, <2>1, UnracedCall
  <2>3. \A h \in Gateways, k \in NodeKeys : Merge(doc[g][k], doc[h][k]) = doc[g][k]
    BY <2>2, NodesInDocument DEF UpToDate
  <2>4. PICK f : LegalWrite(g, f)
    BY <1>5 DEF Called
  <2>5. /\ \A h \in Gateways \ {g} : doc'[h] = doc[h]
        /\ \A k \in NodeKeys : Follows(doc'[g][k], doc[g][k])
    BY <1>1, <2>4, LegalValues, NodesInDocument
  <2>6. IsChain(doc, NodeKeys)
    BY <2>2 DEF ChainUnlessRaced
  <2> QED BY <1>2, <1>3, <2>3, <2>5, <2>6, WriteKeepsChain
<1>6. ASSUME NEW g \in Gateways, NEW h \in Gateways, Receive(g, h)
      PROVE  ChainUnlessRaced'
  <2>1. SUFFICES ASSUME "node" \notin raced'
                 PROVE  IsChain(doc', NodeKeys)
    BY DEF ChainUnlessRaced
  <2>2. IsChain(doc, NodeKeys)
    BY <1>6, <2>1 DEF ChainUnlessRaced, Receive
  <2>3. Brings(doc, doc', NodeKeys, g, h)
    BY <1>1, <1>6, ReceivedValues, NodesInDocument DEF Brings
  <2> QED BY <1>2, <2>2, <2>3, ReceiveKeepsChain
<1> QED BY <1>1, <1>4, <1>5, <1>6, StepsAre

\* A call leaves a backbone node on its gateway.
LEMMA CallKeepsBackbone ==
  ASSUME TInv, SomeBackboneLeft, NEW g \in Gateways, Called(g)
  PROVE  SomeBackboneLeft'
<1>1. SUFFICES ASSUME "node" \notin raced', ~demoted', NEW h \in Gateways, ~NoNodes(h)'
               PROVE  \E n \in Nodes : IsBackbone(h, n)'
  BY DEF SomeBackboneLeft
<1>2. PICK f : LegalWrite(g, f)
  BY DEF Called
<1>3. EntriesOK /\ DocShape
  BY DEF TInv, IInv, ScalarsOK
<1>4. /\ \A x \in Gateways \ {g} : doc'[x] = doc[x]
      /\ \A n \in Nodes : Node(g, n)' = IF NodeKey(n) \in DOMAIN f THEN f[NodeKey(n)] ELSE Node(g, n)
  <2>1. /\ \A x \in Gateways \ {g} : doc'[x] = doc[x]
        /\ \A k \in Keys : doc'[g][k].val = IF k \in DOMAIN f THEN f[k] ELSE doc[g][k].val
    BY <1>2, <1>3, LegalValues
  <2> QED BY <2>1, AllKeys DEF Node
<1>5. "node" \notin raced /\ UpToDate(g, "node") /\ ~demoted
  BY <1>1, UnracedCall DEF Called
<1>6. CASE h # g
  BY <1>4, <1>5, <1>6, <1>1 DEF SomeBackboneLeft, NoNodes, IsBackbone, IsKnown, Node
<1>7. CASE h = g
  <2>1. CASE \A n \in Nodes : NodeKey(n) \notin DOMAIN f
    <3>1. \A n \in Nodes : Node(g, n)' = Node(g, n)
      BY <1>4, <2>1
    <3> QED BY <1>1, <1>5, <1>7, <3>1 DEF SomeBackboneLeft, NoNodes, IsBackbone, IsKnown
  <2>2. CASE \E n \in Nodes : IsBackbone(g, n) /\ NodeKey(n) \notin DOMAIN f
    BY <1>4, <1>7, <2>2 DEF IsBackbone, IsKnown
  <2>3. CASE \E n \in Nodes : /\ NodeKey(n) \in DOMAIN f /\ f[NodeKey(n)] # Gone
                              /\ f[NodeKey(n)].tier = "backbone"
    BY <1>4, <1>7, <2>3 DEF IsBackbone, IsKnown
  <2> QED BY <1>1, <1>2, <1>5, <2>1, <2>2, <2>3 DEF LegalWrite, LeavesBackbone
<1> QED BY <1>6, <1>7

\* In a chain receiving makes nothing of two states that neither had.
LEMMA ReceiveKeepsBackbone ==
  ASSUME TInv, ChainUnlessRaced, SomeBackboneLeft,
         NEW g \in Gateways, NEW h \in Gateways, Receive(g, h)
  PROVE  SomeBackboneLeft'
<1>1. SUFFICES ASSUME "node" \notin raced, ~demoted, NEW x \in Gateways, ~NoNodes(x)'
               PROVE  \E n \in Nodes : IsBackbone(x, n)'
  BY DEF SomeBackboneLeft, Receive
<1>2. Brings(doc, doc', NodeKeys, g, h)
  BY ReceivedValues, NodesInDocument DEF TInv, IInv, Brings
<1>3. IsDocument(doc, NodeKeys, Types) /\ IsChain(doc, NodeKeys)
  BY <1>1, EntriesAreDocument DEF TInv, ChainUnlessRaced
<1>4. TakesAll(doc, doc', NodeKeys, h, g) \/ TakesAll(doc, doc', NodeKeys, h, h)
  BY <1>2, <1>3, ReceiveKeepsChain
<1>5. PICK y \in Gateways : \A k \in NodeKeys : doc'[x][k] = doc[y][k]
  BY <1>2, <1>4 DEF Brings, TakesAll
<1>6. \A n \in Nodes : Node(x, n)' = Node(y, n)
  BY <1>5 DEF Node, NodeKeys
<1> QED BY <1>1, <1>6 DEF SomeBackboneLeft, NoNodes, IsBackbone, IsKnown

LEMMA InitChain == Init => ChainUnlessRaced /\ SomeBackboneLeft
<1>1. SUFFICES ASSUME Init
               PROVE  ChainUnlessRaced /\ SomeBackboneLeft
  OBVIOUS
<1>2. PICK M \in {{}, Gateways} :
        doc = [g \in Gateways |-> [k \in Keys |->
                 First(IF \E n \in M : k = NodeKey(n)
                       THEN [tier |-> "backbone", by |-> k[2]] ELSE Gone)]]
  BY <1>1 DEF Init
<1>3. \A g, h \in Gateways : doc[g] = doc[h]
  BY <1>2
<1>4. \A g \in Gateways, n \in Nodes : IsKnown(g, n) => IsBackbone(g, n)
  <2>1. SUFFICES ASSUME NEW g \in Gateways, NEW n \in Nodes, Node(g, n) # Gone
                 PROVE  Node(g, n).tier = "backbone"
    BY DEF IsKnown, IsBackbone
  <2>2. Node(g, n) = IF \E m \in M : NodeKey(n) = NodeKey(m)
                     THEN [tier |-> "backbone", by |-> NodeKey(n)[2]] ELSE Gone
    BY <1>2, AllKeys DEF Node, First
  <2> QED BY <2>1, <2>2
<1> QED BY <1>3, <1>4, ChainOfEquals DEF ChainUnlessRaced, SomeBackboneLeft, NoNodes

\* A network that is not demoted to one of edges keeps a node that may invite and
\* revoke, on every gateway, as long as calls are made where everything about the nodes
\* has arrived: revokeNode spares the caller, and a join or a start rewrites only the
\* node that joins or starts (src/auth.ts, syncNodeCapabilities of src/service.ts).
THEOREM BackboneStays == Spec => []SomeBackboneLeft
<1> DEFINE BInv == TInv /\ ChainUnlessRaced /\ SomeBackboneLeft
<1>1. Init => BInv
  BY InitTInv, InitChain
<1>2. BInv /\ [Next]_vars => BInv'
  <2>1. SUFFICES ASSUME BInv, [Next]_vars
                 PROVE  BInv'
    OBVIOUS
  <2>2. TInv' /\ EntriesOK'
    BY <2>1, NextTInv DEF TInv
  <2>3. ChainUnlessRaced'
    BY <2>1, <2>2, StepKeepsChain
  <2>4. ASSUME DocLeft
        PROVE  SomeBackboneLeft'
    <3>1. UNCHANGED <<doc, raced, demoted>>
      BY <2>4 DEF DocLeft
    <3> QED BY <2>1, <3>1 DEF SomeBackboneLeft, NoNodes, IsBackbone, IsKnown, Node
  <2>5. EntriesOK /\ issued \in Nat /\ minted \in Nat /\ demoted \in BOOLEAN
    BY <2>1 DEF TInv, ScalarsOK
  <2>6. SomeBackboneLeft'
    BY <2>1, <2>4, <2>5, StepsAre, CallKeepsBackbone, ReceiveKeepsBackbone
  <2> QED BY <2>2, <2>3, <2>6
<1>3. BInv => SomeBackboneLeft
  OBVIOUS
<1> QED BY <1>1, <1>2, <1>3, PTL DEF Spec
=============================================================================
