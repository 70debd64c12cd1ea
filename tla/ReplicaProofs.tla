--------------------------- MODULE ReplicaProofs ---------------------------
(***************************************************************************)
(* What the modules of the shared maps need to know of Replica: the types  *)
(* of entries, and what remains of concurrency when every write is made    *)
(* where all earlier ones have been received.  Then the states of a key    *)
(* are a chain, in which a later state follows from an earlier one by      *)
(* writes and deletions, and of two states merging keeps the later one.    *)
(***************************************************************************)
EXTENDS Replica, LoopProofs

\* Entry f is e, or e some writes or a deletion later.
Follows(f, e) == f = e \/ (Includes(f, e) /\ ~Includes(e, f)) \/ f = Delete(e)

-----------------------------------------------------------------------------
(***************************************************************************)
(* Types.                                                                  *)
(***************************************************************************)

\* A key starts with an entry.
LEMMA FirstEntry ==
  ASSUME NEW Values, NEW v, v \in Values \/ v = Gone
  PROVE  IsEntry(First(v), Values)
<1>1. (CHOOSE g \in Gateways : TRUE) \in Gateways
  BY ReplicaAssumption
<1> QED BY <1>1 DEF First, IsEntry

\* A write makes an entry of an entry.
LEMMA SetEntry ==
  ASSUME NEW Values, NEW e, IsEntry(e, Values), NEW g \in Gateways, NEW v \in Values
  PROVE  IsEntry(Set(e, g, v), Values) /\ Set(e, g, v).val = v
<1>1. [e.seen EXCEPT ![g] = @ + 1] \in [Gateways -> Nat]
  BY DEF IsEntry
<1> QED BY <1>1 DEF Set, IsEntry

\* So does a deletion.
LEMMA DeleteEntry ==
  ASSUME NEW Values, NEW e, IsEntry(e, Values)
  PROVE  /\ IsEntry(Delete(e), Values)
         /\ Delete(e) = [val |-> Gone, seen |-> e.seen, by |-> e.by]
<1>1. e = [val |-> e.val, seen |-> e.seen, by |-> e.by]
  BY DEF IsEntry
<1>2. Delete(e) = [val |-> Gone, seen |-> e.seen, by |-> e.by]
  BY <1>1 DEF Delete
<1> QED BY <1>2 DEF IsEntry

\* Merging makes an entry of two, with the value of one of them, that has seen what
\* either has.
LEMMA MergeEntry ==
  ASSUME NEW Values, NEW e, NEW f, IsEntry(e, Values), IsEntry(f, Values)
  PROVE  /\ IsEntry(Merge(e, f), Values)
         /\ Merge(e, f).val \in {e.val, f.val}
         /\ Includes(Merge(e, f), e) /\ Includes(Merge(e, f), f)
<1> DEFINE fWins == f.val # Gone /\ (e.val = Gone \/ GatewayRank[f.by] > GatewayRank[e.by])
           both == [val |-> IF fWins THEN f.val ELSE e.val,
                    seen |-> [g \in Gateways |-> Max({e.seen[g], f.seen[g]})],
                    by |-> IF fWins THEN f.by ELSE e.by]
<1>1. /\ e.seen \in [Gateways -> Nat] /\ f.seen \in [Gateways -> Nat]
      /\ e.by \in Gateways /\ f.by \in Gateways
      /\ e.val \in Values \/ e.val = Gone
      /\ f.val \in Values \/ f.val = Gone
  BY DEF IsEntry
<1>2. Includes(e, e) /\ Includes(f, f)
  BY <1>1 DEF Includes
<1>3. \A g \in Gateways : /\ Max({e.seen[g], f.seen[g]}) \in Nat
                          /\ Max({e.seen[g], f.seen[g]}) >= e.seen[g]
                          /\ Max({e.seen[g], f.seen[g]}) >= f.seen[g]
  BY <1>1, MaxOfTwo
<1>4. both.seen \in [Gateways -> Nat] /\ \A g \in Gateways : both.seen[g] = Max({e.seen[g], f.seen[g]})
  BY <1>3
<1>5. both.val \in {e.val, f.val} /\ both.by \in Gateways
  BY <1>1
<1>6. Includes(both, e) /\ Includes(both, f)
  BY <1>3, <1>4 DEF Includes
<1>7. both = [val |-> both.val, seen |-> both.seen, by |-> both.by]
  OBVIOUS
<1>8. \/ Merge(e, f) = e /\ Includes(e, f)
      \/ Merge(e, f) = f /\ Includes(f, e)
      \/ Merge(e, f) = both
  BY DEF Merge
<1> HIDE DEF both
<1>9. CASE Merge(e, f) = both
  <2>1. IsEntry(both, Values)
    BY <1>1, <1>4, <1>5, <1>7 DEF IsEntry
  <2> QED BY <1>5, <1>6, <1>9, <2>1
<1> QED BY <1>2, <1>8, <1>9

-----------------------------------------------------------------------------
(***************************************************************************)
(* The chain.                                                              *)
(***************************************************************************)

\* A write, and a deletion, follows the entry it was made on.
LEMMA WritesFollow ==
  ASSUME NEW Values, NEW e, IsEntry(e, Values), NEW g \in Gateways, NEW v
  PROVE  Follows(Set(e, g, v), e) /\ Follows(Delete(e), e)
<1>1. Set(e, g, v).seen = [e.seen EXCEPT ![g] = @ + 1] /\ e.seen \in [Gateways -> Nat]
  BY DEF Set, IsEntry
<1>2. Includes(Set(e, g, v), e) /\ ~Includes(e, Set(e, g, v))
  BY <1>1 DEF Includes
<1> QED BY <1>2 DEF Follows

\* To have seen more is an order.
LEMMA IncludesOrder ==
  ASSUME NEW Values, NEW e, NEW f, NEW h,
         IsEntry(e, Values), IsEntry(f, Values), IsEntry(h, Values)
  PROVE  /\ Includes(e, e)
         /\ Includes(h, f) /\ Includes(f, e) => Includes(h, e)
BY DEF Includes, IsEntry

\* What follows a follower follows.
LEMMA FollowsTransitive ==
  ASSUME NEW Values, NEW e, NEW f, NEW h,
         IsEntry(e, Values), IsEntry(f, Values), IsEntry(h, Values),
         Follows(f, e), Follows(h, f)
  PROVE  Follows(h, e)
<1>1. Delete(e).seen = e.seen /\ Delete(f).seen = f.seen
  BY DeleteEntry
<1>2. f = Delete(e) => (\A x : Includes(f, x) <=> Includes(e, x))
                         /\ (\A x : Includes(x, f) <=> Includes(x, e))
  BY <1>1 DEF Includes
<1>3. h = Delete(f) => (\A x : Includes(h, x) <=> Includes(f, x))
                         /\ (\A x : Includes(x, h) <=> Includes(x, f))
  BY <1>1 DEF Includes
<1>4. CASE f = e \/ h = f
  BY <1>4
<1>5. CASE Includes(f, e) /\ ~Includes(e, f) /\ Includes(h, f)
  BY <1>5, IncludesOrder DEF Follows
<1>6. CASE Includes(h, f) /\ ~Includes(f, h) /\ Includes(f, e)
  BY <1>6, IncludesOrder DEF Follows
<1>7. CASE h = Delete(f) /\ Includes(f, e) /\ ~Includes(e, f)
  BY <1>3, <1>7 DEF Follows
<1>8. CASE f = Delete(e) /\ Includes(h, f) /\ ~Includes(f, h)
  BY <1>2, <1>8 DEF Follows
<1>9. CASE f = Delete(e) /\ h = Delete(f)
  <2>1. h = f
    BY <1>9, DeleteEntry
  <2> QED BY <1>9, <2>1 DEF Follows
<1> QED BY <1>4, <1>5, <1>6, <1>7, <1>8, <1>9 DEF Follows

\* Merging an entry with one that follows it gives the one that follows, whichever
\* way they are received.
LEMMA MergeFollows ==
  ASSUME NEW Values, NEW e, NEW f, IsEntry(e, Values), IsEntry(f, Values), Follows(f, e)
  PROVE  Merge(e, f) = f /\ Merge(f, e) = f
<1>1. Includes(e, e)
  BY IncludesOrder
<1>2. CASE f = e
  BY <1>1, <1>2 DEF Merge
<1>3. CASE Includes(f, e) /\ ~Includes(e, f)
  BY <1>3 DEF Merge
<1>4. CASE f = Delete(e)
  <2>1. f = [val |-> Gone, seen |-> e.seen, by |-> e.by] /\ f.val = Gone /\ f.seen = e.seen
    BY <1>4, DeleteEntry
  <2>2. Includes(e, f) /\ Includes(f, e)
    BY <1>1, <2>1 DEF Includes
  <2>3. e.val = Gone => e = f
    BY <2>1 DEF IsEntry
  <2> QED BY <2>1, <2>2, <2>3 DEF Merge
<1> QED BY <1>2, <1>3, <1>4 DEF Follows

-----------------------------------------------------------------------------
(***************************************************************************)
(* Documents of many keys.                                                 *)
(***************************************************************************)

\* D holds an entry of each key of K on each gateway, with a value of Values[k].
IsDocument(D, K, Values) == \A g \in Gateways, k \in K : IsEntry(D[g][k], Values[k])

\* Gateway g has all that h has.
HasAllOf(D, K, g, h) == \A k \in K : Follows(D[g][k], D[h][k])

\* Of two gateways one has all that the other has.
IsChain(D, K) == \A g, h \in Gateways : HasAllOf(D, K, g, h) \/ HasAllOf(D, K, h, g)

\* E is D after gateway h has received all that g has.
Brings(D, E, K, g, h) ==
  /\ \A x \in Gateways \ {h} : E[x] = D[x]
  /\ \A k \in K : E[h][k] = Merge(D[h][k], D[g][k])

\* Gateway h has in E what x had in D.
TakesAll(D, E, K, h, x) == \A k \in K : E[h][k] = D[x][k]

\* A document that is the same everywhere is a chain.
LEMMA ChainOfEquals ==
  ASSUME NEW D, NEW K, \A g, h \in Gateways : D[g] = D[h]
  PROVE  IsChain(D, K)
BY DEF IsChain, HasAllOf, Follows

\* Where everything has been received, a write keeps the chain.
LEMMA WriteKeepsChain ==
  ASSUME NEW D, NEW E, NEW K, NEW Values, NEW g \in Gateways,
         IsDocument(D, K, Values), IsDocument(E, K, Values), IsChain(D, K),
         \A h \in Gateways, k \in K : Merge(D[g][k], D[h][k]) = D[g][k],
         \A h \in Gateways \ {g} : E[h] = D[h],
         \A k \in K : Follows(E[g][k], D[g][k])
  PROVE  IsChain(E, K)
<1>1. ASSUME NEW h \in Gateways, NEW k \in K, HasAllOf(D, K, h, g)
      PROVE  D[g][k] = D[h][k]
  <2>1. Merge(D[g][k], D[h][k]) = D[h][k]
    BY <1>1, MergeFollows DEF HasAllOf, IsDocument
  <2> QED BY <2>1
<1>2. ASSUME NEW h \in Gateways, NEW k \in K
      PROVE  Follows(D[g][k], D[h][k])
  <2>1. CASE HasAllOf(D, K, g, h)
    BY <2>1 DEF HasAllOf
  <2>2. CASE HasAllOf(D, K, h, g)
    BY <1>1, <2>2 DEF Follows
  <2> QED BY <2>1, <2>2 DEF IsChain
<1>3. ASSUME NEW h \in Gateways, NEW k \in K
      PROVE  Follows(E[g][k], D[h][k])
  <2>1. /\ IsEntry(D[h][k], Values[k]) /\ IsEntry(D[g][k], Values[k])
        /\ IsEntry(E[g][k], Values[k])
    BY DEF IsDocument
  <2> QED BY <1>2, <2>1, FollowsTransitive
<1>4. \A h \in Gateways : HasAllOf(E, K, g, h)
  <2>1. SUFFICES ASSUME NEW h \in Gateways, NEW k \in K
                 PROVE  Follows(E[g][k], E[h][k])
    BY DEF HasAllOf
  <2>2. CASE h = g
    BY <2>2 DEF Follows
  <2>3. CASE h # g
    BY <1>3, <2>3
  <2> QED BY <2>2, <2>3
<1>5. SUFFICES ASSUME NEW x \in Gateways, NEW y \in Gateways
               PROVE  HasAllOf(E, K, x, y) \/ HasAllOf(E, K, y, x)
  BY DEF IsChain
<1>6. CASE x = g \/ y = g
  BY <1>4, <1>6
<1>7. CASE x # g /\ y # g
  BY <1>7 DEF IsChain, HasAllOf
<1> QED BY <1>6, <1>7

\* In a chain receiving leaves a gateway as it was, or makes it what the other is;
\* so it keeps the chain.
LEMMA ReceiveKeepsChain ==
  ASSUME NEW D, NEW E, NEW K, NEW Values, NEW g \in Gateways, NEW h \in Gateways,
         IsDocument(D, K, Values), IsChain(D, K), Brings(D, E, K, g, h)
  PROVE  /\ TakesAll(D, E, K, h, g) \/ TakesAll(D, E, K, h, h)
         /\ IsChain(E, K)
<1>1. PICK from \in {g, h} : \A k \in K : E[h][k] = D[from][k]
  <2>1. CASE HasAllOf(D, K, h, g)
    <3>1. \A k \in K : E[h][k] = D[h][k]
      BY <2>1, MergeFollows DEF HasAllOf, IsDocument, Brings
    <3> QED BY <3>1
  <2>2. CASE HasAllOf(D, K, g, h)
    <3>1. \A k \in K : E[h][k] = D[g][k]
      BY <2>2, MergeFollows DEF HasAllOf, IsDocument, Brings
    <3> QED BY <3>1
  <2> QED BY <2>1, <2>2 DEF IsChain
<1>2. ASSUME NEW x \in Gateways
      PROVE  \E y \in Gateways : \A k \in K : E[x][k] = D[y][k]
  BY <1>1 DEF Brings
<1>3. SUFFICES ASSUME NEW x \in Gateways, NEW y \in Gateways
               PROVE  HasAllOf(E, K, x, y) \/ HasAllOf(E, K, y, x)
  BY <1>1 DEF IsChain, TakesAll
<1>4. PICK a \in Gateways : \A k \in K : E[x][k] = D[a][k]
  BY <1>2
<1>5. PICK b \in Gateways : \A k \in K : E[y][k] = D[b][k]
  BY <1>2
<1> QED BY <1>4, <1>5 DEF IsChain, HasAllOf

-----------------------------------------------------------------------------
(***************************************************************************)
(* The latest state.  A chain that started from one document has a gateway *)
(* with the latest state, which is the one every call is made on.          *)
(***************************************************************************)

\* Gateway g has all that anybody has.
IsLatest(D, K, g) == \A h \in Gateways : HasAllOf(D, K, g, h)

\* A gateway that gains nothing by receiving has the latest state, if there is one.
LEMMA UpToDateIsLatest ==
  ASSUME NEW D, NEW K, NEW Values, NEW y \in Gateways, NEW g \in Gateways,
         IsDocument(D, K, Values), IsLatest(D, K, y),
         \A h \in Gateways, k \in K : Merge(D[g][k], D[h][k]) = D[g][k]
  PROVE  /\ \A k \in K : D[g][k] = D[y][k]
         /\ IsLatest(D, K, g)
<1>1. \A k \in K : D[g][k] = D[y][k]
  <2>1. SUFFICES ASSUME NEW k \in K
                 PROVE  D[g][k] = D[y][k]
    OBVIOUS
  <2>2. Follows(D[y][k], D[g][k])
    BY DEF IsLatest, HasAllOf
  <2>3. Merge(D[g][k], D[y][k]) = D[y][k]
    BY <2>2, MergeFollows DEF IsDocument
  <2> QED BY <2>3
<1> QED BY <1>1 DEF IsLatest, HasAllOf

\* A write on the latest state makes a later one.
LEMMA WriteIsLatest ==
  ASSUME NEW D, NEW E, NEW K, NEW Values, NEW g \in Gateways,
         IsDocument(D, K, Values), IsDocument(E, K, Values), IsLatest(D, K, g),
         \A h \in Gateways \ {g} : E[h] = D[h],
         \A k \in K : Follows(E[g][k], D[g][k])
  PROVE  IsLatest(E, K, g)
<1>1. SUFFICES ASSUME NEW h \in Gateways, NEW k \in K
               PROVE  Follows(E[g][k], E[h][k])
  BY DEF IsLatest, HasAllOf
<1>2. CASE h = g
  BY <1>2 DEF Follows
<1>3. CASE h # g
  <2>1. /\ IsEntry(D[h][k], Values[k]) /\ IsEntry(D[g][k], Values[k])
        /\ IsEntry(E[g][k], Values[k])
    BY DEF IsDocument
  <2>2. Follows(D[g][k], D[h][k]) /\ E[h] = D[h]
    BY <1>3 DEF IsLatest, HasAllOf
  <2> QED BY <2>1, <2>2, FollowsTransitive
<1> QED BY <1>2, <1>3

\* Receiving leaves the latest state where it is.
LEMMA ReceiveKeepsLatest ==
  ASSUME NEW D, NEW E, NEW K, NEW Values, NEW y \in Gateways, NEW g \in Gateways, NEW h \in Gateways,
         IsDocument(D, K, Values), IsChain(D, K), IsLatest(D, K, y), Brings(D, E, K, g, h)
  PROVE  TakesAll(D, E, K, y, y) /\ IsLatest(E, K, y)
<1>1. \A k \in K : E[y][k] = D[y][k]
  <2>1. CASE y # h
    BY <2>1 DEF Brings
  <2>2. CASE y = h
    BY <2>2, MergeFollows DEF Brings, IsLatest, HasAllOf, IsDocument
  <2> QED BY <2>1, <2>2
<1>2. TakesAll(D, E, K, h, g) \/ TakesAll(D, E, K, h, h)
  BY ReceiveKeepsChain
<1>3. ASSUME NEW x \in Gateways, NEW k \in K
      PROVE  Follows(E[y][k], E[x][k])
  <2>1. \E z \in Gateways : E[x][k] = D[z][k]
    BY <1>2 DEF TakesAll, Brings
  <2> QED BY <1>1, <2>1 DEF IsLatest, HasAllOf
<1> QED BY <1>1, <1>3 DEF IsLatest, HasAllOf, TakesAll
=============================================================================
