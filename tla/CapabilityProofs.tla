-------------------------- MODULE CapabilityProofs --------------------------
(***************************************************************************)
(* Proofs about CapabilityLifecycle, for any gateways, agents, versions    *)
(* and offers.                                                             *)
(*                                                                         *)
(* A pipeline is described by the value it leaves in each key.  What the   *)
(* maps say together is a property of the latest state, from which every   *)
(* pipeline starts as long as nothing races, and which is what a gateway   *)
(* holds that has received everything.                                     *)
(***************************************************************************)
EXTENDS CapabilityLifecycle, LoopProofs

-----------------------------------------------------------------------------
(***************************************************************************)
(* Keys, values and entries.                                               *)
(***************************************************************************)

\* Every key has its map.
LEMMA AllKeys ==
  /\ CatalogKey \in Keys /\ ValueOf(CatalogKey) = CatalogRecord
       /\ Blank(CatalogKey) = [version |-> NoVersion, owner |-> NoAgent, approved |-> FALSE,
                               status |-> "none"]
  /\ IndexKey \in Keys /\ ValueOf(IndexKey) = SUBSET Agents /\ Blank(IndexKey) = {}
  /\ RevisionKey \in Keys /\ ValueOf(RevisionKey) = RevisionRecord
       /\ Blank(RevisionKey) = [versions |-> {}, active |-> NoVersion, archived |-> {},
                                owner |-> NoAgent, failedFrom |-> NoAgent, last |-> "none"]
  /\ \A v \in Versions :
       /\ ManifestKey(v) \in Keys /\ ValueOf(ManifestKey(v)) = ManifestRecord
       /\ Blank(ManifestKey(v)) = [owner |-> NoAgent, standbys |-> {}, risk |-> "none"]
       /\ StageKey(v) \in Keys /\ ValueOf(StageKey(v)) = StageRecord
       /\ Blank(StageKey(v)) = [status |-> "none", owner |-> NoAgent, targets |-> {}]
       /\ WiringKey(v) \in Keys /\ ValueOf(WiringKey(v)) = WiringRecord
       /\ Blank(WiringKey(v)) = [state |-> "none", owner |-> NoAgent, targets |-> {}]
  /\ \A k \in Keys : \/ k \in {CatalogKey, IndexKey, RevisionKey}
                     \/ \E v \in Versions : k \in {ManifestKey(v), StageKey(v), WiringKey(v)}
BY DEF Keys, CatalogKey, IndexKey, RevisionKey, ManifestKey, StageKey, WiringKey, ValueOf, Blank

\* Different keys have different names.
LEMMA KeyNames ==
  /\ CatalogKey # IndexKey /\ CatalogKey # RevisionKey /\ IndexKey # RevisionKey
  /\ \A k \in {CatalogKey, IndexKey, RevisionKey} : \A v :
       k # ManifestKey(v) /\ k # StageKey(v) /\ k # WiringKey(v)
  /\ \A v, w : /\ ManifestKey(v) # StageKey(w) /\ ManifestKey(v) # WiringKey(w)
               /\ StageKey(v) # WiringKey(w)
               /\ ManifestKey(v) = ManifestKey(w) => v = w
               /\ StageKey(v) = StageKey(w) => v = w
               /\ WiringKey(v) = WiringKey(w) => v = w
BY DEF CatalogKey, IndexKey, RevisionKey, ManifestKey, StageKey, WiringKey

\* What a key holds before it is written fits it.
LEMMA BlankFits == \A k \in Keys : Blank(k) \in ValueOf(k)
<1>1. /\ Blank(CatalogKey) \in CatalogRecord /\ Blank(IndexKey) \in SUBSET Agents
      /\ Blank(RevisionKey) \in RevisionRecord
  BY AllKeys DEF CatalogRecord, RevisionRecord, SomeVersion, SomeAgent
<1>2. ASSUME NEW v \in Versions
      PROVE  /\ Blank(ManifestKey(v)) \in ManifestRecord
             /\ Blank(StageKey(v)) \in StageRecord
             /\ Blank(WiringKey(v)) \in WiringRecord
  <2>1. Blank(ManifestKey(v)) = [owner |-> NoAgent, standbys |-> {}, risk |-> "none"]
    BY AllKeys
  <2>2. Blank(StageKey(v)) = [status |-> "none", owner |-> NoAgent, targets |-> {}]
    BY AllKeys
  <2>3. Blank(WiringKey(v)) = [state |-> "none", owner |-> NoAgent, targets |-> {}]
    BY AllKeys
  <2> QED BY <2>1, <2>2, <2>3 DEF ManifestRecord, StageRecord, WiringRecord, SomeAgent
<1> QED BY <1>1, <1>2, AllKeys

Values == UNION {ValueOf(k) : k \in Keys}
Entries == [val : Values, seen : [Gateways -> Nat], by : Gateways]
AllMessages ==
  {m \in [key : Keys, entry : Entries, erase : BOOLEAN] : IsEntry(m.entry, m.key)}

DocOK ==
  /\ doc = [g \in Gateways |-> [k \in Keys |-> doc[g][k]]]
  /\ \A g \in Gateways, k \in Keys : IsEntry(doc[g][k], k)

ChanOK == chan \in [Gateways -> [Gateways -> Seq(AllMessages)]]

\* What a replica holds.
LEMMA HeldValues ==
  ASSUME DocOK, NEW g \in Gateways
  PROVE  /\ \A k \in Keys : doc[g][k].val \in ValueOf(k)
         /\ Catalog(g) \in CatalogRecord /\ Index(g) \in SUBSET Agents
         /\ Revision(g) \in RevisionRecord
         /\ \A v \in Versions : /\ Manifest(g, v) \in ManifestRecord
                                /\ Stage(g, v) \in StageRecord /\ Wiring(g, v) \in WiringRecord
<1>1. \A k \in Keys : doc[g][k].val \in ValueOf(k)
  BY DEF DocOK, IsEntry
<1> QED BY <1>1, AllKeys DEF Catalog, Index, Revision, Manifest, Stage, Wiring

-----------------------------------------------------------------------------
(***************************************************************************)
(* Pipelines.                                                              *)
(***************************************************************************)

\* A write of a pipeline.
AllWrites ==
  {w \in [key : Keys, val : Values, erase : BOOLEAN] : w.val \in ValueOf(w.key)}

LEMMA PutAndErase ==
  /\ \A k \in Keys : \A v \in ValueOf(k) :
       Put(k, v) \in AllWrites /\ Put(k, v).key = k /\ Put(k, v).val = v /\ ~Put(k, v).erase
  /\ \A k \in Keys : Erase(k) \in AllWrites /\ Erase(k).key = k /\ Erase(k).val = Blank(k)
                       /\ Erase(k).erase
BY BlankFits DEF Put, Erase, AllWrites, Values

\* Write j is the last one of the pipeline to key k; the pipeline leaves value v there;
\* it leaves k alone.
IsLast(ws, k, j) ==
  j \in DOMAIN ws /\ ws[j].key = k /\ \A i \in DOMAIN ws : ws[i].key = k => i <= j
Leaves(ws, k, v) == \E j \in DOMAIN ws : IsLast(ws, k, j) /\ ws[j].val = v
Skips(ws, k) == \A j \in DOMAIN ws : ws[j].key # k

\* Of two parts of a pipeline the second decides, if it writes the key.
LEMMA PartsOfPipelines ==
  ASSUME NEW S, NEW ws \in Seq(S), NEW us \in Seq(S), NEW k
  PROVE  /\ ws \o us \in Seq(S)
         /\ \A v : Leaves(us, k, v) => Leaves(ws \o us, k, v)
         /\ \A v : Leaves(ws, k, v) /\ Skips(us, k) => Leaves(ws \o us, k, v)
         /\ Skips(ws, k) /\ Skips(us, k) => Skips(ws \o us, k)
         /\ Skips(<<>>, k)
<1> DEFINE n == Len(ws)
           m == Len(us)
           both == ws \o us
<1>1. /\ n \in Nat /\ m \in Nat /\ DOMAIN ws = 1..n /\ DOMAIN us = 1..m
      /\ both \in Seq(S) /\ DOMAIN both = 1..(n + m)
      /\ \A i \in 1..(n + m) : both[i] = IF i <= n THEN ws[i] ELSE us[i - n]
  OBVIOUS
<1>2. ASSUME NEW v, Leaves(us, k, v)
      PROVE  Leaves(both, k, v)
  <2>1. PICK j \in 1..m : us[j].key = k /\ us[j].val = v /\ \A i \in 1..m : us[i].key = k => i <= j
    BY <1>1, <1>2 DEF Leaves, IsLast
  <2>2. n + j \in DOMAIN both /\ both[n + j] = us[j]
    BY <1>1
  <2>3. ASSUME NEW i \in DOMAIN both, both[i].key = k
        PROVE  i <= n + j
    <3>1. CASE i <= n
      BY <1>1, <3>1
    <3>2. CASE i > n
      <4>1. i - n \in 1..m /\ both[i] = us[i - n]
        BY <1>1, <3>2
      <4> QED BY <1>1, <2>1, <2>3, <4>1
    <3> QED BY <1>1, <3>1, <3>2
  <2> HIDE DEF both
  <2> QED BY <2>1, <2>2, <2>3 DEF Leaves, IsLast
<1>3. ASSUME NEW v, Leaves(ws, k, v), Skips(us, k)
      PROVE  Leaves(both, k, v)
  <2>1. PICK j \in 1..n : ws[j].key = k /\ ws[j].val = v /\ \A i \in 1..n : ws[i].key = k => i <= j
    BY <1>1, <1>3 DEF Leaves, IsLast
  <2>2. j \in DOMAIN both /\ both[j] = ws[j]
    BY <1>1
  <2>3. ASSUME NEW i \in DOMAIN both, both[i].key = k
        PROVE  i <= j
    <3>1. CASE i <= n
      BY <1>1, <2>1, <2>3, <3>1
    <3>2. CASE i > n
      <4>1. i - n \in 1..m /\ both[i] = us[i - n]
        BY <1>1, <3>2
      <4> QED BY <1>1, <1>3, <2>3, <4>1 DEF Skips
    <3> QED BY <1>1, <3>1, <3>2
  <2> HIDE DEF both
  <2> QED BY <2>1, <2>2, <2>3 DEF Leaves, IsLast
<1>4. ASSUME Skips(ws, k), Skips(us, k)
      PROVE  Skips(both, k)
  <2>1. ASSUME NEW i \in DOMAIN both
        PROVE  both[i].key # k
    <3>1. CASE i <= n
      BY <1>1, <1>4, <3>1 DEF Skips
    <3>2. CASE i > n
      <4>1. i - n \in 1..m /\ both[i] = us[i - n]
        BY <1>1, <3>2
      <4> QED BY <1>1, <1>4, <4>1 DEF Skips
    <3> QED BY <1>1, <3>1, <3>2
  <2> QED BY <2>1 DEF Skips
<1>5. Skips(<<>>, k)
  BY DEF Skips
<1> HIDE DEF both
<1> QED BY <1>1, <1>2, <1>3, <1>4, <1>5 DEF both

-----------------------------------------------------------------------------
(***************************************************************************)
(* What a pipeline writes on its own gateway, and sends to the others.     *)
(***************************************************************************)

\* To have seen more is an order.
LEMMA IncludesOrder ==
  ASSUME NEW e, NEW f, NEW h, NEW j \in Keys, NEW k \in Keys, NEW l \in Keys,
         IsEntry(e, j), IsEntry(f, k), IsEntry(h, l)
  PROVE  /\ Includes(e, e)
         /\ Includes(h, f) /\ Includes(f, e) => Includes(h, e)
BY DEF Includes, IsEntry

\* How many puts of its key a write of a pipeline ends.
Puts(ws, j) == {i \in 1..j : ws[i].key = ws[j].key /\ ~ws[i].erase}

LEMMA PutsCounted ==
  ASSUME NEW ws \in Seq(AllWrites), NEW j \in DOMAIN ws, NEW i \in DOMAIN ws, ws[i].key = ws[j].key, i <= j
  PROVE  /\ Cardinality(Puts(ws, i)) \in Nat /\ Cardinality(Puts(ws, j)) \in Nat
         /\ Cardinality(Puts(ws, i)) <= Cardinality(Puts(ws, j))
         /\ ~ws[i].erase => Cardinality(Puts(ws, j)) # 0
<1>1. i \in 1..j /\ i \in Nat /\ j \in Nat
  OBVIOUS
<1>2. IsFiniteSet(1..i) /\ IsFiniteSet(1..j)
  BY <1>1, FS_Interval
<1>3. Puts(ws, i) \subseteq 1..i /\ Puts(ws, j) \subseteq 1..j /\ Puts(ws, i) \subseteq Puts(ws, j)
  BY <1>1 DEF Puts
<1>4. ~ws[i].erase => i \in Puts(ws, j)
  BY <1>1 DEF Puts
<1> HIDE DEF Puts
<1>5. IsFiniteSet(Puts(ws, i)) /\ IsFiniteSet(Puts(ws, j))
  BY <1>2, <1>3, FS_Subset
<1>6. Cardinality(Puts(ws, i)) <= Cardinality(Puts(ws, j))
  BY <1>3, <1>5, FS_Subset
<1>7. ~ws[i].erase => Cardinality(Puts(ws, j)) # 0
  BY <1>4, <1>5, FS_EmptySet
<1> QED BY <1>5, <1>6, <1>7, FS_CardinalityType

\* The entry write j leaves: it includes the one before the pipeline, and strictly if
\* the pipeline has put something there.
LEMMA EntriesAfter ==
  ASSUME DocOK, NEW g \in Gateways, NEW ws \in Seq(AllWrites), NEW j \in DOMAIN ws
  PROVE  LET old == doc[g][ws[j].key]
             new == EntryAfter(g, ws, j)
         IN /\ ws[j].key \in Keys /\ IsEntry(new, ws[j].key) /\ new.val = ws[j].val
            /\ Includes(new, old)
            /\ \A i \in DOMAIN ws : ws[i].key = ws[j].key /\ i <= j =>
                 /\ Includes(new, EntryAfter(g, ws, i))
                 /\ ~ws[i].erase => ~Includes(old, new)
            /\ Cardinality(Puts(ws, j)) = 0 => new.seen = old.seen /\ new.by = old.by
<1> DEFINE old == doc[g][ws[j].key]
           n(i) == Cardinality(Puts(ws, i))
           seen(i) == [old.seen EXCEPT ![g] = @ + n(i)]
<1>1. ws[j] \in AllWrites /\ ws[j].key \in Keys /\ ws[j].val \in ValueOf(ws[j].key)
  BY DEF AllWrites
<1>2. IsEntry(old, ws[j].key) /\ old.seen \in [Gateways -> Nat] /\ old.by \in Gateways
  BY <1>1 DEF DocOK, IsEntry
<1>3. ASSUME NEW i \in DOMAIN ws, ws[i].key = ws[j].key
      PROVE  /\ EntryAfter(g, ws, i) =
                  [val |-> ws[i].val, seen |-> seen(i), by |-> IF n(i) = 0 THEN old.by ELSE g]
  BY <1>3 DEF EntryAfter, Puts
<1>4. \A i \in DOMAIN ws : ws[i].key = ws[j].key /\ i <= j =>
        n(i) \in Nat /\ n(j) \in Nat /\ n(i) <= n(j) /\ (~ws[i].erase => n(j) # 0)
  BY PutsCounted
<1>5. n(j) \in Nat /\ j <= j
  BY <1>4
<1> HIDE DEF n
<1>6. \A i : n(i) \in Nat =>
        /\ seen(i) \in [Gateways -> Nat] /\ seen(i)[g] = old.seen[g] + n(i)
        /\ \A h \in Gateways \ {g} : seen(i)[h] = old.seen[h]
        /\ n(i) = 0 => seen(i) = old.seen
  <2>1. ASSUME NEW f \in [Gateways -> Nat], NEW m \in Nat
        PROVE  LET new == [f EXCEPT ![g] = @ + m]
               IN /\ new \in [Gateways -> Nat] /\ new[g] = f[g] + m
                  /\ \A h \in Gateways \ {g} : new[h] = f[h]
                  /\ m = 0 => new = f
    OBVIOUS
  <2> QED BY <1>2, <2>1
<1> HIDE DEF seen
<1>7. EntryAfter(g, ws, j) =
        [val |-> ws[j].val, seen |-> seen(j), by |-> IF n(j) = 0 THEN old.by ELSE g]
  BY <1>3
<1>8. IsEntry(EntryAfter(g, ws, j), ws[j].key) /\ EntryAfter(g, ws, j).val = ws[j].val
  BY <1>1, <1>2, <1>5, <1>6, <1>7 DEF IsEntry
<1>9. Includes(EntryAfter(g, ws, j), old)
  BY <1>2, <1>5, <1>6, <1>7 DEF Includes
<1>10. ASSUME NEW i \in DOMAIN ws, ws[i].key = ws[j].key, i <= j
       PROVE  /\ Includes(EntryAfter(g, ws, j), EntryAfter(g, ws, i))
              /\ ~ws[i].erase => ~Includes(old, EntryAfter(g, ws, j))
  <2>1. EntryAfter(g, ws, i).seen = seen(i) /\ EntryAfter(g, ws, j).seen = seen(j)
    BY <1>3, <1>7, <1>10
  <2>2. n(i) \in Nat /\ n(j) \in Nat /\ n(i) <= n(j) /\ (~ws[i].erase => n(j) # 0)
    BY <1>4, <1>10
  <2>3. /\ seen(i)[g] = old.seen[g] + n(i) /\ seen(j)[g] = old.seen[g] + n(j)
        /\ \A h \in Gateways \ {g} : seen(i)[h] = old.seen[h] /\ seen(j)[h] = old.seen[h]
        /\ \A h \in Gateways : old.seen[h] \in Nat
    BY <1>2, <1>6, <2>2
  <2>4. \A h \in Gateways : seen(i)[h] <= seen(j)[h]
    BY <2>2, <2>3
  <2>5. ~ws[i].erase => seen(j)[g] > old.seen[g]
    BY <2>2, <2>3
  <2> QED BY <1>2, <1>5, <1>6, <2>1, <2>4, <2>5 DEF Includes
<1>11. n(j) = 0 => EntryAfter(g, ws, j).seen = old.seen /\ EntryAfter(g, ws, j).by = old.by
  BY <1>5, <1>6, <1>7
<1> QED BY <1>1, <1>8, <1>9, <1>10, <1>11 DEF n

Message(g, ws, j) ==
  [key |-> ws[j].key, entry |-> EntryAfter(g, ws, j), erase |-> ws[j].erase]

\* What a pipeline has done to the replicas, and to the channels.
WroteDoc(g, ws) ==
  /\ \A h \in Gateways \ {g} : doc'[h] = doc[h]
  /\ \A k \in Keys :
       /\ Skips(ws, k) => doc'[g][k] = doc[g][k]
       /\ \A j : IsLast(ws, k, j) => doc'[g][k] = EntryAfter(g, ws, j)
       /\ Skips(ws, k) \/ \E j : IsLast(ws, k, j)

WroteChan(g, ws) ==
  /\ \A x \in Gateways \ {g} : chan'[x] = chan[x]
  /\ chan'[g][g] = <<>>
  /\ \A h \in Gateways \ {g} :
       /\ Len(chan'[g][h]) = Len(chan[g][h]) + Len(ws)
       /\ \A i \in 1..Len(chan[g][h]) : chan'[g][h][i] = chan[g][h][i]
       /\ \A j \in 1..Len(ws) : chan'[g][h][Len(chan[g][h]) + j] = Message(g, ws, j)

WritesTo(ws, k) == {j \in DOMAIN ws : ws[j].key = k}

\* There is a last write to each key that is written.
LEMMA LastWrites ==
  ASSUME NEW ws \in Seq(AllWrites), NEW k
  PROVE  /\ Skips(ws, k) <=> WritesTo(ws, k) = {}
         /\ Skips(ws, k) \/ \E j : IsLast(ws, k, j)
         /\ \A j : IsLast(ws, k, j) => ~Skips(ws, k) /\ j = Max(WritesTo(ws, k))
<1> DEFINE js == WritesTo(ws, k)
<1>1. js \in SUBSET Nat /\ IsFiniteSet(js)
  <2>1. js \subseteq 1..Len(ws) /\ Len(ws) \in Nat /\ js \in SUBSET Nat
    BY DEF WritesTo
  <2> HIDE DEF js
  <2>2. IsFiniteSet(1..Len(ws))
    BY <2>1, FS_Interval
  <2> QED BY <2>1, <2>2, FS_Subset
<1>2. Skips(ws, k) <=> js = {}
  BY DEF Skips, WritesTo
<1>3. js # {} => Max(js) \in js /\ \A x \in js : Max(js) >= x
  <2> HIDE DEF js
  <2> QED BY <1>1, MaxOfMany
<1>4. js # {} => IsLast(ws, k, Max(js))
  BY <1>1, <1>3 DEF IsLast, WritesTo
<1>5. ASSUME NEW j, IsLast(ws, k, j)
      PROVE  ~Skips(ws, k) /\ j = Max(js)
  <2>1. j \in js /\ \A i \in js : i <= j
    BY <1>5 DEF IsLast, WritesTo
  <2>2. Max(js) <= j /\ j <= Max(js) /\ Max(js) \in Nat /\ j \in Nat
    BY <1>1, <1>3, <2>1
  <2> QED BY <1>2, <2>1, <2>2
<1> QED BY <1>2, <1>4, <1>5

LEMMA WritesAre ==
  ASSUME DocOK, ChanOK, NEW g \in Gateways, NEW ws \in Seq(AllWrites), Writes(g, ws)
  PROVE  DocOK' /\ ChanOK' /\ WroteDoc(g, ws) /\ WroteChan(g, ws)
<1> DEFINE js(k) == WritesTo(ws, k)
           row == [k \in Keys |-> IF js(k) = {} THEN doc[g][k] ELSE EntryAfter(g, ws, Max(js(k)))]
           sent == [j \in DOMAIN ws |-> Message(g, ws, j)]
           rest == [h \in Gateways |-> IF h = g THEN <<>> ELSE chan[g][h] \o sent]
<1>1. doc' = [doc EXCEPT ![g] = row] /\ chan' = [chan EXCEPT ![g] = rest]
  BY DEF Writes, Message, WritesTo
<1>2. \A k \in Keys : row[k] = IF js(k) = {} THEN doc[g][k] ELSE EntryAfter(g, ws, Max(js(k)))
  OBVIOUS
<1>3. row = [k \in Keys |-> row[k]]
  OBVIOUS
<1> HIDE DEF row
<1>4. ASSUME NEW k \in Keys
      PROVE  /\ Skips(ws, k) => row[k] = doc[g][k]
             /\ \A j : IsLast(ws, k, j) => row[k] = EntryAfter(g, ws, j)
             /\ Skips(ws, k) \/ \E j : IsLast(ws, k, j)
  BY <1>2, LastWrites
<1> HIDE DEF js
<1>5. /\ doc'[g] = row
      /\ \A h \in Gateways \ {g} : doc'[h] = doc[h]
      /\ doc' = [h \in Gateways |-> [k \in Keys |-> doc'[h][k]]]
  BY <1>1, <1>3 DEF DocOK
<1>6. WroteDoc(g, ws)
  BY <1>4, <1>5 DEF WroteDoc
<1>7. ASSUME NEW k \in Keys
      PROVE  IsEntry(row[k], k)
  <2>1. CASE Skips(ws, k)
    BY <1>4, <2>1 DEF DocOK
  <2>2. CASE ~Skips(ws, k)
    <3>1. PICK j : IsLast(ws, k, j)
      BY <1>4, <2>2
    <3>2. j \in DOMAIN ws /\ ws[j].key = k /\ row[k] = EntryAfter(g, ws, j)
      BY <1>4, <3>1 DEF IsLast
    <3> QED BY <3>2, EntriesAfter
  <2> QED BY <2>1, <2>2
<1>8. DocOK'
  <2>1. ASSUME NEW h \in Gateways, NEW k \in Keys
        PROVE  IsEntry(doc'[h][k], k)
    BY <1>5, <1>7 DEF DocOK
  <2> QED BY <1>5, <2>1 DEF DocOK
<1>9. ASSUME NEW j \in DOMAIN ws
      PROVE  Message(g, ws, j) \in AllMessages
  <2>1. ws[j].key \in Keys /\ ws[j].erase \in BOOLEAN
    BY DEF AllWrites
  <2>2. IsEntry(EntryAfter(g, ws, j), ws[j].key)
    BY EntriesAfter
  <2>3. EntryAfter(g, ws, j) \in Entries
    BY <2>1, <2>2 DEF IsEntry, Entries, Values
  <2> QED BY <2>1, <2>2, <2>3 DEF Message, AllMessages
<1>10. /\ sent \in Seq(AllMessages) /\ Len(sent) = Len(ws)
       /\ \A j \in 1..Len(ws) : sent[j] = Message(g, ws, j)
  <2>1. DOMAIN ws = 1..Len(ws) /\ Len(ws) \in Nat
    OBVIOUS
  <2> QED BY <1>9, <2>1
<1> HIDE DEF sent
<1>11. ASSUME NEW h \in Gateways \ {g}
       PROVE  /\ rest[h] \in Seq(AllMessages)
              /\ Len(rest[h]) = Len(chan[g][h]) + Len(ws)
              /\ \A i \in 1..Len(chan[g][h]) : rest[h][i] = chan[g][h][i]
              /\ \A j \in 1..Len(ws) : rest[h][Len(chan[g][h]) + j] = Message(g, ws, j)
  <2>1. chan[g][h] \in Seq(AllMessages) /\ rest[h] = chan[g][h] \o sent
    BY DEF ChanOK
  <2>2. ASSUME NEW c \in Seq(AllMessages)
        PROVE  /\ c \o sent \in Seq(AllMessages)
               /\ Len(c \o sent) = Len(c) + Len(ws)
               /\ \A i \in 1..Len(c) : (c \o sent)[i] = c[i]
               /\ \A j \in 1..Len(ws) : (c \o sent)[Len(c) + j] = Message(g, ws, j)
    BY <1>10
  <2> QED BY <2>1, <2>2
<1>12. rest[g] = <<>> /\ rest \in [Gateways -> Seq(AllMessages)]
  BY <1>11
<1> HIDE DEF rest
<1>13. chan'[g] = rest /\ \A x \in Gateways \ {g} : chan'[x] = chan[x]
  BY <1>1 DEF ChanOK
<1>14. WroteChan(g, ws)
  BY <1>11, <1>12, <1>13 DEF WroteChan
<1>15. ChanOK'
  BY <1>1, <1>12 DEF ChanOK
<1> QED BY <1>6, <1>8, <1>14, <1>15

-----------------------------------------------------------------------------
(***************************************************************************)
(* Receiving.                                                              *)
(***************************************************************************)

\* What is left of an entry when another one is received.
LEMMA MergeIs ==
  ASSUME NEW k \in Keys, NEW e, NEW f, IsEntry(e, k), IsEntry(f, k), NEW erase
  PROVE  /\ IsEntry(Merge(k, e, f, erase), k)
         /\ Merge(k, e, f, erase).val \in {e.val, f.val}
         /\ Includes(f, e) => Merge(k, e, f, erase) = f
         /\ Includes(e, f) /\ ~Includes(f, e) => Merge(k, e, f, erase) = e
         /\ \A top : IsEntry(top, k) /\ Includes(top, e) /\ Includes(top, f) =>
              Includes(top, Merge(k, e, f, erase))
<1> DEFINE fWins == ~erase /\ (e.val = Blank(k) \/ GatewayRank[f.by] > GatewayRank[e.by])
           both == [val |-> IF fWins THEN f.val ELSE e.val,
                    seen |-> [g \in Gateways |-> Max({e.seen[g], f.seen[g]})],
                    by |-> IF fWins THEN f.by ELSE e.by]
<1>1. /\ e.seen \in [Gateways -> Nat] /\ f.seen \in [Gateways -> Nat]
      /\ e.by \in Gateways /\ f.by \in Gateways
      /\ e.val \in ValueOf(k) /\ f.val \in ValueOf(k)
  BY DEF IsEntry
<1>2. \A g \in Gateways : Max({e.seen[g], f.seen[g]}) \in {e.seen[g], f.seen[g]}
  BY <1>1, MaxOfTwo
<1>3. /\ both.seen \in [Gateways -> Nat]
      /\ \A g \in Gateways : both.seen[g] \in {e.seen[g], f.seen[g]}
  <2>1. \A g \in Gateways : Max({e.seen[g], f.seen[g]}) \in Nat
    BY <1>1, <1>2
  <2> QED BY <1>2, <2>1
<1>4. both.val \in {e.val, f.val} /\ both.by \in Gateways
  BY <1>1
<1>5. both = [val |-> both.val, seen |-> both.seen, by |-> both.by]
  OBVIOUS
<1>6. Merge(k, e, f, erase) = IF Includes(f, e) THEN f ELSE IF Includes(e, f) THEN e ELSE both
  BY DEF Merge
<1> HIDE DEF both
<1>7. IsEntry(both, k)
  BY <1>1, <1>3, <1>4, <1>5 DEF IsEntry
<1>8. \A top : Includes(top, e) /\ Includes(top, f) => Includes(top, both)
  BY <1>3 DEF Includes
<1> QED BY <1>4, <1>6, <1>7, <1>8

\* Message i on the way from x to h is of key k.
Pending(x, h, i, k) == i \in 1..Len(chan[x][h]) /\ chan[x][h][i].key = k

\* Gateway h has received the first message of g.
Received(g, h) ==
  /\ \A x \in Gateways \ {h} : doc'[x] = doc[x]
  /\ chan[g][h][1] \in AllMessages
  /\ \A k \in Keys : doc'[h][k] =
       IF k = chan[g][h][1].key
       THEN Merge(k, doc[h][k], chan[g][h][1].entry, chan[g][h][1].erase) ELSE doc[h][k]
  /\ Len(chan[g][h]) \in Nat /\ Len(chan[g][h]) >= 1
  /\ Len(chan'[g][h]) = Len(chan[g][h]) - 1
  /\ \A i \in 1..Len(chan'[g][h]) : chan'[g][h][i] = chan[g][h][i + 1]
  /\ \A x, y \in Gateways : x # g \/ y # h => chan'[x][y] = chan[x][y]

LEMMA ReceiveIs ==
  ASSUME DocOK, ChanOK, NEW g \in Gateways, NEW h \in Gateways, Receive(g, h)
  PROVE  DocOK' /\ ChanOK' /\ Received(g, h)
<1> DEFINE c == chan[g][h]
           m == Head(c)
           new == Merge(m.key, doc[h][m.key], m.entry, m.erase)
<1>1. c \in Seq(AllMessages) /\ c # <<>>
  BY DEF Receive, ChanOK
<1>2. /\ m = c[1] /\ m \in AllMessages /\ Len(c) \in Nat /\ Len(c) >= 1
      /\ Tail(c) \in Seq(AllMessages) /\ Len(Tail(c)) = Len(c) - 1
      /\ \A i \in 1..Len(Tail(c)) : Tail(c)[i] = c[i + 1]
  BY <1>1
<1>3. m.key \in Keys /\ IsEntry(m.entry, m.key)
  BY <1>2 DEF AllMessages
<1>4. doc' = [doc EXCEPT ![h][m.key] = new] /\ chan' = [chan EXCEPT ![g][h] = Tail(c)]
  BY DEF Receive
<1>5. IsEntry(new, m.key)
  <2>1. IsEntry(doc[h][m.key], m.key)
    BY <1>3 DEF DocOK
  <2> HIDE DEF m
  <2> QED BY <1>3, <2>1, MergeIs
<1> HIDE DEF new, m, c
<1>6. /\ chan' \in [Gateways -> [Gateways -> Seq(AllMessages)]]
      /\ chan'[g][h] = Tail(c)
      /\ \A x, y \in Gateways : x # g \/ y # h => chan'[x][y] = chan[x][y]
  BY <1>2, <1>4 DEF ChanOK
<1>7. /\ doc' = [x \in Gateways |-> [k \in Keys |-> doc'[x][k]]]
      /\ \A x \in Gateways \ {h} : doc'[x] = doc[x]
      /\ \A k \in Keys : doc'[h][k] = IF k = m.key THEN new ELSE doc[h][k]
  BY <1>3, <1>4 DEF DocOK
<1>8. DocOK'
  <2>1. ASSUME NEW x \in Gateways, NEW k \in Keys
        PROVE  IsEntry(doc'[x][k], k)
    BY <1>5, <1>7 DEF DocOK
  <2> QED BY <1>7, <2>1 DEF DocOK
<1>9. Received(g, h)
  <2>1. \A k \in Keys : doc'[h][k] =
          IF k = c[1].key THEN Merge(k, doc[h][k], c[1].entry, c[1].erase) ELSE doc[h][k]
    BY <1>2, <1>7 DEF new
  <2> QED BY <1>2, <1>6, <1>7, <2>1 DEF Received, c
<1> QED BY <1>6, <1>8, <1>9 DEF ChanOK

-----------------------------------------------------------------------------
(***************************************************************************)
(* The latest state.  Entry e of key k is the latest when every replica    *)
(* and every message is behind it, and every gateway has it or is about to *)
(* receive it.                                                             *)
(***************************************************************************)

Upper(e, k) ==
  /\ \A h \in Gateways : Includes(e, doc[h][k])
  /\ \A x, h \in Gateways, i \in Nat : Pending(x, h, i, k) => Includes(e, chan[x][h][i].entry)

\* No message that gateway h has yet to receive replaces e.
Stays(e, h, k) ==
  \A x \in Gateways, i \in Nat :
    Pending(x, h, i, k) /\ Includes(chan[x][h][i].entry, e) => chan[x][h][i].entry = e

\* Message i from x to h brings e, and no later one replaces it.
Arrives(e, h, k, x, i) ==
  /\ Pending(x, h, i, k) /\ chan[x][h][i].entry = e
  /\ \A z \in Gateways, j \in Nat :
       (z # x \/ j > i) /\ Pending(z, h, j, k) /\ Includes(chan[z][h][j].entry, e) =>
         chan[z][h][j].entry = e

Gets(e, h, k) ==
  \/ doc[h][k] = e /\ Stays(e, h, k)
  \/ \E x \in Gateways, i \in Nat : Arrives(e, h, k, x, i)

\* Receiving keeps the latest entry.
LEMMA ReceiveKeepsLatest ==
  ASSUME DocOK, ChanOK, NEW g \in Gateways, NEW h \in Gateways, Receive(g, h),
         NEW k \in Keys, NEW e, IsEntry(e, k), Upper(e, k)
  PROVE  /\ Upper(e, k)'
         /\ \A y \in Gateways : Gets(e, y, k) => Gets(e, y, k)'
         /\ \A y \in Gateways : doc[y][k] = e /\ Stays(e, y, k) => doc'[y][k] = e /\ Stays(e, y, k)'
<1> DEFINE m == chan[g][h][1]
<1>1. Received(g, h) /\ m \in AllMessages
  BY ReceiveIs DEF Received
<1>2. m.key \in Keys /\ IsEntry(m.entry, m.key) /\ Pending(g, h, 1, m.key)
  BY <1>1 DEF AllMessages, Received, Pending
<1>3. /\ \A y \in Gateways \ {h} : doc'[y] = doc[y]
      /\ k # m.key => doc'[h][k] = doc[h][k]
      /\ k = m.key => doc'[h][k] = Merge(k, doc[h][k], m.entry, m.erase)
  BY <1>1 DEF Received
<1>4. ASSUME NEW x \in Gateways, NEW y \in Gateways, NEW i \in Nat, Pending(x, y, i, k)'
      PROVE  \/ /\ x = g /\ y = h /\ Pending(x, y, i + 1, k)
                /\ chan'[x][y][i].entry = chan[x][y][i + 1].entry
             \/ /\ x # g \/ y # h
                /\ Pending(x, y, i, k) /\ chan'[x][y][i].entry = chan[x][y][i].entry
  <2>1. CASE x = g /\ y = h
    BY <1>1, <1>4, <2>1 DEF Received, Pending
  <2>2. CASE x # g \/ y # h
    BY <1>1, <1>4, <2>2 DEF Received, Pending
  <2> QED BY <2>1, <2>2
<1>5. IsEntry(doc[h][k], k) /\ Includes(e, doc[h][k])
  BY DEF DocOK, Upper
<1>6. /\ Includes(e, doc'[h][k])
      /\ k = m.key =>
           /\ Includes(e, m.entry)
           /\ Includes(m.entry, doc[h][k]) => doc'[h][k] = m.entry
           /\ Includes(doc[h][k], m.entry) /\ ~Includes(m.entry, doc[h][k]) => doc'[h][k] = doc[h][k]
  <2>1. CASE k = m.key
    <3>1. IsEntry(m.entry, k) /\ Includes(e, m.entry)
      BY <1>2, <2>1 DEF Upper
    <3>2. doc'[h][k] = Merge(k, doc[h][k], m.entry, m.erase)
      BY <1>3, <2>1
    <3> HIDE DEF m
    <3> QED BY <1>5, <3>1, <3>2, MergeIs
  <2> QED BY <1>3, <1>5, <2>1
<1>7. Upper(e, k)'
  <2>1. \A y \in Gateways : Includes(e, doc'[y][k])
    BY <1>3, <1>6 DEF Upper
  <2>2. ASSUME NEW x \in Gateways, NEW y \in Gateways, NEW i \in Nat, Pending(x, y, i, k)'
        PROVE  Includes(e, chan'[x][y][i].entry)
    BY <1>4, <2>2 DEF Upper
  <2>3. \A y \in Gateways : Includes(e, doc[y][k])'
    BY <2>1 DEF Includes
  <2>4. \A x, y \in Gateways, i \in Nat : Pending(x, y, i, k)' => Includes(e, chan[x][y][i].entry)'
    BY <2>2 DEF Includes
  <2> QED BY <2>3, <2>4 DEF Upper
<1>8. ASSUME NEW y \in Gateways, doc[y][k] = e, Stays(e, y, k)
      PROVE  doc'[y][k] = e /\ Stays(e, y, k)'
  <2>1. ASSUME NEW x \in Gateways, NEW i \in Nat, Pending(x, y, i, k)',
               Includes(chan'[x][y][i].entry, e)
        PROVE  chan'[x][y][i].entry = e
    BY <1>4, <1>8, <2>1 DEF Stays
  <2>2. Stays(e, y, k)'
    BY <2>1 DEF Stays, Includes
  <2>3. CASE y = h /\ k = m.key
    <3>1. Includes(m.entry, e) => m.entry = e
      BY <1>2, <1>8, <2>3 DEF Stays
    <3> QED BY <1>6, <1>8, <2>2, <2>3, <3>1
  <2> QED BY <1>3, <1>8, <2>2, <2>3
<1>9. ASSUME NEW y \in Gateways, NEW x \in Gateways, NEW i \in Nat, Arrives(e, y, k, x, i)
      PROVE  Gets(e, y, k)'
  <2>1. /\ Pending(x, y, i, k) /\ chan[x][y][i].entry = e
        /\ \A z \in Gateways, j \in Nat :
             (z # x \/ j > i) /\ Pending(z, y, j, k) /\ Includes(chan[z][y][j].entry, e) =>
               chan[z][y][j].entry = e
    BY <1>9 DEF Arrives
  <2>2. CASE y = h /\ x = g /\ i = 1
    <3>1. k = m.key /\ m.entry = e
      BY <2>1, <2>2 DEF Pending
    <3>2. doc'[y][k] = e
      BY <1>5, <1>6, <2>2, <3>1
    <3>3. ASSUME NEW z \in Gateways, NEW j \in Nat, Pending(z, y, j, k)',
                 Includes(chan'[z][y][j].entry, e)
          PROVE  chan'[z][y][j].entry = e
      <4>1. j >= 1
        BY <3>3 DEF Pending
      <4> QED BY <1>4, <2>1, <2>2, <3>3, <4>1
    <3>4. Stays(e, y, k)'
      BY <3>3 DEF Stays, Includes
    <3> QED BY <3>2, <3>4 DEF Gets
  <2>3. CASE y = h /\ x = g /\ i # 1
    <3>1. i - 1 \in Nat /\ Pending(x, y, i - 1, k)' /\ chan'[x][y][i - 1].entry = e
      <4>1. i \in 1..Len(chan[g][h]) /\ chan[g][h][i].key = k /\ chan[g][h][i].entry = e
        BY <2>1, <2>3 DEF Pending
      <4>2. i - 1 \in 1..Len(chan'[g][h]) /\ (i - 1) + 1 = i
        BY <1>1, <2>3, <4>1 DEF Received
      <4>3. chan'[g][h][i - 1] = chan[g][h][i]
        BY <1>1, <4>2 DEF Received
      <4> QED BY <2>3, <4>1, <4>2, <4>3 DEF Pending
    <3>2. ASSUME NEW z \in Gateways, NEW j \in Nat, z # x \/ j > i - 1, Pending(z, y, j, k)',
                 Includes(chan'[z][y][j].entry, e)
          PROVE  chan'[z][y][j].entry = e
      BY <1>4, <2>1, <2>3, <3>2
    <3>3. Arrives(e, y, k, x, i - 1)'
      BY <3>1, <3>2 DEF Arrives, Includes
    <3> QED BY <3>1, <3>3 DEF Gets
  <2>4. CASE ~(y = h /\ x = g)
    <3>1. Pending(x, y, i, k)' /\ chan'[x][y][i].entry = e
      BY <1>1, <2>1, <2>4 DEF Received, Pending
    <3>2. ASSUME NEW z \in Gateways, NEW j \in Nat, z # x \/ j > i, Pending(z, y, j, k)',
                 Includes(chan'[z][y][j].entry, e)
          PROVE  chan'[z][y][j].entry = e
      BY <1>4, <2>1, <2>4, <3>2
    <3>3. Arrives(e, y, k, x, i)'
      BY <3>1, <3>2 DEF Arrives, Includes
    <3> QED BY <3>3 DEF Gets
  <2> QED BY <2>2, <2>3, <2>4
<1>10. \A y \in Gateways : Gets(e, y, k) => Gets(e, y, k)'
  <2>1. ASSUME NEW y \in Gateways, doc[y][k] = e, Stays(e, y, k)
        PROVE  Gets(e, y, k)'
    BY <1>8, <2>1 DEF Gets
  <2> QED BY <1>9, <2>1 DEF Gets
<1> QED BY <1>7, <1>8, <1>10

\* What a pipeline erases was blank before it.
ErasesBlank(g, ws) ==
  \A j \in DOMAIN ws : ws[j].erase =>
    ws[j].val = Blank(ws[j].key) /\ doc[g][ws[j].key].val = Blank(ws[j].key)

\* Where everything has been received, a pipeline makes the next latest entry.
LEMMA WriteMakesLatest ==
  ASSUME DocOK, ChanOK, NEW g \in Gateways, NEW ws \in Seq(AllWrites), Writes(g, ws),
         ErasesBlank(g, ws), \A x \in Gateways : chan[x][g] = <<>>,
         NEW k \in Keys, Upper(doc[g][k], k), \A h \in Gateways : Gets(doc[g][k], h, k),
         NEW new, new = doc'[g][k]
  PROVE  /\ Upper(new, k)' /\ Stays(new, g, k)'
         /\ \A h \in Gateways : Gets(new, h, k)'
<1> DEFINE old == doc[g][k]
           n(h) == Len(chan[g][h])
<1>1. WroteDoc(g, ws) /\ WroteChan(g, ws) /\ DocOK' /\ Len(ws) \in Nat /\ DOMAIN ws = 1..Len(ws)
  BY WritesAre
<1>2. IsEntry(old, k) /\ IsEntry(new, k) /\ \A h \in Gateways : IsEntry(doc[h][k], k)
  BY <1>1 DEF DocOK
<1>3. \A x, h \in Gateways, i \in Nat : Pending(x, h, i, k) =>
        IsEntry(chan[x][h][i].entry, k) /\ Includes(old, chan[x][h][i].entry)
  <2>1. SUFFICES ASSUME NEW x \in Gateways, NEW h \in Gateways, NEW i \in Nat, Pending(x, h, i, k)
                 PROVE  IsEntry(chan[x][h][i].entry, k)
    BY DEF Upper
  <2>2. chan[x][h] \in Seq(AllMessages) /\ i \in 1..Len(chan[x][h]) /\ chan[x][h][i].key = k
    BY <2>1 DEF ChanOK, Pending
  <2>3. chan[x][h][i] \in AllMessages
    BY <2>2
  <2> QED BY <2>2, <2>3 DEF AllMessages
\* The messages on the way are those there were, and the new ones of g.
<1>4. /\ \A x \in Gateways, i \in Nat : ~Pending(x, g, i, k)'
      /\ \A h \in Gateways \ {g} : n(h) \in Nat
      /\ \A x, h \in Gateways, i \in Nat : h # g /\ Pending(x, h, i, k) =>
           Pending(x, h, i, k)' /\ chan'[x][h][i].entry = chan[x][h][i].entry
      /\ \A h \in Gateways \ {g}, j \in 1..Len(ws) : ws[j].key = k =>
           \E a \in Nat : /\ a = n(h) + j /\ Pending(g, h, a, k)'
                          /\ chan'[g][h][a].entry = EntryAfter(g, ws, j)
  <2>1. \A x \in Gateways : chan'[x][g] = <<>>
    BY <1>1 DEF WroteChan
  <2>2. \A h \in Gateways \ {g} : n(h) \in Nat /\ Len(chan'[g][h]) = n(h) + Len(ws)
    BY <1>1 DEF ChanOK, WroteChan
  <2>3. ASSUME NEW x \in Gateways, NEW h \in Gateways, NEW i \in Nat, h # g, Pending(x, h, i, k)
        PROVE  Pending(x, h, i, k)' /\ chan'[x][h][i].entry = chan[x][h][i].entry
    <3>1. CASE x = g
      <4>1. i \in 1..n(h) /\ chan[g][h][i].key = k
        BY <2>3, <3>1 DEF Pending
      <4>2. chan'[g][h][i] = chan[g][h][i] /\ i \in 1..Len(chan'[g][h])
        BY <1>1, <2>2, <2>3, <4>1 DEF WroteChan
      <4> QED BY <3>1, <4>1, <4>2 DEF Pending
    <3>2. CASE x # g
      BY <1>1, <2>3, <3>2 DEF Pending, WroteChan
    <3> QED BY <3>1, <3>2
  <2>4. ASSUME NEW h \in Gateways \ {g}, NEW j \in 1..Len(ws), ws[j].key = k
        PROVE  \E a \in Nat : /\ a = n(h) + j /\ Pending(g, h, a, k)'
                              /\ chan'[g][h][a].entry = EntryAfter(g, ws, j)
    <3>1. chan'[g][h][n(h) + j] = Message(g, ws, j)
      BY <1>1 DEF WroteChan
    <3>2. n(h) \in Nat /\ Len(chan'[g][h]) = n(h) + Len(ws) /\ j \in 1..Len(ws)
      BY <2>2
    <3>3. n(h) + j \in 1..Len(chan'[g][h])
      BY <1>1, <3>2
    <3>4. PICK a \in Nat : a = n(h) + j
      BY <3>2
    <3>5. Pending(g, h, a, k)' /\ chan'[g][h][a].entry = EntryAfter(g, ws, j)
      BY <2>4, <3>1, <3>3, <3>4 DEF Pending, Message
    <3> QED BY <3>4, <3>5
  <2> QED BY <2>1, <2>2, <2>3, <2>4 DEF Pending
<1>5. ASSUME NEW x \in Gateways, NEW h \in Gateways, NEW i \in Nat, Pending(x, h, i, k)'
      PROVE  /\ h # g
             /\ \/ Pending(x, h, i, k) /\ chan'[x][h][i].entry = chan[x][h][i].entry
                \/ /\ x = g /\ i > n(h)
                   /\ \E j \in 1..Len(ws) : /\ i = n(h) + j /\ ws[j].key = k
                                            /\ chan'[x][h][i].entry = EntryAfter(g, ws, j)
  <2>1. h # g
    BY <1>4, <1>5
  <2>2. CASE x # g
    BY <1>1, <1>5, <2>1, <2>2 DEF Pending, WroteChan
  <2>3. CASE x = g /\ i <= n(h)
    BY <1>1, <1>4, <1>5, <2>1, <2>3 DEF Pending, WroteChan
  <2>4. CASE x = g /\ i > n(h)
    <3>1. n(h) \in Nat /\ Len(chan'[g][h]) = n(h) + Len(ws)
      BY <1>1, <1>4, <2>1 DEF WroteChan
    <3>2. i \in Nat /\ i <= n(h) + Len(ws) /\ i > n(h)
      BY <1>5, <2>4, <3>1 DEF Pending
    <3>3. PICK j \in 1..Len(ws) : i = n(h) + j
      <4>1. ASSUME NEW a \in Nat, NEW b \in Nat, i <= a + b, i > a
            PROVE  \E j \in 1..b : i = a + j
        <5>1. i - a \in 1..b /\ i = a + (i - a)
          BY <3>2, <4>1
        <5> QED BY <5>1
      <4> QED BY <1>1, <3>1, <3>2, <4>1
    <3>4. chan'[x][h][i] = Message(g, ws, j)
      BY <1>1, <2>1, <2>4, <3>3 DEF WroteChan
    <3> QED BY <1>5, <2>1, <2>4, <3>3, <3>4 DEF Pending, Message
  <2>5. \A h_1 \in Gateways \ {g} : n(h_1) \in Nat
    BY <1>4
  <2> QED BY <2>1, <2>2, <2>3, <2>4, <2>5
<1>6. \A h \in Gateways \ {g} : doc'[h] = doc[h]
  BY <1>1 DEF WroteDoc
<1>7. Stays(new, g, k)' /\ Gets(new, g, k)'
  BY <1>4 DEF Stays, Gets
\* Where the entry does not change, nor do the new messages change it.
<1>8. CASE /\ new = old
           /\ \A j \in 1..Len(ws) : ws[j].key = k => EntryAfter(g, ws, j) = old
  <2>1. Includes(old, old)
    BY <1>2, IncludesOrder
  <2>2. Upper(new, k)'
    <3>1. \A h \in Gateways : Includes(new, doc'[h][k])
      BY <1>6, <1>8, <2>1 DEF Upper
    <3>2. ASSUME NEW x \in Gateways, NEW h \in Gateways, NEW i \in Nat, Pending(x, h, i, k)'
          PROVE  Includes(new, chan'[x][h][i].entry)
      BY <1>3, <1>5, <1>8, <2>1, <3>2
    <3> QED BY <3>1, <3>2 DEF Upper, Includes
  <2>3. ASSUME NEW h \in Gateways \ {g}
        PROVE  Gets(new, h, k)'
    <3>1. CASE doc[h][k] = old /\ Stays(old, h, k)
      <4>1. ASSUME NEW x \in Gateways, NEW i \in Nat, Pending(x, h, i, k)',
                   Includes(chan'[x][h][i].entry, new)
            PROVE  chan'[x][h][i].entry = new
        BY <1>5, <1>8, <3>1, <4>1 DEF Stays
      <4>2. Stays(new, h, k)'
        BY <4>1 DEF Stays, Includes
      <4> QED BY <1>6, <1>8, <3>1, <4>2 DEF Gets
    <3>2. CASE \E x \in Gateways, i \in Nat : Arrives(old, h, k, x, i)
      <4>1. PICK x \in Gateways, i \in Nat : Arrives(old, h, k, x, i)
        BY <3>2
      <4>2. Pending(x, h, i, k)' /\ chan'[x][h][i].entry = new
        BY <1>4, <1>8, <4>1 DEF Arrives
      <4>3. ASSUME NEW z \in Gateways, NEW j \in Nat, z # x \/ j > i, Pending(z, h, j, k)',
                   Includes(chan'[z][h][j].entry, new)
            PROVE  chan'[z][h][j].entry = new
        BY <1>5, <1>8, <4>1, <4>3 DEF Arrives
      <4>4. Arrives(new, h, k, x, i)'
        BY <4>2, <4>3 DEF Arrives, Includes
      <4> QED BY <4>4 DEF Gets
    <3> QED BY <3>1, <3>2 DEF Gets
  <2> QED BY <1>7, <2>2, <2>3
\* A key that something was put to: the last write is the latest entry.
<1>9. CASE \E j \in 1..Len(ws) :
             /\ IsLast(ws, k, j) /\ new = EntryAfter(g, ws, j)
             /\ Includes(new, old) /\ ~Includes(old, new)
             /\ \A i \in 1..j : ws[i].key = k => Includes(new, EntryAfter(g, ws, i))
  <2>1. PICK j \in 1..Len(ws) :
             /\ IsLast(ws, k, j) /\ new = EntryAfter(g, ws, j)
             /\ Includes(new, old) /\ ~Includes(old, new)
             /\ \A i \in 1..j : ws[i].key = k => Includes(new, EntryAfter(g, ws, i))
    BY <1>9
  <2>2. ws[j].key = k /\ \A i \in 1..Len(ws) : ws[i].key = k => i <= j
    BY <1>1, <2>1 DEF IsLast
  <2>3. \A f : IsEntry(f, k) /\ Includes(old, f) => Includes(new, f) /\ ~Includes(f, new)
    BY <1>2, <2>1, IncludesOrder
  <2>4. Includes(new, new)
    BY <1>2, IncludesOrder
  <2>5. Upper(new, k)'
    <3>1. ASSUME NEW h \in Gateways
          PROVE  Includes(new, doc'[h][k])
      <4>1. CASE h = g
        BY <2>4, <4>1
      <4>2. CASE h # g
        BY <1>2, <1>6, <2>3, <4>2 DEF Upper
      <4> QED BY <4>1, <4>2
    <3>2. ASSUME NEW x \in Gateways, NEW h \in Gateways, NEW i \in Nat, Pending(x, h, i, k)'
          PROVE  Includes(new, chan'[x][h][i].entry)
      BY <1>3, <1>5, <2>1, <2>2, <2>3, <3>2
    <3> QED BY <3>1, <3>2 DEF Upper, Includes
  <2>6. ASSUME NEW h \in Gateways \ {g}
        PROVE  Gets(new, h, k)'
    <3>1. PICK a \in Nat : a = n(h) + j /\ Pending(g, h, a, k)' /\ chan'[g][h][a].entry = new
      BY <1>4, <2>1, <2>2
    <3>2. n(h) \in Nat
      BY <1>4
    <3>3. ASSUME NEW z \in Gateways, NEW i \in Nat, z # g \/ i > a, Pending(z, h, i, k)',
                 Includes(chan'[z][h][i].entry, new)
          PROVE  chan'[z][h][i].entry = new
      <4>1. CASE Pending(z, h, i, k) /\ chan'[z][h][i].entry = chan[z][h][i].entry
        BY <1>3, <2>3, <3>3, <4>1
      <4>2. CASE ~(Pending(z, h, i, k) /\ chan'[z][h][i].entry = chan[z][h][i].entry)
        <5>1. PICK l \in 1..Len(ws) : z = g /\ i = n(h) + l /\ ws[l].key = k
          BY <1>5, <3>3, <4>2
        <5>2. l <= j /\ n(h) + l > n(h) + j
          BY <2>2, <3>1, <3>3, <5>1
        <5> QED BY <3>2, <5>2
      <4> QED BY <4>1, <4>2
    <3>4. Arrives(new, h, k, g, a)'
      BY <3>1, <3>3 DEF Arrives, Includes
    <3> QED BY <3>1, <3>4 DEF Gets
  <2> QED BY <1>7, <2>5, <2>6
<1>10. \/ /\ new = old
          /\ \A j \in 1..Len(ws) : ws[j].key = k => EntryAfter(g, ws, j) = old
       \/ \E j \in 1..Len(ws) :
             /\ IsLast(ws, k, j) /\ new = EntryAfter(g, ws, j)
             /\ Includes(new, old) /\ ~Includes(old, new)
             /\ \A i \in 1..j : ws[i].key = k => Includes(new, EntryAfter(g, ws, i))
  <2>1. CASE Skips(ws, k)
    BY <1>1, <2>1 DEF WroteDoc, Skips
  <2>2. CASE ~Skips(ws, k)
    <3>1. PICK j \in 1..Len(ws) : IsLast(ws, k, j)
      BY <1>1, <2>2 DEF WroteDoc, IsLast
    <3>2. /\ ws[j].key = k /\ new = EntryAfter(g, ws, j)
          /\ \A i \in 1..Len(ws) : ws[i].key = k => i <= j
      BY <1>1, <3>1 DEF WroteDoc, IsLast
    <3>3. /\ Includes(new, old)
          /\ \A i \in 1..Len(ws) : ws[i].key = k /\ i <= j =>
               Includes(new, EntryAfter(g, ws, i)) /\ (~ws[i].erase => ~Includes(old, new))
      BY <1>1, <3>2, EntriesAfter
    <3>4. CASE \E i \in 1..Len(ws) : ws[i].key = k /\ ~ws[i].erase
      BY <3>1, <3>2, <3>3, <3>4
    <3>5. CASE \A i \in 1..Len(ws) : ws[i].key = k => ws[i].erase
      <4>1. ASSUME NEW i \in 1..Len(ws), ws[i].key = k
            PROVE  EntryAfter(g, ws, i) = old
        <5>1. EntryAfter(g, ws, i).val = old.val
          BY <1>1, <3>5, <4>1, EntriesAfter DEF ErasesBlank
        <5>2. Puts(ws, i) = {}
          BY <1>1, <3>5, <4>1 DEF Puts
        <5>3. Cardinality(Puts(ws, i)) = 0
          BY <5>2, FS_EmptySet
        <5>4. EntryAfter(g, ws, i).seen = old.seen /\ EntryAfter(g, ws, i).by = old.by
          BY <1>1, <4>1, <5>3, EntriesAfter
        <5>5. IsEntry(EntryAfter(g, ws, i), k)
          BY <1>1, <4>1, EntriesAfter
        <5> QED BY <1>2, <5>1, <5>4, <5>5 DEF IsEntry
      <4> QED BY <3>2, <4>1
    <3> QED BY <3>4, <3>5
  <2> QED BY <2>1, <2>2
<1> QED BY <1>8, <1>9, <1>10

-----------------------------------------------------------------------------
(***************************************************************************)
(* The writes of a pipeline as a set.                                      *)
(***************************************************************************)

\* The elements of a sequence put together, cut short or listed.
LEMMA ElementsOf ==
  /\ ToSet(<<>>) = {}
  /\ \A a : ToSet(<<a>>) = {a}
  /\ \A a, b : ToSet(<<a, b>>) = {a, b}
  /\ \A a, b, c, d : ToSet(<<a, b, c, d>>) = {a, b, c, d}
  /\ \A S : \A ws, us \in Seq(S) :
       ws \o us \in Seq(S) /\ ToSet(ws \o us) = ToSet(ws) \union ToSet(us)
  /\ \A S : \A ws \in Seq(S) : \A n \in 0..Len(ws) :
       SubSeq(ws, 1, n) \in Seq(S) /\ ToSet(SubSeq(ws, 1, n)) \subseteq ToSet(ws)
<1>1. ASSUME NEW a
      PROVE  ToSet(<<a>>) = {a}
  BY DEF ToSet
<1>2. ASSUME NEW a, NEW b
      PROVE  ToSet(<<a, b>>) = {a, b}
  <2>1. DOMAIN <<a, b>> = {1, 2} /\ <<a, b>>[1] = a /\ <<a, b>>[2] = b
    OBVIOUS
  <2> QED BY <2>1, Zenon DEF ToSet
<1>3. ASSUME NEW a, NEW b, NEW c, NEW d
      PROVE  ToSet(<<a, b, c, d>>) = {a, b, c, d}
  <2> DEFINE t == <<a, b, c, d>>
  <2>1. DOMAIN t = {1, 2, 3, 4} /\ t[1] = a /\ t[2] = b /\ t[3] = c /\ t[4] = d
    OBVIOUS
  <2> HIDE DEF t
  <2>2. ToSet(t) = {a, b, c, d}
    BY <2>1, Zenon DEF ToSet
  <2> QED BY <2>2 DEF t
<1>4. ASSUME NEW S, NEW ws \in Seq(S), NEW us \in Seq(S)
      PROVE  ws \o us \in Seq(S) /\ ToSet(ws \o us) = ToSet(ws) \union ToSet(us)
  <2> DEFINE n == Len(ws)
             m == Len(us)
             both == ws \o us
  <2>1. /\ n \in Nat /\ m \in Nat /\ DOMAIN ws = 1..n /\ DOMAIN us = 1..m
        /\ both \in Seq(S) /\ DOMAIN both = 1..(n + m)
        /\ \A i \in 1..(n + m) : both[i] = IF i <= n THEN ws[i] ELSE us[i - n]
    OBVIOUS
  <2>2. ASSUME NEW i \in 1..n
        PROVE  i \in DOMAIN both /\ both[i] = ws[i]
    BY <2>1
  <2>3. ASSUME NEW i \in 1..m
        PROVE  n + i \in DOMAIN both /\ both[n + i] = us[i]
    BY <2>1
  <2>4. ASSUME NEW i \in DOMAIN both
        PROVE  both[i] \in ToSet(ws) \union ToSet(us)
    <3>1. CASE i <= n
      BY <2>1, <3>1 DEF ToSet
    <3>2. CASE i > n
      <4>1. i - n \in 1..m /\ both[i] = us[i - n]
        BY <2>1, <3>2
      <4> QED BY <2>1, <4>1 DEF ToSet
    <3> QED BY <2>1, <3>1, <3>2
  <2> HIDE DEF both, n, m
  <2>5. ToSet(both) \subseteq ToSet(ws) \union ToSet(us)
    BY <2>4 DEF ToSet
  <2>6. ToSet(ws) \subseteq ToSet(both)
    BY <2>1, <2>2 DEF ToSet
  <2>7. ToSet(us) \subseteq ToSet(both)
    BY <2>1, <2>3 DEF ToSet
  <2> QED BY <2>1, <2>5, <2>6, <2>7 DEF both
<1>5. ASSUME NEW S, NEW ws \in Seq(S), NEW n \in 0..Len(ws)
      PROVE  SubSeq(ws, 1, n) \in Seq(S) /\ ToSet(SubSeq(ws, 1, n)) \subseteq ToSet(ws)
  <2>1. /\ SubSeq(ws, 1, n) \in Seq(S) /\ DOMAIN SubSeq(ws, 1, n) = 1..n
        /\ \A i \in 1..n : SubSeq(ws, 1, n)[i] = ws[i] /\ i \in DOMAIN ws
    OBVIOUS
  <2> QED BY <2>1 DEF ToSet
<1>6. ToSet(<<>>) = {}
  BY DEF ToSet
<1> QED BY <1>1, <1>2, <1>3, <1>4, <1>5, <1>6

\* The elements of a sequence of sequences put together.
LEMMA ElementsOfFlat ==
  ASSUME NEW S, NEW n \in Nat, NEW seqs \in [1..n -> Seq(S)]
  PROVE  /\ FlattenSeq(seqs) \in Seq(S)
         /\ ToSet(FlattenSeq(seqs)) = UNION {ToSet(seqs[i]) : i \in 1..n}
<1> DEFINE step == [p \in Nat \X Seq(S) |-> IF p[1] \in 1..n THEN p[2] \o seqs[p[1]] ELSE p[2]]
           IsFlat(f) == f = [i \in 1..n |-> IF i = 1 THEN seqs[i] ELSE f[i - 1] \o seqs[i]]
<1>1. Len(seqs) = n
  OBVIOUS
<1>2. CASE n = 0
  <2>1. FlattenSeq(seqs) = <<>>
    BY <1>1, <1>2 DEF FlattenSeq
  <2> QED BY <1>2, <2>1, ElementsOf
<1>3. CASE n # 0
  <2>1. \E f : IsFlat(f)
    <3>1. <<>> \in Seq(S) /\ step \in [Nat \X Seq(S) -> Seq(S)]
      OBVIOUS
    <3>2. ASSUME NEW i \in 1..n, NEW s \in Seq(S)
          PROVE  step[<<i, s>>] = s \o seqs[i] /\ <<>> \o seqs[i] = seqs[i]
      <4>1. <<i, s>> \in Nat \X Seq(S) /\ <<i, s>>[1] = i /\ <<i, s>>[2] = s
        OBVIOUS
      <4>2. step[<<i, s>>] = s \o seqs[i]
        BY <4>1
      <4>3. <<>> \o seqs[i] = seqs[i]
        <5>1. \A u \in Seq(S) : <<>> \o u = u
          OBVIOUS
        <5> QED BY <5>1
      <4> QED BY <4>2, <4>3
    <3> HIDE DEF step
    <3>3. PICK f \in [0..n -> Seq(S)] : IsLoop(f, n, <<>>, step)
      BY <3>1, LoopExists
    <3>4. \A i \in 0..n : f[i] = IF i = 0 THEN <<>> ELSE step[<<i, f[i - 1]>>]
      BY <3>3 DEF IsLoop
    <3>5. ASSUME NEW i \in 1..n
          PROVE  f[i] = IF i = 1 THEN seqs[i] ELSE f[i - 1] \o seqs[i]
      <4>1. i - 1 \in 0..n /\ i \in 0..n /\ i # 0 /\ (i = 1 => i - 1 = 0) /\ 0 \in 0..n
        OBVIOUS
      <4>2. f[i - 1] \in Seq(S) /\ f[i] = step[<<i, f[i - 1]>>] /\ f[0] = <<>>
        BY <3>4, <4>1
      <4> QED BY <3>2, <4>1, <4>2
    <3> DEFINE h == [i \in 1..n |-> f[i]]
    <3>6. \A i \in 1..n : h[i] = IF i = 1 THEN seqs[i] ELSE h[i - 1] \o seqs[i]
      <4>1. ASSUME NEW i \in 1..n, i # 1
            PROVE  i - 1 \in 1..n /\ h[i - 1] = f[i - 1]
        BY <4>1
      <4>2. \A i \in 1..n : h[i] = f[i]
        OBVIOUS
      <4> HIDE DEF h
      <4> QED BY <3>5, <4>1, <4>2
    <3>7. h = [i \in 1..n |-> h[i]]
      OBVIOUS
    <3> HIDE DEF h
    <3>8. IsFlat(h)
      BY <3>6, <3>7
    <3> QED BY <3>8
  <2>2. PICK f : IsFlat(f) /\ FlattenSeq(seqs) = f[n]
    <3>1. IsFlat(CHOOSE f : IsFlat(f))
      BY <2>1
    <3>2. FlattenSeq(seqs) = (CHOOSE f : IsFlat(f))[n]
      BY <1>1, <1>3 DEF FlattenSeq
    <3> QED BY <3>1, <3>2
  <2>3. \A i \in 1..n : f[i] = IF i = 1 THEN seqs[i] ELSE f[i - 1] \o seqs[i]
    BY <2>2
  <2> DEFINE Flat(i) == f[i] \in Seq(S) /\ ToSet(f[i]) = UNION {ToSet(seqs[j]) : j \in 1..i}
             G == {i \in 0..n : i # 0 => Flat(i)}
  <2>4. ASSUME NEW i \in 1..n, i - 1 \in G
        PROVE  Flat(i)
    <3>1. seqs[i] \in Seq(S)
      OBVIOUS
    <3>2. CASE i = 1
      <4>1. f[i] = seqs[i] /\ 1..i = {i}
        BY <2>3, <3>2
      <4>2. UNION {ToSet(seqs[j]) : j \in 1..i} = ToSet(seqs[i])
        BY <4>1, Zenon
      <4> QED BY <3>1, <4>1, <4>2
    <3>3. CASE i # 1
      <4>1. f[i] = f[i - 1] \o seqs[i] /\ i - 1 # 0 /\ 1..i = (1..(i - 1)) \union {i}
        <5>1. f[i] = f[i - 1] \o seqs[i]
          BY <2>3, <3>3
        <5>2. i - 1 # 0 /\ 1..i = (1..(i - 1)) \union {i}
          BY <3>3
        <5> QED BY <5>1, <5>2
      <4>2. f[i - 1] \in Seq(S) /\ ToSet(f[i - 1]) = UNION {ToSet(seqs[j]) : j \in 1..(i - 1)}
        BY <2>4, <4>1
      <4>3. f[i] \in Seq(S) /\ ToSet(f[i]) = ToSet(f[i - 1]) \union ToSet(seqs[i])
        BY <3>1, <4>1, <4>2, ElementsOf
      <4>4. UNION {ToSet(seqs[j]) : j \in 1..i}
              = (UNION {ToSet(seqs[j]) : j \in 1..(i - 1)}) \union ToSet(seqs[i])
        BY <4>1, Zenon
      <4> QED BY <4>2, <4>3, <4>4
    <3> QED BY <3>2, <3>3
  <2>5. 0 \in G /\ \A i \in 1..n : i - 1 \in G => i \in G
    <3>1. 0 \in 0..n /\ \A i \in 1..n : i \in 0..n
      OBVIOUS
    <3> HIDE DEF Flat
    <3>2. 0 \in G
      BY <3>1
    <3> QED BY <2>4, <3>1, <3>2
  <2> HIDE DEF G
  <2>6. n \in G
    <3>1. 0..n \subseteq G
      BY <2>5, LoopInvariant
    <3> QED BY <3>1
  <2> QED BY <1>3, <2>2, <2>6 DEF G
<1> QED BY <1>2, <1>3

-----------------------------------------------------------------------------
(***************************************************************************)
(* The pipelines.                                                          *)
(***************************************************************************)

\* A sequence of writes that erases only what was blank before it.
IsPipeline(g, ws) ==
  /\ ws \in Seq(AllWrites)
  /\ \A w \in ToSet(ws) : w.erase => w.val = Blank(w.key) /\ doc[g][w.key].val = Blank(w.key)

\* Pipelines that follow each other are one.
LEMMA JoinPipelines ==
  ASSUME NEW g, NEW ws, NEW us, IsPipeline(g, ws), IsPipeline(g, us)
  PROVE  /\ IsPipeline(g, ws \o us) /\ ws \in Seq(AllWrites) /\ us \in Seq(AllWrites)
         /\ ToSet(ws \o us) = ToSet(ws) \union ToSet(us)
<1>1. ws \in Seq(AllWrites) /\ us \in Seq(AllWrites)
  BY DEF IsPipeline
<1>2. ws \o us \in Seq(AllWrites) /\ ToSet(ws \o us) = ToSet(ws) \union ToSet(us)
  BY <1>1, ElementsOf
<1> QED BY <1>1, <1>2 DEF IsPipeline

\* A pipeline skips a key that no write names, and leaves the value that all its writes
\* of the key have.
LEMMA PipelineLeaves ==
  ASSUME NEW ws \in Seq(AllWrites), NEW k
  PROVE  /\ (\A w \in ToSet(ws) : w.key # k) => Skips(ws, k)
         /\ \A v, w : w \in ToSet(ws) /\ w.key = k
                        /\ (\A u \in ToSet(ws) : u.key = k => u.val = v) => Leaves(ws, k, v)
<1>1. \A j \in DOMAIN ws : ws[j] \in ToSet(ws)
  BY DEF ToSet
<1>2. ASSUME NEW v, NEW w \in ToSet(ws), w.key = k, \A u \in ToSet(ws) : u.key = k => u.val = v
      PROVE  Leaves(ws, k, v)
  <2>1. PICK i \in DOMAIN ws : ws[i] = w
    BY DEF ToSet
  <2>2. PICK j : IsLast(ws, k, j)
    BY <1>2, <2>1, LastWrites DEF Skips
  <2>3. j \in DOMAIN ws /\ ws[j].key = k
    BY <2>2 DEF IsLast
  <2> QED BY <1>1, <1>2, <2>2, <2>3 DEF Leaves
<1> QED BY <1>1, <1>2 DEF Skips

\* What a pipeline leaves is what its gateway holds then.
LEMMA PipelineRuns ==
  ASSUME DocOK, ChanOK, NEW g \in Gateways, NEW ws \in Seq(AllWrites), Writes(g, ws), NEW k \in Keys
  PROVE  /\ Skips(ws, k) => doc'[g][k] = doc[g][k]
         /\ \A v : Leaves(ws, k, v) => doc'[g][k].val = v
<1>1. WroteDoc(g, ws)
  BY WritesAre
<1>2. ASSUME NEW v, Leaves(ws, k, v)
      PROVE  doc'[g][k].val = v
  <2>1. PICK j \in DOMAIN ws : IsLast(ws, k, j) /\ ws[j].val = v
    BY <1>2 DEF Leaves
  <2>2. doc'[g][k] = EntryAfter(g, ws, j)
    BY <1>1, <2>1 DEF WroteDoc
  <2> QED BY <2>1, <2>2, EntriesAfter
<1> QED BY <1>1, <1>2 DEF WroteDoc

\* What is offered.
LEMMA Offered ==
  ASSUME DocOK, NEW g \in Gateways, NEW q \in Offers
  PROVE  /\ q.version \in Versions /\ q.owner \in Agents /\ q.owner # NoAgent
         /\ q.status \in {"active", "disabled"} /\ q.publisher \in Agents
         /\ q.approver \in Agents \union {NoAgent}
         /\ CatalogOf(q) \in CatalogRecord /\ ManifestOf(q) \in ManifestRecord
         /\ RevisionWith(g, q) \in RevisionRecord
<1>1. q \in Offer /\ NoAgent \notin Agents
  BY SetsAssumption
<1>2. /\ q.version \in Versions /\ q.owner \in Agents /\ q.standbys \in SUBSET Agents
      /\ q.risk \in {"low", "high"} /\ q.status \in {"active", "disabled"}
      /\ q.publisher \in Agents /\ q.approver \in Agents \union {NoAgent}
  BY <1>1 DEF Offer
<1>3. CatalogOf(q) \in CatalogRecord /\ ManifestOf(q) \in ManifestRecord
  BY <1>2 DEF CatalogOf, CatalogRecord, ManifestOf, ManifestRecord, SomeVersion, SomeAgent
<1>4. RevisionWith(g, q) \in RevisionRecord
  <2>1. Revision(g) \in RevisionRecord /\ Catalog(g) \in CatalogRecord
    BY HeldValues
  <2>2. /\ Revision(g).versions \in SUBSET Versions /\ Revision(g).archived \in SUBSET Versions
        /\ Revision(g).active \in SomeVersion /\ Catalog(g).version \in SomeVersion
    BY <2>1 DEF RevisionRecord, CatalogRecord
  <2> QED BY <1>2, <2>2 DEF RevisionWith, RevisionRecord, SomeVersion, SomeAgent
<1> QED BY <1>1, <1>2, <1>3, <1>4

\* Staging and wiring writes the stage and the wiring of the version.
LEMMA Staging ==
  ASSUME DocOK, NEW g \in Gateways, NEW q \in Offers, NEW T \in SUBSET Agents
  PROVE  /\ IsPipeline(g, StageWrites(g, q, T))
         /\ \A w \in ToSet(StageWrites(g, q, T)) :
              \/ w.key = StageKey(q.version)
              \/ w.key = WiringKey(q.version) /\ w.val.targets = T /\ w.val.state = "wired"
         /\ \/ Wiring(g, q.version).state = "wired"
            \/ \E w \in ToSet(StageWrites(g, q, T)) : w.key = WiringKey(q.version)
<1> DEFINE v == q.version
           prior == Stage(g, v)
           keep == prior.status # "none" /\ prior.owner = q.owner /\ prior.targets = T
           wiring == [state |-> "wired", owner |-> q.owner, targets |-> T]
<1>1. v \in Versions /\ q.owner \in Agents
  BY Offered
<1>2. prior \in StageRecord
  BY <1>1, HeldValues
<1>3. wiring \in WiringRecord /\ wiring.targets = T /\ wiring.state = "wired"
  BY <1>1 DEF WiringRecord, SomeAgent
<1>4. PICK stage : stage = IF keep THEN prior ELSE [status |-> "staged", owner |-> q.owner, targets |-> T]
  OBVIOUS
<1>5. stage \in StageRecord
  BY <1>1, <1>2, <1>4 DEF StageRecord, SomeAgent
<1>6. [stage EXCEPT !.status = "wired"] \in StageRecord
  BY <1>5 DEF StageRecord
<1> DEFINE a == Put(StageKey(v), stage)
           b == Put(WiringKey(v), wiring)
           c == Put(StageKey(v), [stage EXCEPT !.status = "wired"])
           first == IF keep THEN <<>> ELSE <<a>>
           second == IF Wiring(g, v) = wiring /\ stage.status = "wired" THEN <<>> ELSE <<b, c>>
<1>7. StageWrites(g, q, T) = first \o second
  BY <1>4 DEF StageWrites
<1>8. /\ a \in AllWrites /\ a.key = StageKey(v) /\ ~a.erase
      /\ b \in AllWrites /\ b.key = WiringKey(v) /\ b.val = wiring /\ ~b.erase
      /\ c \in AllWrites /\ c.key = StageKey(v) /\ ~c.erase
  <2>1. /\ StageKey(v) \in Keys /\ ValueOf(StageKey(v)) = StageRecord
        /\ WiringKey(v) \in Keys /\ ValueOf(WiringKey(v)) = WiringRecord
    BY <1>1, AllKeys
  <2> HIDE DEF v, wiring
  <2> QED BY <1>3, <1>5, <1>6, <2>1, PutAndErase
<1> HIDE DEF a, b, c, wiring
<1>9. /\ first \in Seq(AllWrites) /\ ToSet(first) \subseteq {a}
      /\ second \in Seq(AllWrites) /\ ToSet(second) \subseteq {b, c}
      /\ Wiring(g, v) = wiring \/ b \in ToSet(second)
  <2>1. \A x, y \in AllWrites : /\ <<>> \in Seq(AllWrites) /\ <<x>> \in Seq(AllWrites)
                                /\ <<x, y>> \in Seq(AllWrites)
    OBVIOUS
  <2> QED BY <1>8, <2>1, ElementsOf
<1> HIDE DEF first, second
<1>10. IsPipeline(g, first) /\ IsPipeline(g, second)
  BY <1>8, <1>9 DEF IsPipeline
<1>11. /\ IsPipeline(g, first \o second)
       /\ ToSet(first \o second) = ToSet(first) \union ToSet(second)
  <2>1. IsPipeline(g, first \o second)
    BY <1>10, JoinPipelines, Zenon
  <2>2. ToSet(first \o second) = ToSet(first) \union ToSet(second)
    BY <1>9, ElementsOf
  <2> QED BY <2>1, <2>2
<1>12. ASSUME NEW w \in ToSet(first \o second)
       PROVE  \/ w.key = StageKey(v)
              \/ w.key = WiringKey(v) /\ w.val.targets = T /\ w.val.state = "wired"
  <2>1. w \in {a, b, c}
    BY <1>9, <1>11
  <2> QED BY <1>3, <1>8, <2>1
<1>13. \/ Wiring(g, v).state = "wired"
       \/ \E w \in ToSet(first \o second) : w.key = WiringKey(v)
  BY <1>3, <1>8, <1>9, <1>11
<1> QED BY <1>7, <1>11, <1>12, <1>13

\* The four writes of G8.
LEMMA Activation ==
  ASSUME DocOK, NEW g \in Gateways, NEW q \in Offers
  PROVE  LET ws == ActivationWrites(g, q)
         IN /\ IsPipeline(g, ws)
            /\ Leaves(ws, CatalogKey, CatalogOf(q))
            /\ Leaves(ws, IndexKey, IF q.status = "active" THEN {q.owner} ELSE {})
            /\ Leaves(ws, ManifestKey(q.version), ManifestOf(q))
            /\ Leaves(ws, RevisionKey, RevisionWith(g, q))
            /\ Len(ws) = 4
            /\ \A w \in ToSet(ws) :
                 ~w.erase /\ w.key \in {CatalogKey, IndexKey, RevisionKey, ManifestKey(q.version)}
            /\ \A w \in ToSet(ws) : w.key = CatalogKey => w.val = CatalogOf(q)
<1> DEFINE index == IF q.status = "active" THEN {q.owner} ELSE {}
           a == Put(CatalogKey, CatalogOf(q))
           b == Put(IndexKey, index)
           c == Put(ManifestKey(q.version), ManifestOf(q))
           d == Put(RevisionKey, RevisionWith(g, q))
           ws == ActivationWrites(g, q)
<1>1. /\ q.version \in Versions /\ CatalogOf(q) \in CatalogRecord /\ ManifestOf(q) \in ManifestRecord
      /\ RevisionWith(g, q) \in RevisionRecord /\ q.owner \in Agents
  BY Offered
<1>2. /\ CatalogOf(q) \in ValueOf(CatalogKey) /\ index \in ValueOf(IndexKey)
      /\ ManifestOf(q) \in ValueOf(ManifestKey(q.version)) /\ RevisionWith(g, q) \in ValueOf(RevisionKey)
      /\ CatalogKey \in Keys /\ IndexKey \in Keys /\ ManifestKey(q.version) \in Keys /\ RevisionKey \in Keys
  BY <1>1, AllKeys
<1> HIDE DEF index
<1>3. /\ a \in AllWrites /\ a.key = CatalogKey /\ a.val = CatalogOf(q) /\ ~a.erase
      /\ b \in AllWrites /\ b.key = IndexKey /\ b.val = index /\ ~b.erase
      /\ c \in AllWrites /\ c.key = ManifestKey(q.version) /\ c.val = ManifestOf(q) /\ ~c.erase
      /\ d \in AllWrites /\ d.key = RevisionKey /\ d.val = RevisionWith(g, q) /\ ~d.erase
  BY <1>2, PutAndErase
<1>4. ws = <<a, b, c, d>>
  BY DEF ActivationWrites, index
<1> HIDE DEF a, b, c, d, ws
<1>5. ws \in Seq(AllWrites) /\ Len(ws) = 4 /\ ToSet(ws) = {a, b, c, d}
  BY <1>3, <1>4, ElementsOf
<1>6. /\ CatalogKey # IndexKey /\ CatalogKey # RevisionKey /\ IndexKey # RevisionKey
      /\ CatalogKey # ManifestKey(q.version) /\ IndexKey # ManifestKey(q.version)
      /\ RevisionKey # ManifestKey(q.version)
  BY KeyNames
<1>7. IsPipeline(g, ws)
  BY <1>3, <1>5 DEF IsPipeline
<1>8. /\ Leaves(ws, CatalogKey, CatalogOf(q)) /\ Leaves(ws, IndexKey, index)
      /\ Leaves(ws, ManifestKey(q.version), ManifestOf(q)) /\ Leaves(ws, RevisionKey, RevisionWith(g, q))
  BY <1>3, <1>5, <1>6, PipelineLeaves
<1>9. \A w \in ToSet(ws) : w.key = CatalogKey => w.val = CatalogOf(q)
  BY <1>3, <1>5, <1>6
<1> QED BY <1>3, <1>5, <1>7, <1>8, <1>9 DEF ws, index

\* The four writes of a rollback.
LEMMA Restoring ==
  ASSUME DocOK, NEW g \in Gateways, NEW q \in Offers
  PROVE  LET ws == RestoreWrites(g, q)
             four == {CatalogKey, IndexKey, RevisionKey, ManifestKey(q.version)}
         IN /\ IsPipeline(g, ws)
            /\ \A k \in four : Leaves(ws, k, doc[g][k].val)
            /\ \A w \in ToSet(ws) : w.key \in four /\ w.val = doc[g][w.key].val
<1> DEFINE ws == RestoreWrites(g, q)
           m == ManifestKey(q.version)
           four == {CatalogKey, IndexKey, RevisionKey, m}
           back(k) == PutBack(g, k)
<1>1. q.version \in Versions
  BY Offered
<1>2. four \subseteq Keys
  BY <1>1, AllKeys
<1>3. ASSUME NEW k \in four
      PROVE  /\ back(k) \in AllWrites /\ back(k).key = k /\ back(k).val = doc[g][k].val
             /\ back(k).erase => doc[g][k].val = Blank(k)
  <2>1. k \in Keys /\ doc[g][k].val \in ValueOf(k)
    BY <1>2, HeldValues
  <2> QED BY <2>1, PutAndErase DEF PutBack
<1>4. ws = <<back(CatalogKey), back(IndexKey), back(RevisionKey), back(m)>>
  BY DEF RestoreWrites
<1> HIDE DEF ws, back
<1>5. ws \in Seq(AllWrites) /\ ToSet(ws) = {back(k) : k \in four}
  BY <1>3, <1>4, ElementsOf
<1>6. IsPipeline(g, ws)
  BY <1>3, <1>5 DEF IsPipeline
<1>7. ASSUME NEW k \in four
      PROVE  Leaves(ws, k, doc[g][k].val)
  <2>1. back(k) \in ToSet(ws) /\ back(k).key = k
    BY <1>3, <1>5
  <2>2. \A u \in ToSet(ws) : u.key = k => u.val = doc[g][k].val
    BY <1>3, <1>5
  <2> QED BY <1>5, <2>1, <2>2, PipelineLeaves
<1>8. \A w \in ToSet(ws) : w.key \in four /\ w.val = doc[g][w.key].val
  BY <1>3, <1>5
<1> QED BY <1>6, <1>7, <1>8 DEF ws

\* A whole publish leaves what the four writes of G8 say.
LEMMA Publishing ==
  ASSUME DocOK, NEW g \in Gateways, NEW q \in Offers, NEW T \in SUBSET Agents
  PROVE  LET ws == PublishWrites(g, q, T)
         IN /\ IsPipeline(g, ws)
            /\ Leaves(ws, CatalogKey, CatalogOf(q))
            /\ Leaves(ws, IndexKey, IF q.status = "active" THEN {q.owner} ELSE {})
            /\ Leaves(ws, ManifestKey(q.version), ManifestOf(q))
            /\ Leaves(ws, RevisionKey, RevisionWith(g, q))
            /\ \A w \in ToSet(ws) :
                 \/ w.key \in {CatalogKey, IndexKey, RevisionKey, StageKey(q.version),
                               ManifestKey(q.version)}
                 \/ w.key = WiringKey(q.version) /\ w.val.targets = T
<1> DEFINE first == StageWrites(g, q, T)
           second == ActivationWrites(g, q)
<1>1. /\ IsPipeline(g, first) /\ first \in Seq(AllWrites)
      /\ \A w \in ToSet(first) : \/ w.key = StageKey(q.version)
                                 \/ w.key = WiringKey(q.version) /\ w.val.targets = T
  BY Staging DEF IsPipeline
<1>2. /\ IsPipeline(g, second) /\ second \in Seq(AllWrites)
      /\ Leaves(second, CatalogKey, CatalogOf(q))
      /\ Leaves(second, IndexKey, IF q.status = "active" THEN {q.owner} ELSE {})
      /\ Leaves(second, ManifestKey(q.version), ManifestOf(q))
      /\ Leaves(second, RevisionKey, RevisionWith(g, q))
      /\ \A w \in ToSet(second) :
           w.key \in {CatalogKey, IndexKey, RevisionKey, ManifestKey(q.version)}
  BY Activation DEF IsPipeline
<1>3. PublishWrites(g, q, T) = first \o second
  BY DEF PublishWrites
<1> HIDE DEF first, second
<1>4. IsPipeline(g, first \o second)
  BY <1>1, <1>2, JoinPipelines, Zenon
<1>5. ToSet(first \o second) = ToSet(first) \union ToSet(second)
  BY <1>1, <1>2, ElementsOf
<1>6. \A k, v : Leaves(second, k, v) => Leaves(first \o second, k, v)
  BY <1>1, <1>2, PartsOfPipelines
<1>7. /\ Leaves(first \o second, CatalogKey, CatalogOf(q))
      /\ Leaves(first \o second, IndexKey, IF q.status = "active" THEN {q.owner} ELSE {})
      /\ Leaves(first \o second, ManifestKey(q.version), ManifestOf(q))
      /\ Leaves(first \o second, RevisionKey, RevisionWith(g, q))
  BY <1>2, <1>6
<1>8. ASSUME NEW w \in ToSet(first \o second)
      PROVE  \/ w.key \in {CatalogKey, IndexKey, RevisionKey, StageKey(q.version),
                           ManifestKey(q.version)}
             \/ w.key = WiringKey(q.version) /\ w.val.targets = T
  BY <1>1, <1>2, <1>5
<1> QED BY <1>3, <1>4, <1>7, <1>8

\* A publish that fails leaves what was there, except for the stage and the wiring.
FailedWrites(g, q, T, n) ==
  StageWrites(g, q, T) \o SubSeq(ActivationWrites(g, q), 1, n) \o RestoreWrites(g, q)

LEMMA FailedPublishing ==
  ASSUME DocOK, NEW g \in Gateways, NEW q \in Offers, NEW T \in SUBSET Agents, NEW n \in 0..4
  PROVE  LET ws == FailedWrites(g, q, T, n)
         IN /\ IsPipeline(g, ws)
            /\ \A k \in {CatalogKey, IndexKey, RevisionKey, ManifestKey(q.version)} :
                 Leaves(ws, k, doc[g][k].val)
            /\ \A w \in ToSet(ws) :
                 w.key \in {CatalogKey, IndexKey, RevisionKey, StageKey(q.version),
                            ManifestKey(q.version), WiringKey(q.version)}
<1> DEFINE four == {CatalogKey, IndexKey, RevisionKey, ManifestKey(q.version)}
           first == StageWrites(g, q, T)
           second == SubSeq(ActivationWrites(g, q), 1, n)
           third == RestoreWrites(g, q)
<1>1. /\ IsPipeline(g, first) /\ first \in Seq(AllWrites)
      /\ \A w \in ToSet(first) : w.key \in {StageKey(q.version), WiringKey(q.version)}
  BY Staging DEF IsPipeline
<1>2. /\ IsPipeline(g, second) /\ second \in Seq(AllWrites)
      /\ \A w \in ToSet(second) : w.key \in four
  <2>1. /\ ActivationWrites(g, q) \in Seq(AllWrites) /\ Len(ActivationWrites(g, q)) = 4
        /\ \A w \in ToSet(ActivationWrites(g, q)) : ~w.erase /\ w.key \in four
    BY Activation DEF IsPipeline
  <2>2. second \in Seq(AllWrites) /\ ToSet(second) \subseteq ToSet(ActivationWrites(g, q))
    BY <2>1, ElementsOf
  <2> HIDE DEF second, four
  <2> QED BY <2>1, <2>2 DEF IsPipeline
<1>3. /\ IsPipeline(g, third) /\ third \in Seq(AllWrites)
      /\ \A k \in four : Leaves(third, k, doc[g][k].val)
      /\ \A w \in ToSet(third) : w.key \in four
  BY Restoring DEF IsPipeline
<1>4. FailedWrites(g, q, T, n) = first \o second \o third
  BY DEF FailedWrites
<1> HIDE DEF first, second, third
<1>5. IsPipeline(g, first \o second)
  BY <1>1, <1>2, JoinPipelines, Zenon
<1>6. first \o second \in Seq(AllWrites) /\ ToSet(first \o second) = ToSet(first) \union ToSet(second)
  BY <1>1, <1>2, ElementsOf
<1>7. PICK us : us = first \o second
  OBVIOUS
<1>8. IsPipeline(g, us) /\ us \in Seq(AllWrites) /\ ToSet(us) = ToSet(first) \union ToSet(second)
  BY <1>5, <1>6, <1>7
<1>9. IsPipeline(g, us \o third)
  BY <1>3, <1>8, JoinPipelines, Zenon
<1>10. ToSet(us \o third) = ToSet(us) \union ToSet(third)
  BY <1>3, <1>8, ElementsOf
<1>11. \A k, v : Leaves(third, k, v) => Leaves(us \o third, k, v)
  BY <1>3, <1>8, PartsOfPipelines
<1>12. \A k \in four : Leaves(us \o third, k, doc[g][k].val)
  BY <1>3, <1>11
<1>13. ASSUME NEW w \in ToSet(us \o third)
       PROVE  w.key \in {CatalogKey, IndexKey, RevisionKey, StageKey(q.version),
                         ManifestKey(q.version), WiringKey(q.version)}
  BY <1>1, <1>2, <1>3, <1>8, <1>10
<1> QED BY <1>4, <1>7, <1>9, <1>12, <1>13

\* Unwinding one version.
LEMMA Unwinding ==
  ASSUME DocOK, NEW g \in Gateways, NEW v \in Versions
  PROVE  LET ws == Unwind(g, v)
         IN /\ IsPipeline(g, ws)
            /\ \A w \in ToSet(ws) :
                 \/ w.key = WiringKey(v) /\ w.val.state = "unwired"
                      /\ w.val = [Wiring(g, v) EXCEPT !.state = "unwired"]
                 \/ w.key = StageKey(v) /\ w.val.status = "unwired"
                      /\ w.val = [Stage(g, v) EXCEPT !.status = "unwired"]
            /\ Wiring(g, v).state = "wired" => \E w \in ToSet(ws) : w.key = WiringKey(v)
            /\ Stage(g, v).status \notin {"none", "unwired"} =>
                 \E w \in ToSet(ws) : w.key = StageKey(v)
<1> DEFINE wiring == [Wiring(g, v) EXCEPT !.state = "unwired"]
           stage == [Stage(g, v) EXCEPT !.status = "unwired"]
           a == Put(WiringKey(v), wiring)
           b == Put(StageKey(v), stage)
           first == IF Wiring(g, v).state # "wired" THEN <<>> ELSE <<a>>
           second == IF Stage(g, v).status \in {"none", "unwired"} THEN <<>> ELSE <<b>>
<1>1. Wiring(g, v) \in WiringRecord /\ Stage(g, v) \in StageRecord
  BY HeldValues
<1>2. /\ wiring \in WiringRecord /\ wiring.state = "unwired"
      /\ stage \in StageRecord /\ stage.status = "unwired"
  BY <1>1 DEF WiringRecord, StageRecord
<1>3. /\ WiringKey(v) \in Keys /\ ValueOf(WiringKey(v)) = WiringRecord
      /\ StageKey(v) \in Keys /\ ValueOf(StageKey(v)) = StageRecord
  BY AllKeys
<1>4. Unwind(g, v) = first \o second
  BY DEF Unwind
<1> HIDE DEF wiring, stage
<1>5. /\ a \in AllWrites /\ a.key = WiringKey(v) /\ a.val = wiring /\ ~a.erase
      /\ b \in AllWrites /\ b.key = StageKey(v) /\ b.val = stage /\ ~b.erase
  BY <1>2, <1>3, PutAndErase
<1> HIDE DEF a, b
<1>6. /\ first \in Seq(AllWrites) /\ ToSet(first) = IF Wiring(g, v).state # "wired" THEN {} ELSE {a}
      /\ second \in Seq(AllWrites)
      /\ ToSet(second) = IF Stage(g, v).status \in {"none", "unwired"} THEN {} ELSE {b}
  <2>1. \A x \in AllWrites : <<>> \in Seq(AllWrites) /\ <<x>> \in Seq(AllWrites)
    OBVIOUS
  <2> QED BY <1>5, <2>1, ElementsOf
<1> HIDE DEF first, second
<1>7. IsPipeline(g, first) /\ IsPipeline(g, second)
  BY <1>5, <1>6 DEF IsPipeline
<1>8. IsPipeline(g, first \o second)
  BY <1>7, JoinPipelines, Zenon
<1>9. ToSet(first \o second) = ToSet(first) \union ToSet(second)
  BY <1>6, ElementsOf
<1>10. ASSUME NEW w \in ToSet(first \o second)
       PROVE  \/ w.key = WiringKey(v) /\ w.val.state = "unwired" /\ w.val = wiring
              \/ w.key = StageKey(v) /\ w.val.status = "unwired" /\ w.val = stage
  BY <1>2, <1>5, <1>6, <1>9
<1>11. /\ Wiring(g, v).state = "wired" => a \in ToSet(first \o second)
       /\ Stage(g, v).status \notin {"none", "unwired"} => b \in ToSet(first \o second)
  BY <1>6, <1>9
<1> QED BY <1>4, <1>5, <1>8, <1>10, <1>11 DEF wiring, stage

\* An unpublish, and what it leaves unwired.
UnpublishWrites(g) ==
  <<Put(CatalogKey, [Catalog(g) EXCEPT !.status = "disabled"]), Put(IndexKey, {})>>
    \o FlattenSeq([i \in DOMAIN VersionOrder |-> Unwind(g, VersionOrder[i])])
    \o <<Put(RevisionKey, RevisionWithout(g))>>

LEMMA Unpublishing ==
  ASSUME DocOK, NEW g \in Gateways, Catalog(g).version # NoVersion
  PROVE  LET ws == UnpublishWrites(g)
         IN /\ IsPipeline(g, ws)
            /\ Leaves(ws, CatalogKey, [Catalog(g) EXCEPT !.status = "disabled"])
            /\ Leaves(ws, IndexKey, {})
            /\ Leaves(ws, RevisionKey, RevisionWithout(g))
            /\ \A v \in Versions :
                 /\ Skips(ws, ManifestKey(v))
                 /\ \/ Skips(ws, WiringKey(v)) /\ Wiring(g, v).state # "wired"
                    \/ \E x : Leaves(ws, WiringKey(v), x) /\ x.state = "unwired"
                 /\ \/ Skips(ws, StageKey(v)) /\ Stage(g, v).status \in {"none", "unwired"}
                    \/ \E x : Leaves(ws, StageKey(v), x) /\ x.status = "unwired"
                 /\ \A w \in ToSet(ws) : w.key = WiringKey(v) => w.val.state = "unwired"
            /\ Len(ws) >= 1 /\ ws[1].key = CatalogKey
            /\ \A w \in ToSet(ws) : w.key = CatalogKey => w.val.status = "disabled"
<1> DEFINE catalog == [Catalog(g) EXCEPT !.status = "disabled"]
           revision == RevisionWithout(g)
           a == Put(CatalogKey, catalog)
           b == Put(IndexKey, {})
           d == Put(RevisionKey, revision)
           n == Len(VersionOrder)
           seqs == [i \in 1..n |-> Unwind(g, VersionOrder[i])]
<1>1. Catalog(g) \in CatalogRecord /\ Revision(g) \in RevisionRecord
  BY HeldValues
<1>2. catalog \in CatalogRecord /\ catalog.status = "disabled"
  BY <1>1 DEF CatalogRecord
<1>3. revision \in RevisionRecord
  <2>1. /\ Revision(g).versions \in SUBSET Versions /\ Revision(g).archived \in SUBSET Versions
        /\ Revision(g).active \in SomeVersion /\ Catalog(g).version \in Versions
    BY <1>1 DEF RevisionRecord, CatalogRecord, SomeVersion
  <2> QED BY <2>1 DEF RevisionWithout, RevisionRecord, SomeVersion, SomeAgent
<1>4. /\ n \in Nat /\ DOMAIN VersionOrder = 1..n /\ \A i \in 1..n : VersionOrder[i] \in Versions
      /\ \A v \in Versions : \E i \in 1..n : VersionOrder[i] = v
  BY SetsAssumption DEF Versions
<1>5. UnpublishWrites(g) = <<a, b>> \o FlattenSeq(seqs) \o <<d>>
  BY <1>4 DEF UnpublishWrites
<1> HIDE DEF catalog, revision
<1>6. /\ a \in AllWrites /\ a.key = CatalogKey /\ a.val = catalog /\ ~a.erase
      /\ b \in AllWrites /\ b.key = IndexKey /\ b.val = {} /\ ~b.erase
      /\ d \in AllWrites /\ d.key = RevisionKey /\ d.val = revision /\ ~d.erase
  <2>1. {} \in SUBSET Agents
    OBVIOUS
  <2> QED BY <1>2, <1>3, <2>1, AllKeys, PutAndErase
<1> HIDE DEF a, b, d, n
<1>7. ASSUME NEW i \in 1..n
      PROVE  /\ seqs[i] \in Seq(AllWrites) /\ IsPipeline(g, seqs[i])
             /\ seqs[i] = Unwind(g, VersionOrder[i])
  <2>1. seqs[i] = Unwind(g, VersionOrder[i]) /\ VersionOrder[i] \in Versions
    BY <1>4
  <2> HIDE DEF seqs
  <2>2. IsPipeline(g, Unwind(g, VersionOrder[i]))
    BY <2>1, Unwinding
  <2> QED BY <2>1, <2>2 DEF IsPipeline
<1>8. seqs \in [1..n -> Seq(AllWrites)]
  BY <1>7
<1> HIDE DEF seqs
<1>9. PICK flat : flat = FlattenSeq(seqs)
  OBVIOUS
<1>10. flat \in Seq(AllWrites) /\ ToSet(flat) = UNION {ToSet(seqs[i]) : i \in 1..n}
  BY <1>4, <1>8, <1>9, ElementsOfFlat
<1>11. /\ \A w \in ToSet(flat) : \E i \in 1..n : w \in ToSet(seqs[i])
       /\ \A i \in 1..n : ToSet(seqs[i]) \subseteq ToSet(flat)
  BY <1>10, Zenon
<1>12. IsPipeline(g, flat)
  BY <1>7, <1>10, <1>11 DEF IsPipeline
<1>13. PICK first : first = <<a, b>>
  OBVIOUS
<1>14. PICK third : third = <<d>>
  OBVIOUS
<1>15. /\ first \in Seq(AllWrites) /\ ToSet(first) = {a, b}
       /\ third \in Seq(AllWrites) /\ ToSet(third) = {d}
  BY <1>6, <1>13, <1>14, ElementsOf
<1>16. IsPipeline(g, first) /\ IsPipeline(g, third)
  BY <1>6, <1>15 DEF IsPipeline
<1>17. PICK us : us = first \o flat
  OBVIOUS
<1>18. IsPipeline(g, us)
  BY <1>12, <1>16, <1>17, JoinPipelines, Zenon
<1>19. us \in Seq(AllWrites) /\ ToSet(us) = ToSet(first) \union ToSet(flat)
  BY <1>10, <1>15, <1>17, ElementsOf
<1>20. PICK ws : ws = us \o third
  OBVIOUS
<1>21. IsPipeline(g, ws)
  BY <1>16, <1>18, <1>20, JoinPipelines, Zenon
<1>22. ws \in Seq(AllWrites) /\ ToSet(ws) = ToSet(us) \union ToSet(third)
  BY <1>15, <1>19, <1>20, ElementsOf
<1>23. ws = UnpublishWrites(g)
  BY <1>5, <1>9, <1>13, <1>14, <1>17, <1>20
<1>24. ASSUME NEW w \in ToSet(flat)
       PROVE  \E v \in Versions :
                \/ w.key = WiringKey(v) /\ w.val.state = "unwired"
                     /\ w.val = [Wiring(g, v) EXCEPT !.state = "unwired"]
                \/ w.key = StageKey(v) /\ w.val.status = "unwired"
                     /\ w.val = [Stage(g, v) EXCEPT !.status = "unwired"]
  <2>1. PICK i \in 1..n : w \in ToSet(seqs[i])
    BY <1>11
  <2>2. VersionOrder[i] \in Versions /\ seqs[i] = Unwind(g, VersionOrder[i])
    BY <1>4, <1>7
  <2>3. w \in ToSet(Unwind(g, VersionOrder[i]))
    BY <2>1, <2>2
  <2> QED BY <2>2, <2>3, Unwinding
<1>25. \A w \in ToSet(ws) : w = a \/ w = b \/ w = d \/ w \in ToSet(flat)
  BY <1>15, <1>19, <1>22
<1>26. a \in ToSet(ws) /\ b \in ToSet(ws) /\ d \in ToSet(ws) /\ ToSet(flat) \subseteq ToSet(ws)
  BY <1>15, <1>19, <1>22
<1>27. /\ Leaves(ws, CatalogKey, catalog) /\ Leaves(ws, IndexKey, {})
       /\ Leaves(ws, RevisionKey, revision)
  <2>1. \A w \in ToSet(flat) : w.key \notin {CatalogKey, IndexKey, RevisionKey}
    BY <1>24, KeyNames
  <2> QED BY <1>6, <1>22, <1>25, <1>26, <2>1, KeyNames, PipelineLeaves
<1>28. Len(ws) >= 1 /\ ws[1].key = CatalogKey
  <2>1. Len(first) = 2 /\ first[1] = a
    BY <1>13
  <2>2. ASSUME NEW s \in Seq(AllWrites), NEW t \in Seq(AllWrites), Len(s) >= 1
        PROVE  Len(s \o t) >= 1 /\ (s \o t)[1] = s[1]
    BY <2>2
  <2>3. first \in Seq(AllWrites) /\ flat \in Seq(AllWrites) /\ Len(first) >= 1
    BY <1>10, <1>15, <2>1
  <2>4. Len(us) >= 1 /\ us[1] = first[1]
    BY <1>17, <2>2, <2>3
  <2>5. us \in Seq(AllWrites) /\ third \in Seq(AllWrites)
    BY <1>15, <1>19
  <2>6. Len(ws) >= 1 /\ ws[1] = us[1]
    BY <1>20, <2>2, <2>4, <2>5
  <2> QED BY <1>6, <2>1, <2>4, <2>6
<1>29. \A w \in ToSet(ws) : w.key = CatalogKey => w.val.status = "disabled"
  <2>1. \A w \in ToSet(flat) : w.key # CatalogKey
    BY <1>24, KeyNames
  <2> QED BY <1>2, <1>6, <1>25, <2>1, KeyNames
<1>30. ASSUME NEW v \in Versions
       PROVE  /\ Skips(ws, ManifestKey(v))
              /\ \/ Skips(ws, WiringKey(v)) /\ Wiring(g, v).state # "wired"
                 \/ \E x : Leaves(ws, WiringKey(v), x) /\ x.state = "unwired"
              /\ \/ Skips(ws, StageKey(v)) /\ Stage(g, v).status \in {"none", "unwired"}
                 \/ \E x : Leaves(ws, StageKey(v), x) /\ x.status = "unwired"
              /\ \A w \in ToSet(ws) : w.key = WiringKey(v) => w.val.state = "unwired"
  <2>1. PICK i \in 1..n : VersionOrder[i] = v
    BY <1>4
  <2>2. seqs[i] = Unwind(g, v) /\ ToSet(Unwind(g, v)) \subseteq ToSet(ws)
    BY <1>7, <1>11, <1>26, <2>1
  <2>3. PICK wiring : wiring = [Wiring(g, v) EXCEPT !.state = "unwired"]
    OBVIOUS
  <2>4. PICK stage : stage = [Stage(g, v) EXCEPT !.status = "unwired"]
    OBVIOUS
  <2>5. ASSUME NEW w \in ToSet(ws)
        PROVE  /\ w.key # ManifestKey(v)
               /\ w.key = WiringKey(v) => w.val = wiring /\ w.val.state = "unwired"
               /\ w.key = StageKey(v) => w.val = stage /\ w.val.status = "unwired"
    <3>1. CASE w = a \/ w = b \/ w = d
      BY <1>6, <3>1, KeyNames
    <3>2. CASE w \in ToSet(flat)
      <4>1. PICK u \in Versions :
                \/ w.key = WiringKey(u) /\ w.val.state = "unwired"
                     /\ w.val = [Wiring(g, u) EXCEPT !.state = "unwired"]
                \/ w.key = StageKey(u) /\ w.val.status = "unwired"
                     /\ w.val = [Stage(g, u) EXCEPT !.status = "unwired"]
        BY <1>24, <3>2
      <4>2. CASE u = v
        BY <2>3, <2>4, <4>1, <4>2, KeyNames
      <4>3. CASE u # v
        BY <4>1, <4>3, KeyNames
      <4> QED BY <4>2, <4>3
    <3> QED BY <1>25, <3>1, <3>2
  <2>6. \A w \in ToSet(ws) : w.key = WiringKey(v) => w.val = wiring /\ w.val.state = "unwired"
    BY <2>5
  <2>7. \A w \in ToSet(ws) : w.key = StageKey(v) => w.val = stage /\ w.val.status = "unwired"
    BY <2>5
  <2>8. /\ Wiring(g, v).state = "wired" => \E w \in ToSet(ws) : w.key = WiringKey(v)
        /\ Stage(g, v).status \notin {"none", "unwired"} => \E w \in ToSet(ws) : w.key = StageKey(v)
    BY <2>2, Unwinding
  <2>9. \/ Skips(ws, WiringKey(v)) /\ Wiring(g, v).state # "wired"
        \/ \E x : Leaves(ws, WiringKey(v), x) /\ x.state = "unwired"
    <3>1. CASE \E w \in ToSet(ws) : w.key = WiringKey(v)
      <4>1. Leaves(ws, WiringKey(v), wiring) /\ wiring.state = "unwired"
        BY <1>22, <2>6, <3>1, PipelineLeaves
      <4> QED BY <4>1
    <3>2. CASE \A w \in ToSet(ws) : w.key # WiringKey(v)
      BY <1>22, <2>8, <3>2, PipelineLeaves
    <3> QED BY <3>1, <3>2
  <2>10. \/ Skips(ws, StageKey(v)) /\ Stage(g, v).status \in {"none", "unwired"}
         \/ \E x : Leaves(ws, StageKey(v), x) /\ x.status = "unwired"
    <3>1. CASE \E w \in ToSet(ws) : w.key = StageKey(v)
      <4>1. Leaves(ws, StageKey(v), stage) /\ stage.status = "unwired"
        BY <1>22, <2>7, <3>1, PipelineLeaves
      <4> QED BY <4>1
    <3>2. CASE \A w \in ToSet(ws) : w.key # StageKey(v)
      BY <1>22, <2>8, <3>2, PipelineLeaves
    <3> QED BY <3>1, <3>2
  <2>11. Skips(ws, ManifestKey(v))
    BY <1>22, <2>5, PipelineLeaves
  <2> QED BY <2>6, <2>9, <2>10, <2>11
<1> QED BY <1>21, <1>23, <1>27, <1>28, <1>29, <1>30 DEF catalog, revision

\* Who may stand in is the owner, one of his standbys or in the index.
LEMMA Candidates ==
  ASSUME DocOK, NEW g \in Gateways, NEW live \in SUBSET Agents,
         NEW new \in SelectedOwner(g, live), NEW old \in Primary(g)
  PROVE  /\ new \in Agents /\ old \in Agents
         /\ \/ new \in Index(g)
            \/ Catalog(g).owner # NoAgent /\ new = Catalog(g).owner
            \/ Catalog(g).version # NoVersion /\ new \in Manifest(g, Catalog(g).version).standbys
<1>1. /\ Catalog(g).owner \in SomeAgent /\ Index(g) \in SUBSET Agents
      /\ Catalog(g).version \in SomeVersion
  BY HeldValues DEF CatalogRecord
<1>2. Primary(g) \subseteq Agents
  BY <1>1 DEF Primary, SomeAgent
<1>3. Catalog(g).version # NoVersion => Manifest(g, Catalog(g).version).standbys \in SUBSET Agents
  BY <1>1, HeldValues DEF ManifestRecord, SomeVersion
<1>4. \/ new \in Primary(g) \/ new \in Index(g)
      \/ Catalog(g).version # NoVersion /\ new \in Manifest(g, Catalog(g).version).standbys
  BY DEF SelectedOwner
<1> QED BY <1>1, <1>2, <1>3, <1>4 DEF Primary

\* A failover.
FailoverWrites(g, new, old) ==
  <<Put(IndexKey, Index(g) \union {new})>>
    \o IF Revision(g).last = "none" THEN <<>>
       ELSE <<Put(RevisionKey, [Revision(g) EXCEPT !.owner = new, !.failedFrom = old])>>

LEMMA FailingOver ==
  ASSUME DocOK, NEW g \in Gateways, NEW new \in Agents, NEW old \in Agents
  PROVE  LET ws == FailoverWrites(g, new, old)
         IN /\ IsPipeline(g, ws)
            /\ Leaves(ws, IndexKey, Index(g) \union {new})
            /\ \/ Skips(ws, RevisionKey)
               \/ Leaves(ws, RevisionKey, [Revision(g) EXCEPT !.owner = new, !.failedFrom = old])
            /\ \A w \in ToSet(ws) : w.key \in {IndexKey, RevisionKey}
<1> DEFINE revision == [Revision(g) EXCEPT !.owner = new, !.failedFrom = old]
           index == Index(g) \union {new}
           a == Put(IndexKey, index)
           b == Put(RevisionKey, revision)
           second == IF Revision(g).last = "none" THEN <<>> ELSE <<b>>
<1>1. Revision(g) \in RevisionRecord /\ index \in SUBSET Agents
  BY HeldValues
<1>2. revision \in RevisionRecord
  BY <1>1 DEF RevisionRecord, SomeAgent
<1>3. FailoverWrites(g, new, old) = <<a>> \o second
  BY DEF FailoverWrites
<1> HIDE DEF revision, index
<1>4. /\ a \in AllWrites /\ a.key = IndexKey /\ a.val = index /\ ~a.erase
      /\ b \in AllWrites /\ b.key = RevisionKey /\ b.val = revision /\ ~b.erase
  BY <1>1, <1>2, AllKeys, PutAndErase
<1> HIDE DEF a, b
<1>5. PICK first : first = <<a>>
  OBVIOUS
<1>6. /\ first \in Seq(AllWrites) /\ ToSet(first) = {a}
      /\ second \in Seq(AllWrites) /\ ToSet(second) \subseteq {b}
  <2>1. <<>> \in Seq(AllWrites) /\ <<a>> \in Seq(AllWrites) /\ <<b>> \in Seq(AllWrites)
    BY <1>4
  <2> QED BY <1>5, <2>1, ElementsOf
<1> HIDE DEF second
<1>7. IsPipeline(g, first) /\ IsPipeline(g, second)
  BY <1>4, <1>6 DEF IsPipeline
<1>8. PICK ws : ws = first \o second
  OBVIOUS
<1>9. IsPipeline(g, ws)
  BY <1>7, <1>8, JoinPipelines, Zenon
<1>10. ws \in Seq(AllWrites) /\ ToSet(ws) = ToSet(first) \union ToSet(second)
  BY <1>6, <1>8, ElementsOf
<1>11. a \in ToSet(ws) /\ \A w \in ToSet(ws) : w = a \/ w = b
  BY <1>6, <1>10
<1>12. Leaves(ws, IndexKey, index)
  BY <1>4, <1>10, <1>11, KeyNames, PipelineLeaves
<1>13. Skips(ws, RevisionKey) \/ Leaves(ws, RevisionKey, revision)
  BY <1>4, <1>10, <1>11, KeyNames, PipelineLeaves
<1> QED BY <1>3, <1>4, <1>5, <1>8, <1>9, <1>11, <1>12, <1>13 DEF revision, index

-----------------------------------------------------------------------------
(***************************************************************************)
(* Types.                                                                  *)
(***************************************************************************)

TypeInv ==
  /\ DocOK /\ ChanOK
  /\ tasked \subseteq Versions \X Agents
  /\ advertised \subseteq Gateways /\ rehydrated \subseteq Gateways
  /\ raced \in BOOLEAN /\ reused \in BOOLEAN
  /\ requests \in 0..MaxRequests /\ faults \in 0..MaxFaults

\* A step of pipeline ws on gateway g.
Runs(g, ws) == IsPipeline(g, ws) /\ Writes(g, ws)

\* The four requests are steps of their pipelines.
LEMMA RequestsRun ==
  ASSUME DocOK, NEW g \in Gateways
  PROVE  /\ \A q \in Offers : \A T \in SUBSET Agents :
              /\ Publish(g, q, T) => Runs(g, PublishWrites(g, q, T))
              /\ \A n \in FailurePoints : PublishFails(g, q, T, n) => Runs(g, FailedWrites(g, q, T, n))
         /\ Unpublish(g) => Runs(g, UnpublishWrites(g))
         /\ \A live \in SUBSET Agents : Failover(g, live) =>
              \E new \in SelectedOwner(g, live), old \in Primary(g) :
                /\ new \in Agents /\ old \in Agents /\ Index(g) # {}
                /\ Runs(g, FailoverWrites(g, new, old))
<1>1. ASSUME NEW q \in Offers, NEW T \in SUBSET Agents, Publish(g, q, T)
      PROVE  Runs(g, PublishWrites(g, q, T))
  BY <1>1, Publishing DEF Publish, Runs
<1>2. ASSUME NEW q \in Offers, NEW T \in SUBSET Agents, NEW n \in FailurePoints, PublishFails(g, q, T, n)
      PROVE  Runs(g, FailedWrites(g, q, T, n))
  <2>1. n \in 0..4
    BY BoundsAssumption
  <2>2. IsPipeline(g, FailedWrites(g, q, T, n))
    BY <2>1, FailedPublishing
  <2>3. Writes(g, FailedWrites(g, q, T, n))
    BY <1>2, Zenon DEF PublishFails, FailedWrites
  <2> QED BY <2>2, <2>3 DEF Runs
<1>3. ASSUME Unpublish(g)
      PROVE  Runs(g, UnpublishWrites(g))
  <2>1. Catalog(g).version # NoVersion /\ Writes(g, UnpublishWrites(g))
    BY <1>3, Zenon DEF Unpublish, UnpublishWrites
  <2> QED BY <2>1, Unpublishing DEF Runs
<1>4. ASSUME NEW live \in SUBSET Agents, Failover(g, live)
      PROVE  \E new \in SelectedOwner(g, live), old \in Primary(g) :
                /\ new \in Agents /\ old \in Agents /\ Index(g) # {}
                /\ Runs(g, FailoverWrites(g, new, old))
  <2>1. PICK new \in SelectedOwner(g, live), old \in Primary(g) :
          Writes(g, FailoverWrites(g, new, old))
    BY <1>4, Zenon DEF Failover, FailoverWrites
  <2>2. new \in Agents /\ old \in Agents
    BY Candidates
  <2>3. IsPipeline(g, FailoverWrites(g, new, old))
    BY <2>2, FailingOver
  <2>4. Index(g) # {}
    BY <1>4 DEF Failover
  <2> QED BY <2>1, <2>2, <2>3, <2>4 DEF Runs
<1> QED BY <1>1, <1>2, <1>3, <1>4

\* What else a request changes.
LEMMA RequestsCount ==
  ASSUME TypeInv, NEW g \in Gateways, NEW n \in Nat, Request(g, n)
  PROVE  /\ requests' \in 0..MaxRequests /\ raced' \in BOOLEAN /\ ~raced
         /\ ~raced' => \A h \in Gateways : chan[h][g] = <<>>
<1>1. requests' \in 0..MaxRequests
  BY BoundsAssumption DEF TypeInv, Request
<1>2. ~raced /\ raced' = (raced \/ \E h \in Gateways : chan[h][g] # <<>>)
  BY DEF Request
<1>3. raced' \in BOOLEAN
  BY <1>2, Zenon
<1>4. ~raced' => \A h \in Gateways : chan[h][g] = <<>>
  BY <1>2, Zenon
<1> QED BY <1>1, <1>2, <1>3, <1>4

\* Every step is a request, a receipt or changes nothing that is replicated.
LEMMA Steps ==
  ASSUME TypeInv, [Next]_vars
  PROVE  \/ \E g \in Gateways, ws \in Seq(AllWrites) :
              /\ Runs(g, ws) /\ ~raced /\ (~raced' => \A h \in Gateways : chan[h][g] = <<>>)
              /\ \/ \E q \in Offers, T \in SUBSET Agents :
                      Publish(g, q, T) /\ ws = PublishWrites(g, q, T)
                 \/ \E q \in Offers, T \in SUBSET Agents, n \in 0..4 :
                      PublishFails(g, q, T, n) /\ ws = FailedWrites(g, q, T, n)
                 \/ Unpublish(g) /\ ws = UnpublishWrites(g)
                 \/ \E live \in SUBSET Agents :
                      /\ Failover(g, live)
                      /\ \E new \in SelectedOwner(g, live), old \in Primary(g) :
                           /\ new \in Agents /\ old \in Agents /\ Index(g) # {}
                           /\ ws = FailoverWrites(g, new, old)
         \/ \E g, h \in Gateways : Receive(g, h)
         \/ \E g \in Gateways : Rehydrate(g)
         \/ UNCHANGED vars
<1>1. DocOK
  BY DEF TypeInv
<1>2. ASSUME NEW g \in Gateways, NEW q \in Offers, NEW T \in SUBSET (Agents \ {q.owner}), Publish(g, q, T)
      PROVE  \E ws \in Seq(AllWrites) :
               /\ Runs(g, ws) /\ ~raced /\ (~raced' => \A h \in Gateways : chan[h][g] = <<>>)
               /\ ws = PublishWrites(g, q, T) /\ T \in SUBSET Agents
  <2>1. T \in SUBSET Agents /\ Request(g, 1)
    BY <1>2 DEF Publish
  <2>2. Runs(g, PublishWrites(g, q, T))
    BY <1>1, <1>2, <2>1, RequestsRun
  <2>3. ~raced /\ (~raced' => \A h \in Gateways : chan[h][g] = <<>>)
    BY <2>1, RequestsCount
  <2> QED BY <2>1, <2>2, <2>3 DEF Runs, IsPipeline
<1>3. ASSUME NEW g \in Gateways, NEW q \in Offers, NEW T \in SUBSET (Agents \ {q.owner}),
             NEW n \in FailurePoints, PublishFails(g, q, T, n)
      PROVE  \E ws \in Seq(AllWrites) :
               /\ Runs(g, ws) /\ ~raced /\ (~raced' => \A h \in Gateways : chan[h][g] = <<>>)
               /\ ws = FailedWrites(g, q, T, n) /\ T \in SUBSET Agents /\ n \in 0..4
  <2>1. T \in SUBSET Agents /\ Request(g, 2) /\ n \in 0..4
    BY <1>3, BoundsAssumption DEF PublishFails
  <2>2. Runs(g, FailedWrites(g, q, T, n))
    BY <1>1, <1>3, <2>1, RequestsRun
  <2>3. ~raced /\ (~raced' => \A h \in Gateways : chan[h][g] = <<>>)
    BY <2>1, RequestsCount
  <2> QED BY <2>1, <2>2, <2>3 DEF Runs, IsPipeline
<1>4. ASSUME NEW g \in Gateways, Unpublish(g)
      PROVE  \E ws \in Seq(AllWrites) :
               /\ Runs(g, ws) /\ ~raced /\ (~raced' => \A h \in Gateways : chan[h][g] = <<>>)
               /\ ws = UnpublishWrites(g)
  <2>1. Request(g, 1)
    BY <1>4 DEF Unpublish
  <2>2. Runs(g, UnpublishWrites(g))
    BY <1>1, <1>4, RequestsRun
  <2>3. ~raced /\ (~raced' => \A h \in Gateways : chan[h][g] = <<>>)
    BY <2>1, RequestsCount
  <2> QED BY <2>2, <2>3 DEF Runs, IsPipeline
<1>5. ASSUME NEW g \in Gateways, NEW fresh \in SUBSET Gateways, Failover(g, Live(fresh))
      PROVE  \E live \in SUBSET Agents, ws \in Seq(AllWrites) :
               /\ Runs(g, ws) /\ ~raced /\ (~raced' => \A h \in Gateways : chan[h][g] = <<>>)
               /\ Failover(g, live)
               /\ \E new \in SelectedOwner(g, live), old \in Primary(g) :
                    /\ new \in Agents /\ old \in Agents /\ Index(g) # {}
                    /\ ws = FailoverWrites(g, new, old)
  <2>1. PICK live \in SUBSET Agents : live = Live(fresh)
    BY DEF Live
  <2>2. Failover(g, live) /\ Request(g, 1)
    BY <1>5, <2>1 DEF Failover
  <2>3. PICK new \in SelectedOwner(g, live), old \in Primary(g) :
          /\ new \in Agents /\ old \in Agents /\ Index(g) # {}
          /\ Runs(g, FailoverWrites(g, new, old))
    BY <1>1, <2>2, RequestsRun
  <2>4. ~raced /\ (~raced' => \A h \in Gateways : chan[h][g] = <<>>)
    BY <2>2, RequestsCount
  <2> QED BY <2>2, <2>3, <2>4 DEF Runs, IsPipeline
<1>6. CASE UNCHANGED vars
  BY <1>6
<1>7. CASE Next
  BY <1>2, <1>3, <1>4, <1>5, <1>7 DEF Next
<1> QED BY <1>6, <1>7

\* Initially every replica is blank and nothing is on its way.
LEMMA InitTypes == Init => TypeInv
<1> SUFFICES ASSUME Init
             PROVE  TypeInv
  OBVIOUS
<1>1. ASSUME NEW g \in Gateways, NEW k \in Keys
      PROVE  doc[g][k] = [val |-> Blank(k), seen |-> [h \in Gateways |-> 0],
                          by |-> CHOOSE h \in Gateways : TRUE]
  BY DEF Init
<1>2. doc = [g \in Gateways |-> [k \in Keys |-> doc[g][k]]]
  BY DEF Init
<1>3. ASSUME NEW g \in Gateways, NEW k \in Keys
      PROVE  IsEntry(doc[g][k], k)
  <2>1. Blank(k) \in ValueOf(k)
    BY BlankFits
  <2>2. PICK zero : zero = [h \in Gateways |-> 0]
    OBVIOUS
  <2>3. zero \in [Gateways -> Nat]
    BY <2>2
  <2>4. PICK x \in Gateways : x = CHOOSE h \in Gateways : TRUE
    OBVIOUS
  <2>5. doc[g][k] = [val |-> Blank(k), seen |-> zero, by |-> x]
    BY <1>1, <2>2, <2>4
  <2> QED BY <2>1, <2>3, <2>5 DEF IsEntry
<1>4. DocOK
  BY <1>2, <1>3 DEF DocOK
<1>5. ChanOK
  <2>1. <<>> \in Seq(AllMessages)
    OBVIOUS
  <2> QED BY <2>1 DEF Init, ChanOK
<1>6. 0 \in 0..MaxRequests /\ 0 \in 0..MaxFaults
  BY BoundsAssumption
<1> QED BY <1>4, <1>5, <1>6 DEF Init, TypeInv

\* The types are kept by every step.
LEMMA StepTypes == TypeInv /\ [Next]_vars => TypeInv'
<1> SUFFICES ASSUME TypeInv, [Next]_vars
             PROVE  TypeInv'
  OBVIOUS
<1>1. DocOK /\ ChanOK
  BY DEF TypeInv
<1>2. ASSUME NEW g \in Gateways, NEW ws \in Seq(AllWrites), Runs(g, ws)
      PROVE  DocOK' /\ ChanOK' /\ rehydrated' \subseteq Gateways
  <2>1. Writes(g, ws)
    BY <1>2 DEF Runs
  <2>2. rehydrated' \subseteq Gateways
    BY <2>1 DEF Writes, TypeInv
  <2> QED BY <1>1, <2>1, <2>2, WritesAre
<1>3. ASSUME NEW g \in Gateways, NEW ws \in Seq(AllWrites), Runs(g, ws),
             NEW q \in Offers, NEW T \in SUBSET Agents, Publish(g, q, T)
      PROVE  TypeInv'
  <2>1. requests' \in 0..MaxRequests /\ raced' \in BOOLEAN
    BY <1>3, RequestsCount DEF Publish
  <2>2. tasked' \subseteq Versions \X Agents
    <3>1. q.version \in Versions
      BY <1>1, Offered
    <3> QED BY <1>3, <3>1 DEF Publish, Asked, TypeInv
  <2>3. reused' \in BOOLEAN
    <3>1. reused' = (reused \/ q.version \in Revision(g).versions \/ q.status # "active")
      BY <1>3 DEF Publish
    <3> QED BY <3>1, Zenon
  <2>4. UNCHANGED <<advertised, faults>>
    BY <1>3 DEF Publish
  <2> QED BY <1>2, <1>3, <2>1, <2>2, <2>3, <2>4 DEF TypeInv
<1>4. ASSUME NEW g \in Gateways, NEW ws \in Seq(AllWrites), Runs(g, ws),
             NEW q \in Offers, NEW T \in SUBSET Agents, NEW n \in 0..4, PublishFails(g, q, T, n)
      PROVE  TypeInv'
  <2>1. requests' \in 0..MaxRequests /\ raced' \in BOOLEAN
    BY <1>4, RequestsCount DEF PublishFails
  <2>2. faults' \in 0..MaxFaults /\ UNCHANGED <<tasked, advertised, reused>>
    BY <1>4, BoundsAssumption DEF PublishFails, TypeInv
  <2> QED BY <1>2, <1>4, <2>1, <2>2 DEF TypeInv
<1>5. ASSUME NEW g \in Gateways, NEW ws \in Seq(AllWrites), Runs(g, ws),
             Unpublish(g) \/ \E live \in SUBSET Agents : Failover(g, live)
      PROVE  TypeInv'
  <2>1. Request(g, 1) /\ UNCHANGED <<tasked, advertised, reused, faults>>
    BY <1>5 DEF Unpublish, Failover
  <2>2. requests' \in 0..MaxRequests /\ raced' \in BOOLEAN
    BY <2>1, RequestsCount
  <2> QED BY <1>2, <1>5, <2>1, <2>2 DEF TypeInv
<1>6. ASSUME NEW g \in Gateways, NEW h \in Gateways, Receive(g, h)
      PROVE  TypeInv'
  <2>1. DocOK' /\ ChanOK'
    BY <1>1, <1>6, ReceiveIs
  <2> QED BY <1>6, <2>1 DEF Receive, histVars, TypeInv
<1>7. ASSUME NEW g \in Gateways, Rehydrate(g)
      PROVE  TypeInv'
  BY <1>7 DEF Rehydrate, histVars, TypeInv, DocOK, ChanOK, IsEntry
<1>8. CASE UNCHANGED vars
  BY <1>8 DEF vars, histVars, TypeInv, DocOK, ChanOK, IsEntry
<1> QED BY <1>3, <1>4, <1>5, <1>6, <1>7, <1>8, Steps

\* The replicas and the channels hold nothing but entries of their keys; the counters
\* stay in their bounds.
THEOREM TypeCorrect == Spec => []TypeOK
<1>1. TypeInv => TypeOK
  <2> SUFFICES ASSUME TypeInv
               PROVE  TypeOK
    OBVIOUS
  <2>1. ASSUME NEW g \in Gateways, NEW h \in Gateways, NEW i \in DOMAIN chan[g][h]
        PROVE  /\ chan[g][h][i].key \in Keys /\ chan[g][h][i].erase \in BOOLEAN
               /\ IsEntry(chan[g][h][i].entry, chan[g][h][i].key)
    <3>1. chan[g][h] \in Seq(AllMessages)
      BY DEF TypeInv, ChanOK
    <3>2. chan[g][h][i] \in AllMessages
      BY <3>1
    <3> QED BY <3>2 DEF AllMessages
  <2> QED BY <2>1 DEF TypeInv, TypeOK, DocOK
<1> QED BY <1>1, InitTypes, StepTypes, PTL DEF Spec

-----------------------------------------------------------------------------
(***************************************************************************)
(* Values.  What is said of every value of a key, wherever it is, stays    *)
(* true as long as it is true of what the pipelines write.                 *)
(***************************************************************************)

AllValuesIn(P) ==
  /\ \A g \in Gateways, k \in Keys : doc[g][k].val \in P[k]
  /\ \A g, h \in Gateways, i \in Nat, k \in Keys :
       Pending(g, h, i, k) => chan[g][h][i].entry.val \in P[k]

LEMMA WritesKeepValues ==
  ASSUME DocOK, ChanOK, NEW g \in Gateways, NEW ws \in Seq(AllWrites), Writes(g, ws),
         NEW P, AllValuesIn(P), \A w \in ToSet(ws) : w.val \in P[w.key]
  PROVE  AllValuesIn(P)'
<1>1. WroteDoc(g, ws) /\ WroteChan(g, ws) /\ Len(ws) \in Nat /\ DOMAIN ws = 1..Len(ws)
  BY WritesAre
<1>2. ASSUME NEW j \in DOMAIN ws
      PROVE  /\ EntryAfter(g, ws, j).val = ws[j].val /\ ws[j].val \in P[ws[j].key]
             /\ ws[j].key \in Keys
  <2>1. ws[j] \in ToSet(ws)
    BY DEF ToSet
  <2> QED BY <2>1, EntriesAfter
<1>3. ASSUME NEW h \in Gateways, NEW k \in Keys
      PROVE  doc'[h][k].val \in P[k]
  <2>1. CASE h # g
    BY <1>1, <2>1 DEF WroteDoc, AllValuesIn
  <2>2. CASE h = g /\ Skips(ws, k)
    BY <1>1, <2>2 DEF WroteDoc, AllValuesIn
  <2>3. CASE h = g /\ ~Skips(ws, k)
    <3>1. PICK j : IsLast(ws, k, j)
      BY <1>1, <2>3 DEF WroteDoc
    <3>2. j \in DOMAIN ws /\ ws[j].key = k
      BY <3>1 DEF IsLast
    <3>3. doc'[g][k] = EntryAfter(g, ws, j)
      BY <1>1, <3>1 DEF WroteDoc
    <3> QED BY <1>2, <2>3, <3>2, <3>3
  <2> QED BY <2>1, <2>2, <2>3
<1>4. ASSUME NEW x \in Gateways, NEW h \in Gateways, NEW i \in Nat, NEW k \in Keys, Pending(x, h, i, k)'
      PROVE  chan'[x][h][i].entry.val \in P[k]
  <2>1. CASE x # g
    <3>1. chan'[x][h] = chan[x][h]
      BY <1>1, <2>1 DEF WroteChan
    <3> QED BY <1>4, <3>1 DEF Pending, AllValuesIn
  <2>2. CASE x = g /\ h = g
    BY <1>1, <1>4, <2>2 DEF WroteChan, Pending
  <2>3. CASE x = g /\ h # g /\ i <= Len(chan[g][h])
    <3>1. i \in 1..Len(chan[g][h]) /\ chan'[g][h][i] = chan[g][h][i]
      <4>1. i >= 1 /\ Len(chan[g][h]) \in Nat
        BY <1>4 DEF Pending, ChanOK
      <4>2. i \in 1..Len(chan[g][h])
        BY <2>3, <4>1
      <4> QED BY <1>1, <2>3, <4>2 DEF WroteChan
    <3> QED BY <1>4, <2>3, <3>1 DEF Pending, AllValuesIn
  <2>4. CASE x = g /\ h # g /\ i > Len(chan[g][h])
    <3>1. /\ Len(chan[g][h]) \in Nat /\ Len(chan'[g][h]) = Len(chan[g][h]) + Len(ws)
          /\ i <= Len(chan'[g][h])
      BY <1>1, <1>4, <2>4 DEF WroteChan, ChanOK, Pending
    <3>2. PICK n \in Nat : n = Len(chan[g][h])
      BY <3>1
    <3>3. PICK j \in 1..Len(ws) : i = n + j
      <4>1. i - n \in 1..Len(ws) /\ i = n + (i - n)
        BY <1>1, <2>4, <3>1, <3>2
      <4> QED BY <4>1
    <3>4. chan'[g][h][i] = Message(g, ws, j)
      BY <1>1, <2>4, <3>2, <3>3 DEF WroteChan
    <3> QED BY <1>1, <1>2, <1>4, <2>4, <3>4 DEF Pending, Message
  <2>5. Len(chan[g][h]) \in Nat
    BY DEF ChanOK
  <2> QED BY <2>1, <2>2, <2>3, <2>4, <2>5
<1> QED BY <1>3, <1>4 DEF AllValuesIn

LEMMA ReceiveKeepsValues ==
  ASSUME DocOK, ChanOK, NEW g \in Gateways, NEW h \in Gateways, Receive(g, h), NEW P, AllValuesIn(P)
  PROVE  AllValuesIn(P)'
<1> DEFINE m == chan[g][h][1]
<1>1. Received(g, h) /\ m \in AllMessages
  BY ReceiveIs DEF Received
<1>2. m.key \in Keys /\ IsEntry(m.entry, m.key) /\ Pending(g, h, 1, m.key)
  BY <1>1 DEF AllMessages, Received, Pending
<1>3. m.entry.val \in P[m.key]
  BY <1>2 DEF AllValuesIn
<1>4. ASSUME NEW x \in Gateways, NEW k \in Keys
      PROVE  doc'[x][k].val \in P[k]
  <2>1. CASE x = h /\ k = m.key
    <3>1. doc'[h][k] = Merge(k, doc[h][k], m.entry, m.erase)
      BY <1>1, <2>1 DEF Received
    <3>2. IsEntry(doc[h][k], k) /\ doc[h][k].val \in P[k]
      BY DEF DocOK, AllValuesIn
    <3> HIDE DEF m
    <3>3. Merge(k, doc[h][k], m.entry, m.erase).val \in {doc[h][k].val, m.entry.val}
      BY <1>2, <2>1, <3>2, MergeIs
    <3> QED BY <1>3, <2>1, <3>1, <3>2, <3>3
  <2>2. CASE ~(x = h /\ k = m.key)
    <3>1. doc'[x][k] = doc[x][k]
      BY <1>1, <2>2 DEF Received
    <3> QED BY <3>1 DEF AllValuesIn
  <2> QED BY <2>1, <2>2
<1>5. ASSUME NEW x \in Gateways, NEW y \in Gateways, NEW i \in Nat, NEW k \in Keys, Pending(x, y, i, k)'
      PROVE  chan'[x][y][i].entry.val \in P[k]
  <2>1. CASE x = g /\ y = h
    <3>1. Pending(x, y, i + 1, k) /\ chan'[x][y][i] = chan[x][y][i + 1] /\ i + 1 \in Nat
      BY <1>1, <1>5, <2>1 DEF Received, Pending
    <3> QED BY <3>1 DEF AllValuesIn
  <2>2. CASE x # g \/ y # h
    <3>1. Pending(x, y, i, k) /\ chan'[x][y][i] = chan[x][y][i]
      BY <1>1, <1>5, <2>2 DEF Received, Pending
    <3> QED BY <3>1 DEF AllValuesIn
  <2> QED BY <2>1, <2>2
<1> QED BY <1>4, <1>5 DEF AllValuesIn

-----------------------------------------------------------------------------
(***************************************************************************)
(* Wirings and tasks.                                                      *)
(***************************************************************************)

\* The values of a key that wire nobody who has not been asked in t.
WiredFor(t) ==
  [k \in Keys |-> {x \in ValueOf(k) :
     \A v \in Versions : k = WiringKey(v) /\ x.state = "wired" => {v} \X x.targets \subseteq t}]

AskedInv == faults = 0 => AllValuesIn(WiredFor(tasked))

LEMMA WiringValues ==
  ASSUME NEW t, NEW k \in Keys, NEW x \in ValueOf(k)
  PROVE  /\ (\A v \in Versions : k = WiringKey(v) /\ x.state = "wired" => {v} \X x.targets \subseteq t)
              <=> x \in WiredFor(t)[k]
         /\ \A u \in SUBSET t : x \in WiredFor(u)[k] => x \in WiredFor(t)[k]
<1>1. ASSUME NEW s
      PROVE  x \in WiredFor(s)[k] <=>
               \A v \in Versions : k = WiringKey(v) /\ x.state = "wired" => {v} \X x.targets \subseteq s
  BY DEF WiredFor
<1>2. ASSUME NEW u \in SUBSET t, x \in WiredFor(u)[k]
      PROVE  x \in WiredFor(t)[k]
  <2>1. ASSUME NEW v \in Versions, k = WiringKey(v), x.state = "wired"
        PROVE  {v} \X x.targets \subseteq t
    <3>1. {v} \X x.targets \subseteq u
      BY <1>1, <1>2, <2>1
    <3> QED BY <3>1
  <2> QED BY <1>1, <2>1
<1> QED BY <1>1, <1>2

LEMMA InitAsked == Init => AskedInv
<1> SUFFICES ASSUME Init
             PROVE  AllValuesIn(WiredFor(tasked))
  BY DEF AskedInv
<1>1. TypeInv
  BY InitTypes
<1>2. ASSUME NEW g \in Gateways, NEW k \in Keys
      PROVE  doc[g][k].val \in WiredFor(tasked)[k]
  <2>1. doc[g][k].val = Blank(k)
    BY DEF Init
  <2>2. \A v \in Versions : k = WiringKey(v) => Blank(k).state # "wired"
    BY AllKeys
  <2>3. Blank(k) \in ValueOf(k)
    BY BlankFits
  <2> QED BY <2>1, <2>2, <2>3, WiringValues
<1>3. ASSUME NEW g \in Gateways, NEW h \in Gateways, NEW i \in Nat, NEW k \in Keys
      PROVE  ~Pending(g, h, i, k)
  <2>1. chan[g][h] = <<>>
    BY DEF Init
  <2> QED BY <2>1 DEF Pending
<1> QED BY <1>2, <1>3 DEF AllValuesIn

LEMMA StepAsked == TypeInv /\ AskedInv /\ [Next]_vars => AskedInv'
<1> SUFFICES ASSUME TypeInv, AskedInv, [Next]_vars, faults' = 0
             PROVE  AllValuesIn(WiredFor(tasked))'
  BY DEF AskedInv
<1>1. DocOK /\ ChanOK /\ faults \in Nat
  BY BoundsAssumption DEF TypeInv
\* Nothing that is held or on its way becomes wrong by more tasks.
<1>2. ASSUME NEW g \in Gateways, NEW ws \in Seq(AllWrites), Runs(g, ws),
             faults = 0, tasked \subseteq tasked',
             \A w \in ToSet(ws), v \in Versions : w.key = WiringKey(v) /\ w.val.state = "wired" =>
                 {v} \X w.val.targets \subseteq tasked'
      PROVE  AllValuesIn(WiredFor(tasked))'
  <2>1. PICK t : t = tasked'
    OBVIOUS
  <2>2. PICK s : s = tasked
    OBVIOUS
  <2>3. PICK P : P = WiredFor(t)
    OBVIOUS
  <2>4. AllValuesIn(P)
    <3>1. AllValuesIn(WiredFor(s)) /\ s \in SUBSET t
      BY <1>2, <2>1, <2>2 DEF AskedInv
    <3>2. \A g_1 \in Gateways, k \in Keys : doc[g_1][k].val \in P[k]
      BY <1>1, <2>3, <3>1, HeldValues, WiringValues DEF AllValuesIn
    <3>3. ASSUME NEW x \in Gateways, NEW h \in Gateways, NEW i \in Nat, NEW k \in Keys, Pending(x, h, i, k)
          PROVE  chan[x][h][i].entry.val \in P[k]
      <4>1. chan[x][h] \in Seq(AllMessages) /\ i \in 1..Len(chan[x][h]) /\ chan[x][h][i].key = k
        BY <1>1, <3>3 DEF ChanOK, Pending
      <4>2. chan[x][h][i] \in AllMessages
        BY <4>1
      <4>3. chan[x][h][i].entry.val \in ValueOf(k)
        BY <4>1, <4>2 DEF AllMessages, IsEntry
      <4> QED BY <2>3, <3>1, <3>3, <4>3, WiringValues DEF AllValuesIn
    <3> QED BY <3>2, <3>3 DEF AllValuesIn
  <2>5. \A w \in ToSet(ws) : w.val \in P[w.key]
    <3>1. \A w \in ToSet(ws) : w \in AllWrites
      BY DEF ToSet
    <3>2. \A w \in ToSet(ws) : w.key \in Keys /\ w.val \in ValueOf(w.key)
      BY <3>1 DEF AllWrites
    <3> QED BY <1>2, <2>1, <2>3, <3>2, WiringValues
  <2>6. AllValuesIn(P)'
    BY <1>1, <1>2, <2>4, <2>5, WritesKeepValues DEF Runs
  <2> QED BY <2>1, <2>3, <2>6 DEF AllValuesIn
<1>3. ASSUME NEW g \in Gateways, NEW ws \in Seq(AllWrites), Runs(g, ws),
             NEW q \in Offers, NEW T \in SUBSET Agents, Publish(g, q, T), ws = PublishWrites(g, q, T)
      PROVE  AllValuesIn(WiredFor(tasked))'
  <2>1. faults = 0 /\ tasked' = tasked \union ({q.version} \X T)
    BY <1>3 DEF Publish, Asked
  <2>2. ASSUME NEW w \in ToSet(ws), NEW v \in Versions, w.key = WiringKey(v)
        PROVE  {v} \X w.val.targets \subseteq tasked'
    <3>1. \/ w.key \in {CatalogKey, IndexKey, RevisionKey, StageKey(q.version),
                        ManifestKey(q.version)}
          \/ w.key = WiringKey(q.version) /\ w.val.targets = T
      <4>1. \A u \in ToSet(PublishWrites(g, q, T)) :
              \/ u.key \in {CatalogKey, IndexKey, RevisionKey, StageKey(q.version),
                            ManifestKey(q.version)}
              \/ u.key = WiringKey(q.version) /\ u.val.targets = T
        BY <1>1, Publishing
      <4>2. w \in ToSet(PublishWrites(g, q, T))
        BY <1>3, <2>2
      <4> QED BY <4>1, <4>2
    <3>2. v = q.version /\ w.val.targets = T
      BY <2>2, <3>1, KeyNames
    <3> QED BY <2>1, <3>2
  <2> QED BY <1>2, <1>3, <2>1, <2>2
<1>4. ASSUME NEW g \in Gateways, NEW q \in Offers, NEW T \in SUBSET Agents, NEW n \in 0..4,
             PublishFails(g, q, T, n)
      PROVE  FALSE
  BY <1>1, <1>4 DEF PublishFails
<1>5. ASSUME NEW g \in Gateways, NEW ws \in Seq(AllWrites), Runs(g, ws),
             Unpublish(g), ws = UnpublishWrites(g)
      PROVE  AllValuesIn(WiredFor(tasked))'
  <2>1. Catalog(g).version # NoVersion /\ faults = 0 /\ tasked' = tasked
    BY <1>5 DEF Unpublish
  <2>2. \A w \in ToSet(ws), v \in Versions : w.key = WiringKey(v) => w.val.state = "unwired"
    BY <1>1, <1>5, <2>1, Unpublishing
  <2> QED BY <1>2, <1>5, <2>1, <2>2
<1>6. ASSUME NEW g \in Gateways, NEW ws \in Seq(AllWrites), Runs(g, ws), NEW live \in SUBSET Agents,
             Failover(g, live), NEW new \in Agents, NEW old \in Agents, ws = FailoverWrites(g, new, old)
      PROVE  AllValuesIn(WiredFor(tasked))'
  <2>1. faults = 0 /\ tasked' = tasked
    BY <1>6 DEF Failover
  <2>2. \A w \in ToSet(ws) : w.key \in {IndexKey, RevisionKey}
    BY <1>1, <1>6, FailingOver
  <2>3. \A w \in ToSet(ws), v \in Versions : w.key # WiringKey(v)
    BY <2>2, KeyNames
  <2> QED BY <1>2, <1>6, <2>1, <2>3
<1>7. ASSUME NEW g \in Gateways, NEW h \in Gateways, Receive(g, h)
      PROVE  AllValuesIn(WiredFor(tasked))'
  <2>1. faults = 0 /\ tasked' = tasked
    BY <1>7 DEF Receive, histVars
  <2>2. PICK P : P = WiredFor(tasked)
    OBVIOUS
  <2>3. AllValuesIn(P)
    BY <2>1, <2>2 DEF AskedInv
  <2>4. AllValuesIn(P)'
    BY <1>1, <1>7, <2>3, ReceiveKeepsValues
  <2>5. P = WiredFor(tasked')
    BY <2>1, <2>2
  <2> QED BY <2>4, <2>5 DEF AllValuesIn
<1>8. ASSUME UNCHANGED <<doc, chan, tasked, faults>>
      PROVE  AllValuesIn(WiredFor(tasked))'
  BY <1>8 DEF AskedInv, AllValuesIn, Pending
<1>9. ASSUME NEW g \in Gateways, Rehydrate(g)
      PROVE  UNCHANGED <<doc, chan, tasked, faults>>
  BY <1>9 DEF Rehydrate, histVars
<1>10. CASE UNCHANGED vars
  BY <1>8, <1>10 DEF vars, histVars
<1> QED BY <1>3, <1>4, <1>5, <1>6, <1>7, <1>8, <1>9, <1>10, Steps

\* Whoever a version is wired for on any gateway has been asked to install its skill.
THEOREM WiredWereAsked == Spec => []WiredIsTasked
<1>1. TypeInv /\ AskedInv => WiredIsTasked
  <2> SUFFICES ASSUME TypeInv, AskedInv, faults = 0, NEW g \in Gateways, NEW v \in Versions,
                      Wiring(g, v).state = "wired"
               PROVE  {v} \X Wiring(g, v).targets \subseteq tasked
    BY DEF WiredIsTasked
  <2>1. WiringKey(v) \in Keys /\ doc[g][WiringKey(v)].val \in ValueOf(WiringKey(v))
    BY AllKeys, HeldValues DEF TypeInv
  <2>2. doc[g][WiringKey(v)].val \in WiredFor(tasked)[WiringKey(v)]
    BY <2>1 DEF AskedInv, AllValuesIn
  <2>3. \A w \in Versions : WiringKey(v) = WiringKey(w) /\ doc[g][WiringKey(v)].val.state = "wired" =>
          {w} \X doc[g][WiringKey(v)].val.targets \subseteq tasked
    BY <2>1, <2>2, WiringValues
  <2> QED BY <2>3 DEF Wiring
<1>2. Init => TypeInv /\ AskedInv
  BY InitTypes, InitAsked
<1>3. TypeInv /\ AskedInv /\ [Next]_vars => (TypeInv /\ AskedInv)'
  BY StepTypes, StepAsked
<1> QED BY <1>1, <1>2, <1>3, PTL DEF Spec

-----------------------------------------------------------------------------
(***************************************************************************)
(* The story the maps of one replica tell.  It is true of the latest       *)
(* state: each pipeline, which starts there, leaves it true.               *)
(***************************************************************************)

\* Routed is what is active, to its owner and those who may stand in for him.
WholeStory(g) ==
  LET c == Catalog(g)
      r == Revision(g)
  IN /\ c.status = "active" <=> Index(g) # {}
     /\ c.status = "active" =>
          /\ r.active = c.version /\ c.version \in r.versions
          /\ Manifest(g, c.version).owner = c.owner
          /\ c.owner \in Index(g)
          /\ Index(g) \subseteq {c.owner} \union Manifest(g, c.version).standbys

ApprovedStory(g) ==
  LET c == Catalog(g)
  IN c.status = "active" /\ Manifest(g, c.version).risk = "high" => c.approved

\* Unless a publish has failed, nothing of an unpublished capability is left.
OutStory(g) ==
  faults = 0 /\ Revision(g).last = "unpublished" =>
    /\ Index(g) = {} /\ Revision(g).owner = NoAgent
    /\ \A v \in Versions :
         Wiring(g, v).state # "wired" /\ Stage(g, v).status \in {"none", "unwired"}

\* The revision knows the versions there are, and which of them are archived.
ArchiveStory(g) ==
  LET r == Revision(g)
  IN /\ Catalog(g).version \in r.versions \union {NoVersion}
     /\ r.active \in r.versions \union {NoVersion}
     /\ r.archived \subseteq r.versions
     /\ ~reused => r.active \notin r.archived

Story(g) == WholeStory(g) /\ ApprovedStory(g) /\ OutStory(g) /\ ArchiveStory(g)

\* A blank replica tells it.
LEMMA InitStory == Init => \A g \in Gateways : Story(g)
<1> SUFFICES ASSUME Init, NEW g \in Gateways
             PROVE  Story(g)
  OBVIOUS
<1>1. \A k \in Keys : doc[g][k].val = Blank(k)
  BY DEF Init
<1>2. /\ Catalog(g).status = "none" /\ Catalog(g).version = NoVersion /\ Index(g) = {}
      /\ Revision(g).versions = {} /\ Revision(g).active = NoVersion /\ Revision(g).archived = {}
      /\ Revision(g).last = "none"
  <2>1. /\ Catalog(g) = [version |-> NoVersion, owner |-> NoAgent, approved |-> FALSE, status |-> "none"]
        /\ Index(g) = {}
        /\ Revision(g) = [versions |-> {}, active |-> NoVersion, archived |-> {}, owner |-> NoAgent,
                          failedFrom |-> NoAgent, last |-> "none"]
    BY <1>1, AllKeys DEF Catalog, Index, Revision
  <2> QED BY <2>1
<1> QED BY <1>2 DEF Story, WholeStory, ApprovedStory, OutStory, ArchiveStory

\* Publishing.
LEMMA PublishStory ==
  ASSUME TypeInv, NEW g \in Gateways, Story(g), NEW q \in Offers, NEW T \in SUBSET Agents,
         Publish(g, q, T)
  PROVE  Story(g)'
<1> DEFINE ws == PublishWrites(g, q, T)
           v == q.version
<1>1. DocOK /\ ChanOK /\ NoVersion \notin Versions
  BY SetsAssumption DEF TypeInv
<1>2. Writes(g, ws) /\ ws \in Seq(AllWrites)
  BY <1>1, Publishing DEF Publish, IsPipeline
<1>3. /\ v \in Versions /\ q.owner \in Agents /\ q.owner # NoAgent
      /\ q.status \in {"active", "disabled"} /\ q.publisher \in Agents
  BY <1>1, Offered
<1>4. /\ CatalogKey \in Keys /\ IndexKey \in Keys /\ RevisionKey \in Keys /\ ManifestKey(v) \in Keys
  BY <1>3, AllKeys
<1>5. /\ Leaves(ws, CatalogKey, CatalogOf(q))
      /\ Leaves(ws, IndexKey, IF q.status = "active" THEN {q.owner} ELSE {})
      /\ Leaves(ws, ManifestKey(v), ManifestOf(q))
      /\ Leaves(ws, RevisionKey, RevisionWith(g, q))
  BY <1>1, Publishing
<1> HIDE DEF ws
<1>6. /\ doc'[g][CatalogKey].val = CatalogOf(q)
      /\ doc'[g][IndexKey].val = IF q.status = "active" THEN {q.owner} ELSE {}
      /\ doc'[g][ManifestKey(v)].val = ManifestOf(q)
      /\ doc'[g][RevisionKey].val = RevisionWith(g, q)
  BY <1>1, <1>2, <1>4, <1>5, PipelineRuns
<1>7. PICK c : c = CatalogOf(q)
  OBVIOUS
<1>8. /\ c.version = v /\ c.owner = q.owner /\ c.status = q.status
      /\ c.approved = (q.risk = "high" /\ q.approver # NoAgent)
  BY <1>7 DEF CatalogOf
<1>9. PICK m : m = ManifestOf(q)
  OBVIOUS
<1>10. m.owner = q.owner /\ m.risk = q.risk
  BY <1>9 DEF ManifestOf
<1>11. PICK r : r = RevisionWith(g, q)
  OBVIOUS
<1>12. PICK old : old = Revision(g)
  OBVIOUS
<1>13. PICK previous : previous = IF old.active # NoVersion THEN old.active ELSE Catalog(g).version
  OBVIOUS
<1>14. /\ r.versions = old.versions \union {v}
       /\ r.active = IF q.status = "active" THEN v ELSE old.active
       /\ r.archived = old.archived \union ({previous} \ {v, NoVersion})
       /\ r.last = "published"
  BY <1>11, <1>12, <1>13 DEF RevisionWith
<1>15. /\ doc'[g][CatalogKey].val = c /\ doc'[g][ManifestKey(c.version)].val = m
       /\ doc'[g][RevisionKey].val = r
       /\ doc'[g][IndexKey].val = IF q.status = "active" THEN {q.owner} ELSE {}
  BY <1>6, <1>7, <1>8, <1>9, <1>11
<1>16. WholeStory(g)'
  BY <1>3, <1>8, <1>10, <1>14, <1>15 DEF WholeStory, Catalog, Index, Revision, Manifest
<1>17. ApprovedStory(g)'
  <2>1. q.risk = "high" => q.approver # NoAgent
    <3>1. Approved(g, q)
      BY DEF Publish, Passes
    <3>2. Admin[g] \in Agents /\ NoAgent \notin Agents
      BY SetsAssumption
    <3> QED BY <1>3, <3>1, <3>2 DEF Approved
  <2>2. m.risk = "high" => c.approved
    BY <1>8, <1>10, <2>1
  <2> QED BY <1>15, <2>2 DEF ApprovedStory, Catalog, Manifest
<1>18. OutStory(g)'
  BY <1>14, <1>15 DEF OutStory, Revision
<1>19. /\ old.active \in old.versions \union {NoVersion} /\ old.archived \subseteq old.versions
       /\ Catalog(g).version \in old.versions \union {NoVersion} /\ old.versions \subseteq Versions
  <2>1. Revision(g) \in RevisionRecord
    BY <1>1, HeldValues
  <2> QED BY <1>12, <2>1 DEF Story, ArchiveStory, RevisionRecord
<1>20. previous \in old.versions \union {NoVersion}
  BY <1>13, <1>19
<1>21. /\ c.version \in r.versions \union {NoVersion}
       /\ r.active \in r.versions \union {NoVersion}
       /\ r.archived \subseteq r.versions
  BY <1>8, <1>14, <1>19, <1>20
<1>22. ASSUME ~reused'
       PROVE  r.active \notin r.archived
  <2>1. v \notin old.versions /\ q.status = "active"
    BY <1>12, <1>22 DEF Publish
  <2> QED BY <1>3, <1>14, <1>19, <2>1
<1>23. ArchiveStory(g)'
  BY <1>15, <1>21, <1>22 DEF ArchiveStory, Catalog, Revision
<1> QED BY <1>16, <1>17, <1>18, <1>23 DEF Story

\* A publish that is rolled back.
LEMMA FailedStory ==
  ASSUME TypeInv, NEW g \in Gateways, Story(g), NEW q \in Offers, NEW T \in SUBSET Agents,
         NEW n \in 0..4, PublishFails(g, q, T, n), Writes(g, FailedWrites(g, q, T, n))
  PROVE  Story(g)'
<1> DEFINE ws == FailedWrites(g, q, T, n)
           v == q.version
<1>1. DocOK /\ ChanOK /\ NoVersion \notin Versions /\ faults \in Nat
  BY SetsAssumption, BoundsAssumption DEF TypeInv
<1>2. v \in Versions
  BY <1>1, Offered
<1>3. /\ ws \in Seq(AllWrites)
      /\ \A k \in {CatalogKey, IndexKey, RevisionKey, ManifestKey(v)} : Leaves(ws, k, doc[g][k].val)
      /\ \A w \in ToSet(ws) :
           w.key \in {CatalogKey, IndexKey, RevisionKey, StageKey(v), ManifestKey(v), WiringKey(v)}
  BY <1>1, FailedPublishing DEF IsPipeline
<1>4. Writes(g, ws)
  OBVIOUS
<1> HIDE DEF ws
<1>5. \A k \in {CatalogKey, IndexKey, RevisionKey, ManifestKey(v)} : doc'[g][k].val = doc[g][k].val
  <2>1. ManifestKey(v) \in Keys
    BY <1>2, AllKeys
  <2> QED BY <1>1, <1>3, <1>4, <2>1, AllKeys, PipelineRuns
<1>6. ASSUME NEW u \in Versions
      PROVE  doc'[g][ManifestKey(u)].val = doc[g][ManifestKey(u)].val
  <2>1. CASE u = v
    BY <1>5, <2>1
  <2>2. CASE u # v
    <3>1. \A w \in ToSet(ws) : w.key # ManifestKey(u)
      BY <1>3, <2>2, KeyNames
    <3>2. Skips(ws, ManifestKey(u)) /\ ManifestKey(u) \in Keys
      BY <1>3, <3>1, PipelineLeaves, AllKeys
    <3> QED BY <1>1, <1>3, <1>4, <3>2, PipelineRuns
  <2> QED BY <2>1, <2>2
<1>7. /\ doc'[g][CatalogKey].val = Catalog(g) /\ doc'[g][IndexKey].val = Index(g)
      /\ doc'[g][RevisionKey].val = Revision(g)
  BY <1>5 DEF Catalog, Index, Revision
<1>8. Catalog(g).status = "active" => Catalog(g).version \in Versions
  <2>1. Revision(g) \in RevisionRecord
    BY <1>1, HeldValues
  <2> QED BY <2>1 DEF Story, WholeStory, RevisionRecord
<1>9. PICK c : c = Catalog(g)
  OBVIOUS
<1>10. /\ doc'[g][CatalogKey].val = c /\ doc[g][CatalogKey].val = c
       /\ c.status = "active" =>
            doc'[g][ManifestKey(c.version)].val = doc[g][ManifestKey(c.version)].val
       /\ doc'[g][IndexKey].val = doc[g][IndexKey].val
       /\ doc'[g][RevisionKey].val = doc[g][RevisionKey].val
  BY <1>6, <1>7, <1>8, <1>9 DEF Catalog, Index, Revision
<1>11. WholeStory(g)'
  BY <1>10 DEF Story, WholeStory, Catalog, Index, Revision, Manifest
<1>12. ApprovedStory(g)'
  BY <1>10 DEF Story, ApprovedStory, Catalog, Manifest
<1>13. OutStory(g)'
  <2>1. faults' = faults + 1
    BY DEF PublishFails
  <2>2. faults' # 0
    BY <1>1, <2>1
  <2> QED BY <2>2 DEF OutStory
<1>14. ArchiveStory(g)'
  <2>1. reused' = reused
    BY DEF PublishFails
  <2> QED BY <1>10, <2>1 DEF Story, ArchiveStory, Catalog, Revision
<1> QED BY <1>11, <1>12, <1>13, <1>14 DEF Story

\* Unpublishing.
LEMMA UnpublishStory ==
  ASSUME TypeInv, NEW g \in Gateways, Story(g), Unpublish(g)
  PROVE  Story(g)'
<1> DEFINE ws == UnpublishWrites(g)
<1>1. DocOK /\ ChanOK /\ NoVersion \notin Versions
  BY SetsAssumption DEF TypeInv
<1>2. Writes(g, ws) /\ ws \in Seq(AllWrites) /\ Catalog(g).version # NoVersion
  <2>1. Catalog(g).version # NoVersion /\ Writes(g, ws)
    BY Zenon DEF Unpublish, UnpublishWrites
  <2> QED BY <1>1, <2>1, Unpublishing DEF IsPipeline
<1>3. /\ Leaves(ws, CatalogKey, [Catalog(g) EXCEPT !.status = "disabled"])
      /\ Leaves(ws, IndexKey, {}) /\ Leaves(ws, RevisionKey, RevisionWithout(g))
      /\ \A v \in Versions :
           /\ \/ Skips(ws, WiringKey(v)) /\ Wiring(g, v).state # "wired"
              \/ \E x : Leaves(ws, WiringKey(v), x) /\ x.state = "unwired"
           /\ \/ Skips(ws, StageKey(v)) /\ Stage(g, v).status \in {"none", "unwired"}
              \/ \E x : Leaves(ws, StageKey(v), x) /\ x.status = "unwired"
  BY <1>1, <1>2, Unpublishing
<1> HIDE DEF ws
<1>4. /\ doc'[g][CatalogKey].val = [Catalog(g) EXCEPT !.status = "disabled"]
      /\ doc'[g][IndexKey].val = {} /\ doc'[g][RevisionKey].val = RevisionWithout(g)
  BY <1>1, <1>2, <1>3, AllKeys, PipelineRuns
<1>5. ASSUME NEW v \in Versions
      PROVE  /\ doc'[g][WiringKey(v)].val.state # "wired"
             /\ doc'[g][StageKey(v)].val.status \in {"none", "unwired"}
  <2>1. WiringKey(v) \in Keys /\ StageKey(v) \in Keys
    BY AllKeys
  <2>2. doc'[g][WiringKey(v)].val.state # "wired"
    <3>1. CASE Skips(ws, WiringKey(v)) /\ Wiring(g, v).state # "wired"
      BY <1>1, <1>2, <2>1, <3>1, PipelineRuns DEF Wiring
    <3>2. CASE \E x : Leaves(ws, WiringKey(v), x) /\ x.state = "unwired"
      <4>1. PICK x : Leaves(ws, WiringKey(v), x) /\ x.state = "unwired"
        BY <3>2
      <4>2. doc'[g][WiringKey(v)].val = x
        BY <1>1, <1>2, <2>1, <4>1, PipelineRuns
      <4> QED BY <4>1, <4>2
    <3> QED BY <1>3, <3>1, <3>2
  <2>3. doc'[g][StageKey(v)].val.status \in {"none", "unwired"}
    <3>1. CASE Skips(ws, StageKey(v)) /\ Stage(g, v).status \in {"none", "unwired"}
      BY <1>1, <1>2, <2>1, <3>1, PipelineRuns DEF Stage
    <3>2. CASE \E x : Leaves(ws, StageKey(v), x) /\ x.status = "unwired"
      <4>1. PICK x : Leaves(ws, StageKey(v), x) /\ x.status = "unwired"
        BY <3>2
      <4>2. doc'[g][StageKey(v)].val = x
        BY <1>1, <1>2, <2>1, <4>1, PipelineRuns
      <4> QED BY <4>1, <4>2
    <3> QED BY <1>3, <3>1, <3>2
  <2> QED BY <2>2, <2>3
<1>6. PICK old : old = Catalog(g)
  OBVIOUS
<1>7. PICK c : c = [old EXCEPT !.status = "disabled"]
  OBVIOUS
<1>8. c.status = "disabled" /\ c.version = old.version
  <2>1. old \in CatalogRecord
    BY <1>1, <1>6, HeldValues
  <2> QED BY <1>7, <2>1 DEF CatalogRecord
<1>9. PICK before : before = Revision(g)
  OBVIOUS
<1>10. PICK r : r = RevisionWithout(g)
  OBVIOUS
<1>11. /\ r.versions = IF before.versions # {} THEN before.versions ELSE {old.version}
       /\ r.active = IF before.active = old.version THEN NoVersion ELSE before.active
       /\ r.archived = before.archived \union {old.version}
       /\ r.owner = NoAgent
  BY <1>6, <1>9, <1>10 DEF RevisionWithout
<1>12. /\ doc'[g][CatalogKey].val = c /\ doc'[g][IndexKey].val = {} /\ doc'[g][RevisionKey].val = r
  BY <1>4, <1>6, <1>7, <1>10
<1>13. WholeStory(g)' /\ ApprovedStory(g)'
  BY <1>8, <1>12 DEF WholeStory, ApprovedStory, Catalog, Index
<1>14. OutStory(g)'
  BY <1>5, <1>11, <1>12 DEF OutStory, Index, Revision, Wiring, Stage
<1>15. /\ before.active \in before.versions \union {NoVersion} /\ before.archived \subseteq before.versions
       /\ old.version \in before.versions /\ before.versions \subseteq Versions
       /\ ~reused => before.active \notin before.archived
  <2>1. Revision(g) \in RevisionRecord
    BY <1>1, HeldValues
  <2> QED BY <1>2, <1>6, <1>9, <2>1 DEF Story, ArchiveStory, RevisionRecord
<1>16. /\ c.version \in r.versions \union {NoVersion}
       /\ r.active \in r.versions \union {NoVersion}
       /\ r.archived \subseteq r.versions
       /\ ~reused => r.active \notin r.archived
  BY <1>1, <1>8, <1>11, <1>15
<1>17. ArchiveStory(g)'
  <2>1. reused' = reused
    BY DEF Unpublish
  <2> QED BY <1>12, <1>16, <2>1 DEF ArchiveStory, Catalog, Revision
<1> QED BY <1>13, <1>14, <1>17 DEF Story

\* A failover.
LEMMA FailoverStory ==
  ASSUME TypeInv, NEW g \in Gateways, Story(g), NEW live \in SUBSET Agents, Failover(g, live),
         NEW new \in SelectedOwner(g, live), NEW old \in Primary(g),
         Writes(g, FailoverWrites(g, new, old)), Index(g) # {}
  PROVE  Story(g)'
<1> DEFINE ws == FailoverWrites(g, new, old)
<1>1. DocOK /\ ChanOK /\ NoVersion \notin Versions
  BY SetsAssumption DEF TypeInv
<1>2. /\ new \in Agents /\ old \in Agents
      /\ \/ new \in Index(g) \/ new = Catalog(g).owner
         \/ new \in Manifest(g, Catalog(g).version).standbys
  BY <1>1, Candidates
<1>3. /\ ws \in Seq(AllWrites)
      /\ Leaves(ws, IndexKey, Index(g) \union {new})
      /\ \/ Skips(ws, RevisionKey)
         \/ Leaves(ws, RevisionKey, [Revision(g) EXCEPT !.owner = new, !.failedFrom = old])
      /\ \A w \in ToSet(ws) : w.key \in {IndexKey, RevisionKey}
  BY <1>1, <1>2, FailingOver DEF IsPipeline
<1>4. Writes(g, ws)
  OBVIOUS
<1> HIDE DEF ws
<1>5. PICK c : c = Catalog(g)
  OBVIOUS
<1>6. PICK before : before = Revision(g)
  OBVIOUS
<1>7. PICK r : r = doc'[g][RevisionKey].val
  OBVIOUS
<1>8. before \in RevisionRecord /\ before.versions \subseteq Versions
  <2>1. before \in RevisionRecord
    BY <1>1, <1>6, HeldValues
  <2> QED BY <2>1 DEF RevisionRecord
<1>9. /\ r.versions = before.versions /\ r.active = before.active /\ r.archived = before.archived
      /\ r.last = before.last
  <2>1. \/ r = before
        \/ r = [before EXCEPT !.owner = new, !.failedFrom = old]
    BY <1>1, <1>3, <1>4, <1>6, <1>7, AllKeys, PipelineRuns DEF Revision
  <2> QED BY <1>8, <2>1 DEF RevisionRecord
<1>10. doc'[g][IndexKey].val = Index(g) \union {new}
  BY <1>1, <1>3, <1>4, AllKeys, PipelineRuns
<1>11. c.status = "active" /\ c.version \in Versions /\ c.version \in before.versions
  BY <1>5, <1>6, <1>8 DEF Story, WholeStory
<1>12. doc'[g][CatalogKey] = doc[g][CatalogKey]
  <2>1. \A w \in ToSet(ws) : w.key # CatalogKey
    BY <1>3, KeyNames
  <2>2. Skips(ws, CatalogKey)
    BY <1>3, <2>1, PipelineLeaves
  <2> QED BY <1>1, <1>3, <1>4, <2>2, AllKeys, PipelineRuns
<1>13. doc'[g][ManifestKey(c.version)] = doc[g][ManifestKey(c.version)]
  <2>1. \A w \in ToSet(ws) : w.key # ManifestKey(c.version)
    BY <1>3, KeyNames
  <2>2. Skips(ws, ManifestKey(c.version)) /\ ManifestKey(c.version) \in Keys
    BY <1>3, <1>11, <2>1, PipelineLeaves, AllKeys
  <2> QED BY <1>1, <1>3, <1>4, <2>2, PipelineRuns
<1>14. PICK m : m = Manifest(g, c.version)
  OBVIOUS
<1>15. /\ doc'[g][CatalogKey].val = c /\ doc'[g][ManifestKey(c.version)].val = m
       /\ doc'[g][RevisionKey].val = r /\ doc'[g][IndexKey].val = Index(g) \union {new}
  BY <1>5, <1>7, <1>10, <1>12, <1>13, <1>14 DEF Catalog, Manifest
<1>16. /\ before.active = c.version /\ m.owner = c.owner /\ c.owner \in Index(g)
       /\ Index(g) \subseteq {c.owner} \union m.standbys
       /\ m.risk = "high" => c.approved
  BY <1>5, <1>6, <1>11, <1>14 DEF Story, WholeStory, ApprovedStory
<1>17. Index(g) \union {new} \subseteq {c.owner} \union m.standbys
  BY <1>2, <1>5, <1>14, <1>16
<1>18. WholeStory(g)'
  <2>1. PICK i : i = Index(g) \union {new}
    OBVIOUS
  <2>2. i # {} /\ c.owner \in i /\ i \subseteq {c.owner} \union m.standbys /\ doc'[g][IndexKey].val = i
    BY <1>15, <1>16, <1>17, <2>1
  <2> QED BY <1>9, <1>11, <1>15, <1>16, <2>2 DEF WholeStory, Catalog, Index, Revision, Manifest
<1>19. ApprovedStory(g)'
  BY <1>15, <1>16 DEF ApprovedStory, Catalog, Manifest
<1>20. faults' = faults /\ reused' = reused
  BY DEF Failover
<1>21. OutStory(g)'
  <2>1. faults = 0 => before.last # "unpublished"
    BY <1>6 DEF Story, OutStory
  <2> QED BY <1>9, <1>15, <1>20, <2>1 DEF OutStory, Revision
<1>22. ArchiveStory(g)'
  <2>1. /\ c.version \in before.versions \union {NoVersion}
        /\ before.active \in before.versions \union {NoVersion}
        /\ before.archived \subseteq before.versions
        /\ ~reused => before.active \notin before.archived
    BY <1>5, <1>6 DEF Story, ArchiveStory
  <2> QED BY <1>9, <1>15, <1>20, <2>1 DEF ArchiveStory, Catalog, Revision
<1> QED BY <1>18, <1>19, <1>21, <1>22 DEF Story

\* Replicas with the same entries tell the same story.
LEMMA SameStory ==
  ASSUME NEW g \in Gateways, NEW h \in Gateways, \A k \in Keys : doc[g][k] = doc[h][k], Story(h), DocOK
  PROVE  Story(g)
<1>1. /\ Catalog(g) = Catalog(h) /\ Index(g) = Index(h) /\ Revision(g) = Revision(h)
  BY AllKeys DEF Catalog, Index, Revision
<1>2. \A v \in Versions : /\ Manifest(g, v) = Manifest(h, v)
                          /\ Wiring(g, v) = Wiring(h, v) /\ Stage(g, v) = Stage(h, v)
  BY AllKeys DEF Manifest, Wiring, Stage
<1>3. Catalog(h).status = "active" => Catalog(h).version \in Versions
  <2>1. Revision(h) \in RevisionRecord
    BY HeldValues
  <2> QED BY <2>1 DEF Story, WholeStory, RevisionRecord
<1>4. WholeStory(g)
  BY <1>1, <1>2, <1>3 DEF Story, WholeStory
<1>5. ApprovedStory(g)
  BY <1>1, <1>2, <1>3 DEF Story, ApprovedStory
<1>6. OutStory(g)
  BY <1>1, <1>2 DEF Story, OutStory
<1>7. ArchiveStory(g)
  BY <1>1 DEF Story, ArchiveStory
<1> QED BY <1>4, <1>5, <1>6, <1>7 DEF Story

-----------------------------------------------------------------------------
(***************************************************************************)
(* As long as nothing races, one gateway has the latest entry of every     *)
(* key, and with them the story.                                           *)
(***************************************************************************)

Latest(y) ==
  \A k \in Keys : \E e :
    /\ doc[y][k] = e /\ Upper(e, k) /\ Stays(e, y, k)
    /\ \A h \in Gateways : Gets(e, h, k)

LatestInv == ~raced /\ Gateways # {} => \E y \in Gateways : Latest(y) /\ Story(y)

\* Who has received everything has what the latest gateway has.
LEMMA SettledHasLatest ==
  ASSUME NEW y \in Gateways, Latest(y), NEW g \in Gateways, \A h \in Gateways : chan[h][g] = <<>>
  PROVE  \A k \in Keys : doc[g][k] = doc[y][k]
<1> SUFFICES ASSUME NEW k \in Keys
             PROVE  doc[g][k] = doc[y][k]
  OBVIOUS
<1>1. Gets(doc[y][k], g, k)
  BY DEF Latest
<1>2. \A x \in Gateways, i \in Nat : ~Pending(x, g, i, k)
  BY DEF Pending
<1> QED BY <1>1, <1>2 DEF Gets, Arrives

LEMMA InitLatest == Init => LatestInv
<1> SUFFICES ASSUME Init, NEW y \in Gateways
             PROVE  Latest(y) /\ Story(y)
  BY DEF LatestInv
<1>1. DocOK
  BY InitTypes DEF TypeInv
<1>2. ASSUME NEW g \in Gateways, NEW h \in Gateways, NEW i \in Nat, NEW k \in Keys
      PROVE  ~Pending(g, h, i, k)
  <2>1. chan[g][h] = <<>>
    BY DEF Init
  <2> QED BY <2>1 DEF Pending
<1>3. ASSUME NEW k \in Keys, NEW e, e = doc[y][k]
      PROVE  /\ doc[y][k] = e /\ Upper(e, k) /\ Stays(e, y, k)
             /\ \A h \in Gateways : Gets(e, h, k)
  <2>1. \A h \in Gateways : doc[h][k] = e
    BY <1>3 DEF Init
  <2>2. IsEntry(e, k) /\ Includes(e, e)
    BY <1>1, <1>3, IncludesOrder DEF DocOK
  <2>3. \A h \in Gateways : Stays(e, h, k)
    BY <1>2 DEF Stays
  <2>4. Upper(e, k)
    BY <1>2, <2>1, <2>2 DEF Upper
  <2> QED BY <1>3, <2>1, <2>3, <2>4 DEF Gets
<1>4. Latest(y)
  BY <1>3 DEF Latest
<1> QED BY <1>4, InitStory

\* A pipeline that starts from the latest state makes the next one.
LEMMA RunMakesLatest ==
  ASSUME DocOK, ChanOK, NEW y \in Gateways, Latest(y), NEW g \in Gateways,
         \A h \in Gateways : chan[h][g] = <<>>, NEW ws \in Seq(AllWrites), Runs(g, ws)
  PROVE  Latest(g)'
<1>1. Writes(g, ws) /\ ErasesBlank(g, ws)
  <2>1. \A j \in DOMAIN ws : ws[j] \in ToSet(ws)
    BY DEF ToSet
  <2> QED BY <2>1 DEF Runs, IsPipeline, ErasesBlank
<1>2. ASSUME NEW k \in Keys, NEW new, new = doc'[g][k]
      PROVE  /\ Upper(new, k)' /\ Stays(new, g, k)'
             /\ \A h \in Gateways : Gets(new, h, k)'
  <2>1. doc[g][k] = doc[y][k]
    BY SettledHasLatest
  <2>2. Upper(doc[y][k], k) /\ \A h \in Gateways : Gets(doc[y][k], h, k)
    BY DEF Latest
  <2>3. Upper(doc[g][k], k) /\ \A h \in Gateways : Gets(doc[g][k], h, k)
    BY <2>1, <2>2
  <2> QED BY <1>1, <1>2, <2>3, WriteMakesLatest
<1>3. ASSUME NEW k \in Keys
      PROVE  \E e : /\ doc'[g][k] = e /\ Upper(e, k)' /\ Stays(e, g, k)'
                    /\ \A h \in Gateways : Gets(e, h, k)'
  <2>1. PICK new : new = doc'[g][k]
    OBVIOUS
  <2> QED BY <1>2, <2>1
<1> QED BY <1>3 DEF Latest

\* A receipt changes neither the latest entries nor their gateway.
LEMMA ReceiveLeavesLatest ==
  ASSUME DocOK, ChanOK, NEW y \in Gateways, Latest(y), NEW g \in Gateways, NEW h \in Gateways,
         Receive(g, h)
  PROVE  Latest(y)' /\ doc'[y] = doc[y]
<1>1. ASSUME NEW k \in Keys
      PROVE  \E e : /\ doc'[y][k] = e /\ doc[y][k] = e /\ Upper(e, k)' /\ Stays(e, y, k)'
                    /\ \A x \in Gateways : Gets(e, x, k)'
  <2>1. PICK e : /\ doc[y][k] = e /\ Upper(e, k) /\ Stays(e, y, k)
                 /\ \A x \in Gateways : Gets(e, x, k)
    BY DEF Latest
  <2>2. IsEntry(e, k)
    BY <2>1 DEF DocOK
  <2>3. /\ Upper(e, k)'
        /\ \A x \in Gateways : Gets(e, x, k) => Gets(e, x, k)'
        /\ \A x \in Gateways : doc[x][k] = e /\ Stays(e, x, k) => doc'[x][k] = e /\ Stays(e, x, k)'
    BY <2>1, <2>2, ReceiveKeepsLatest
  <2> QED BY <2>1, <2>3
<1>2. Latest(y)'
  BY <1>1 DEF Latest
<1>3. doc'[y] = doc[y]
  <2>1. DocOK'
    BY ReceiveIs
  <2>2. doc[y] = [k \in Keys |-> doc[y][k]] /\ doc'[y] = [k \in Keys |-> doc'[y][k]]
    BY <2>1 DEF DocOK
  <2>3. \A k \in Keys : doc'[y][k] = doc[y][k]
    BY <1>1
  <2> QED BY <2>2, <2>3
<1> QED BY <1>2, <1>3

LEMMA StepLatest == TypeInv /\ LatestInv /\ [Next]_vars => LatestInv'
<1> SUFFICES ASSUME TypeInv, LatestInv, [Next]_vars, ~raced', Gateways # {}
             PROVE  \E y \in Gateways : Latest(y)' /\ Story(y)'
  BY DEF LatestInv
<1>1. DocOK /\ ChanOK
  BY DEF TypeInv
<1>2. ASSUME NEW g \in Gateways, NEW ws \in Seq(AllWrites), Runs(g, ws), ~raced,
             \A h \in Gateways : chan[h][g] = <<>>
      PROVE  Latest(g)' /\ Story(g) /\ Writes(g, ws)
  <2>1. PICK y \in Gateways : Latest(y) /\ Story(y)
    BY <1>2 DEF LatestInv
  <2>2. \A k \in Keys : doc[g][k] = doc[y][k]
    BY <1>2, <2>1, SettledHasLatest
  <2>3. Story(g)
    BY <1>1, <2>1, <2>2, SameStory
  <2>4. Latest(g)'
    BY <1>1, <1>2, <2>1, RunMakesLatest
  <2> QED BY <1>2, <2>3, <2>4 DEF Runs
<1>3. ASSUME NEW g \in Gateways, NEW ws \in Seq(AllWrites), Runs(g, ws), ~raced,
             \A h \in Gateways : chan[h][g] = <<>>,
             \/ \E q \in Offers, T \in SUBSET Agents :
                  Publish(g, q, T) /\ ws = PublishWrites(g, q, T)
             \/ \E q \in Offers, T \in SUBSET Agents, n \in 0..4 :
                  PublishFails(g, q, T, n) /\ ws = FailedWrites(g, q, T, n)
             \/ Unpublish(g) /\ ws = UnpublishWrites(g)
             \/ \E live \in SUBSET Agents :
                  /\ Failover(g, live)
                  /\ \E new \in SelectedOwner(g, live), old \in Primary(g) :
                       /\ new \in Agents /\ old \in Agents /\ Index(g) # {}
                       /\ ws = FailoverWrites(g, new, old)
      PROVE  Latest(g)' /\ Story(g)'
  <2>1. Latest(g)' /\ Story(g) /\ Writes(g, ws)
    BY <1>2, <1>3
  <2>2. Story(g)'
    BY <1>3, <2>1, PublishStory, FailedStory, UnpublishStory, FailoverStory
  <2> QED BY <2>1, <2>2
<1>4. ASSUME NEW y \in Gateways, Latest(y), Story(y), NEW g \in Gateways, NEW h \in Gateways, Receive(g, h)
      PROVE  Latest(y)' /\ Story(y)'
  <2>1. Latest(y)' /\ doc'[y] = doc[y]
    BY <1>1, <1>4, ReceiveLeavesLatest
  <2>2. faults' = faults /\ reused' = reused
    BY <1>4 DEF Receive, histVars
  <2>3. Story(y)'
    BY <1>4, <2>1, <2>2 DEF Story, WholeStory, ApprovedStory, OutStory, ArchiveStory,
                            Catalog, Index, Revision, Manifest, Wiring, Stage
  <2> QED BY <2>1, <2>3
<1>5. ASSUME UNCHANGED <<doc, chan, histVars>>, NEW y \in Gateways, Latest(y), Story(y)
      PROVE  Latest(y)' /\ Story(y)'
  <2>1. Latest(y)'
    <3>1. doc' = doc /\ chan' = chan
      BY <1>5
    <3>2. ASSUME NEW e, NEW x \in Gateways, NEW k \in Keys
          PROVE  /\ Upper(e, k) => Upper(e, k)'
                 /\ Stays(e, x, k) => Stays(e, x, k)'
                 /\ Gets(e, x, k) => Gets(e, x, k)'
      <4>1. Upper(e, k) => Upper(e, k)'
        BY <3>1 DEF Upper, Pending, Includes
      <4>2. Stays(e, x, k) => Stays(e, x, k)'
        BY <3>1 DEF Stays, Pending, Includes
      <4>3. \A z \in Gateways, i \in Nat : Arrives(e, x, k, z, i) => Arrives(e, x, k, z, i)'
        BY <3>1 DEF Arrives, Pending, Includes
      <4> QED BY <3>1, <4>1, <4>2, <4>3 DEF Gets
    <3> QED BY <1>5, <3>1, <3>2 DEF Latest
  <2>2. doc'[y] = doc[y] /\ faults' = faults /\ reused' = reused
    BY <1>5 DEF histVars
  <2>3. Story(y)'
    BY <1>5, <2>2 DEF Story, WholeStory, ApprovedStory, OutStory, ArchiveStory,
                      Catalog, Index, Revision, Manifest, Wiring, Stage
  <2> QED BY <2>1, <2>3
<1>6. CASE \E g, h \in Gateways : Receive(g, h)
  <2>1. ~raced
    BY <1>6 DEF Receive, histVars
  <2> QED BY <1>4, <1>6, <2>1 DEF LatestInv
<1>7. CASE (\E g \in Gateways : Rehydrate(g)) \/ UNCHANGED vars
  <2>1. UNCHANGED <<doc, chan, histVars>>
    BY <1>7 DEF Rehydrate, vars
  <2>2. ~raced
    BY <2>1 DEF histVars
  <2> QED BY <1>5, <2>1, <2>2 DEF LatestInv
<1> QED BY <1>3, <1>6, <1>7, Steps

-----------------------------------------------------------------------------
(***************************************************************************)
(* What every replica says that has received everything.                   *)
(***************************************************************************)

LEMMA SettledStory ==
  ASSUME TypeInv, LatestInv, NEW g \in Gateways, Settled(g)
  PROVE  Story(g)
<1>1. PICK y \in Gateways : Latest(y) /\ Story(y)
  BY DEF LatestInv, Settled
<1>2. \A k \in Keys : doc[g][k] = doc[y][k]
  BY <1>1, SettledHasLatest DEF Settled
<1> QED BY <1>1, <1>2, SameStory DEF TypeInv

\* As long as nothing races, the latest state is on some gateway and on its way to the
\* others, and its maps agree with each other.
THEOREM LatestStateHolds == Spec => [](TypeInv /\ LatestInv)
<1>1. Init => TypeInv /\ LatestInv
  BY InitTypes, InitLatest
<1>2. TypeInv /\ LatestInv /\ [Next]_vars => (TypeInv /\ LatestInv)'
  BY StepTypes, StepLatest
<1> QED BY <1>1, <1>2, PTL DEF Spec

\* Wherever everything has been received, the capability is routed exactly while it is
\* active, in the version the revision calls active and to its owner and his standbys:
\* after publishes, rollbacks, unpublishes and failovers on any gateways.
THEOREM RoutingIsWhole == Spec => []RoutedIsWhole
<1>1. TypeInv /\ LatestInv => RoutedIsWhole
  BY SettledStory DEF RoutedIsWhole, Story, WholeStory
<1> QED BY <1>1, LatestStateHolds, PTL

\* No high-risk version is routed without an approval.
THEOREM HighRiskIsApproved == Spec => []HighRiskApproved
<1>1. TypeInv /\ LatestInv => HighRiskApproved
  BY SettledStory DEF HighRiskApproved, Story, ApprovedStory
<1> QED BY <1>1, LatestStateHolds, PTL

\* Of a capability that was unpublished last nothing is wired, staged or owned.
THEOREM UnpublishedIsGone == Spec => []UnpublishedIsOut
<1>1. TypeInv /\ LatestInv => UnpublishedIsOut
  BY SettledStory DEF UnpublishedIsOut, Story, OutStory
<1> QED BY <1>1, LatestStateHolds, PTL

\* The active version is not archived while every version is published once.
THEOREM ActiveIsNotArchived == Spec => []ActiveNotArchived
<1>1. TypeInv /\ LatestInv => ActiveNotArchived
  BY SettledStory DEF ActiveNotArchived, Story, ArchiveStory
<1> QED BY <1>1, LatestStateHolds, PTL

-----------------------------------------------------------------------------
(***************************************************************************)
(* Make before break.  Between two gateways only one is behind, as long as *)
(* nothing races, and the messages it has yet to receive show it, one      *)
(* after the other, what it will hold.  In each of these views what is     *)
(* active is wired.  (A third gateway may receive the writes of one of the *)
(* other two before what they rest on.)                                    *)
(***************************************************************************)

AtMostTwoGateways == \A x, y, z \in Gateways : x = y \/ y = z \/ x = z

\* After the first i messages of c, a gateway that had d has entry e of key k.
View(c, d, i, k, e) ==
  \/ \E a \in 1..i : /\ c[a].key = k /\ c[a].entry = e
                     /\ \A b \in 1..i : c[b].key = k => b <= a
  \/ (\A a \in 1..i : c[a].key # k) /\ d[k] = e

\* Every message follows what its receiver has then; in the end he has f.
Ordered(c, d) ==
  \A k \in Keys : \A e : \A i \in 1..Len(c) :
    c[i].key = k /\ View(c, d, i - 1, k, e) => Includes(c[i].entry, e)
Ends(c, d, f) ==
  \A k \in Keys : \A e : View(c, d, Len(c), k, e) => e = f[k]

\* A catalog and a wiring that agree: what is active is wired.
ActiveIn(e) == e.val.status = "active"
ViewsWired(c, d) ==
  \A i \in 0..Len(c) : \A e :
    View(c, d, i, CatalogKey, e) /\ ActiveIn(e) =>
      /\ e.val.version \in Versions
      /\ \A w : View(c, d, i, WiringKey(e.val.version), w) => w.val.state = "wired"

AllWired(d) ==
  ActiveIn(d[CatalogKey]) =>
    /\ d[CatalogKey].val.version \in Versions
    /\ d[WiringKey(d[CatalogKey].val.version)].val.state = "wired"

Follows(c, d, f) == Ordered(c, d) /\ Ends(c, d, f) /\ ViewsWired(c, d)

\* What a gateway has itself, and what it has before another one that is behind.
Own(g) == AllWired(doc[g]) /\ chan[g][g] = <<>>
Leads(g, h) == chan[h][g] = <<>> /\ Follows(chan[g][h], doc[h], doc[g])

TwoInv ==
  AtMostTwoGateways /\ ~raced =>
    \A g \in Gateways :
      /\ Own(g)
      /\ \A h \in Gateways \ {g} : /\ Leads(g, h) \/ Leads(h, g)
                                   /\ chan[h][g] = <<>> => Leads(g, h)

\* Before it has received anything, a gateway has what it holds.
LEMMA FirstView ==
  ASSUME NEW c, NEW d, NEW k, NEW e
  PROVE  View(c, d, 0, k, e) <=> e = d[k]
BY DEF View

\* When there is nothing to receive, it does not matter who is behind.
LEMMA Level ==
  ASSUME NEW d, NEW f, \A k \in Keys : d[k] = f[k], AllWired(d)
  PROVE  Follows(<<>>, d, f)
<1>1. PICK c : c = <<>>
  OBVIOUS
<1>2. Len(c) = 0
  BY <1>1
<1>3. Ordered(c, d)
  BY <1>2 DEF Ordered
<1>4. Ends(c, d, f)
  BY <1>2, FirstView DEF Ends
<1>5. ViewsWired(c, d)
  <2>1. \A i \in 0..Len(c) : i = 0
    BY <1>2
  <2> QED BY <2>1, FirstView DEF ViewsWired, AllWired
<1> QED BY <1>1, <1>3, <1>4, <1>5 DEF Follows

\* Receiving the first of n + 1 messages goes on to the next view.
GoesOn(c, d, c2, d2, n) ==
  /\ n \in Nat /\ Len(c) = n + 1 /\ Len(c2) = n /\ \A i \in 1..n : c2[i] = c[i + 1]
  /\ c[1].key \in Keys
  /\ \A k \in Keys : d2[k] = IF k = c[1].key THEN c[1].entry ELSE d[k]

LEMMA NextView ==
  ASSUME NEW c, NEW d, NEW f, NEW c2, NEW d2, NEW n, Follows(c, d, f), GoesOn(c, d, c2, d2, n)
  PROVE  /\ Follows(c2, d2, f) /\ AllWired(d2)
         /\ n = 0 => \A k \in Keys : f[k] = d2[k]
<1>1. /\ n \in Nat /\ Len(c) = n + 1 /\ Len(c2) = n /\ \A i \in 1..n : c2[i] = c[i + 1]
      /\ c[1].key \in Keys
      /\ \A k \in Keys : d2[k] = IF k = c[1].key THEN c[1].entry ELSE d[k]
  BY DEF GoesOn
<1>5. ASSUME NEW i \in 0..n, NEW k \in Keys, NEW e, View(c2, d2, i, k, e)
      PROVE  View(c, d, i + 1, k, e)
  <2>1. i + 1 \in 1..Len(c) /\ i \in Nat
    BY <1>1
  <2>2. \A b \in 1..(i + 1) : b = 1 \/ (b - 1 \in 1..i /\ c2[b - 1] = c[b])
    <3>1. ASSUME NEW b \in 1..(i + 1), b # 1
          PROVE  b - 1 \in 1..n /\ b - 1 \in 1..i /\ (b - 1) + 1 = b
      BY <1>1, <3>1
    <3> QED BY <1>1, <3>1
  <2>3. CASE \E a \in 1..i : /\ c2[a].key = k /\ c2[a].entry = e
                             /\ \A b \in 1..i : c2[b].key = k => b <= a
    <3>1. PICK a \in 1..i : /\ c2[a].key = k /\ c2[a].entry = e
                             /\ \A b \in 1..i : c2[b].key = k => b <= a
      BY <1>1, <2>3
    <3>2. a + 1 \in 1..(i + 1) /\ c[a + 1] = c2[a] /\ a \in Nat /\ a >= 1
      BY <1>1, <2>1
    <3>3. ASSUME NEW b \in 1..(i + 1), c[b].key = k
          PROVE  b <= a + 1
      <4>1. CASE b = 1
        BY <1>1, <3>2, <4>1
      <4>2. CASE b # 1
        <5>1. b - 1 \in 1..i /\ c2[b - 1] = c[b]
          BY <1>1, <2>2, <4>2
        <5>2. b - 1 <= a
          BY <1>1, <3>1, <3>3, <5>1
        <5> QED BY <1>1, <3>2, <5>1, <5>2
      <4> QED BY <1>1, <4>1, <4>2
    <3> QED BY <1>1, <3>1, <3>2, <3>3 DEF View
  <2>4. CASE (\A a \in 1..i : c2[a].key # k) /\ d2[k] = e
    <3>1. \A b \in 1..(i + 1) : c[b].key = k => b = 1
      BY <1>1, <2>2, <2>4
    <3>2. 1 \in 1..(i + 1)
      BY <1>1, <2>1
    <3>3. CASE k = c[1].key
      <4>1. c[1].key = k /\ c[1].entry = e
        BY <1>1, <2>4, <3>3
      <4>2. \A b \in 1..(i + 1) : c[b].key = k => b <= 1
        BY <1>1, <3>1
      <4> QED BY <1>1, <3>2, <4>1, <4>2 DEF View
    <3>4. CASE k # c[1].key
      <4>1. \A b \in 1..(i + 1) : c[b].key # k
        BY <1>1, <3>1, <3>4
      <4> QED BY <1>1, <2>4, <3>4, <4>1 DEF View
    <3> QED BY <1>1, <3>3, <3>4
  <2> QED BY <1>1, <1>5, <2>3, <2>4 DEF View
<1>6. Ordered(c2, d2)
  <2>1. ASSUME NEW k \in Keys, NEW e, NEW i \in 1..n, c2[i].key = k, View(c2, d2, i - 1, k, e)
        PROVE  Includes(c2[i].entry, e)
    <3>1. i - 1 \in 0..n /\ (i - 1) + 1 = i /\ i + 1 \in 1..Len(c) /\ (i + 1) - 1 = i
      BY <1>1
    <3>2. View(c, d, i, k, e)
      BY <1>1, <1>5, <2>1, <3>1
    <3>3. c[i + 1] = c2[i]
      BY <1>1
    <3> QED BY <1>1, <2>1, <3>1, <3>2, <3>3 DEF Follows, Ordered
  <2> QED BY <1>1, <2>1 DEF Ordered
<1>7. Ends(c2, d2, f)
  <2>1. ASSUME NEW k \in Keys, NEW e, View(c2, d2, n, k, e)
        PROVE  e = f[k]
    <3>1. n \in 0..n
      BY <1>1
    <3>2. View(c, d, n + 1, k, e)
      BY <1>1, <1>5, <2>1, <3>1
    <3> QED BY <1>1, <3>2 DEF Follows, Ends
  <2> QED BY <1>1, <2>1 DEF Ends
<1>8. ViewsWired(c2, d2)
  <2>1. ASSUME NEW i \in 0..n, NEW e, View(c2, d2, i, CatalogKey, e), ActiveIn(e)
        PROVE  /\ e.val.version \in Versions
               /\ \A w : View(c2, d2, i, WiringKey(e.val.version), w) => w.val.state = "wired"
    <3>1. i + 1 \in 0..Len(c)
      BY <1>1
    <3>2. View(c, d, i + 1, CatalogKey, e)
      <4>1. PICK k : k = CatalogKey
        BY <1>1
      <4>2. View(c2, d2, i, k, e) /\ k \in Keys
        BY <1>1, <2>1, <4>1, AllKeys
      <4> QED BY <1>1, <1>5, <4>1, <4>2
    <3>3. /\ e.val.version \in Versions
          /\ \A w : View(c, d, i + 1, WiringKey(e.val.version), w) => w.val.state = "wired"
      BY <1>1, <2>1, <3>1, <3>2 DEF Follows, ViewsWired
    <3>4. PICK k : k = WiringKey(e.val.version)
      BY <1>1
    <3>5. k \in Keys
      BY <1>1, <3>3, <3>4, AllKeys
    <3>6. \A w : View(c2, d2, i, k, w) => View(c, d, i + 1, k, w)
      BY <1>1, <1>5, <3>5
    <3> QED BY <1>1, <3>3, <3>4, <3>6
  <2> QED BY <1>1, <2>1 DEF ViewsWired
<1>9. AllWired(d2)
  <2>1. 0 \in 0..Len(c2)
    BY <1>1
  <2>2. \A k : View(c2, d2, 0, k, d2[k])
    BY FirstView
  <2> QED BY <1>1, <1>8, <2>1, <2>2 DEF ViewsWired, AllWired
<1>10. ASSUME n = 0, NEW k \in Keys
       PROVE  f[k] = d2[k]
  <2>1. View(c2, d2, 0, k, d2[k])
    BY FirstView
  <2> QED BY <1>1, <1>7, <1>10, <2>1 DEF Ends
<1> QED BY <1>6, <1>7, <1>8, <1>9, <1>10 DEF Follows

LEMMA ReceiveFollows ==
  ASSUME DocOK, ChanOK, NEW g \in Gateways, NEW h \in Gateways, g # h, Receive(g, h),
         Follows(chan[g][h], doc[h], doc[g])
  PROVE  /\ Follows(chan'[g][h], doc'[h], doc[g]) /\ AllWired(doc'[h])
         /\ chan'[g][h] = <<>> => \A k \in Keys : doc[g][k] = doc'[h][k]
<1> DEFINE m == chan[g][h][1]
           n == Len(chan'[g][h])
<1>1. Received(g, h) /\ m \in AllMessages
  BY ReceiveIs DEF Received
<1>2. /\ Len(chan[g][h]) = n + 1 /\ n \in Nat
      /\ \A i \in 1..n : chan'[g][h][i] = chan[g][h][i + 1]
  BY <1>1 DEF Received
<1>3. m.key \in Keys /\ IsEntry(m.entry, m.key) /\ 1 \in 1..Len(chan[g][h])
  BY <1>1, <1>2 DEF AllMessages
<1>4. \A k \in Keys : doc'[h][k] = IF k = m.key THEN m.entry ELSE doc[h][k]
  <2>1. View(chan[g][h], doc[h], 0, m.key, doc[h][m.key])
    BY FirstView
  <2>2. Includes(m.entry, doc[h][m.key])
    <3>1. 1 - 1 = 0
      OBVIOUS
    <3> QED BY <1>3, <2>1, <3>1 DEF Follows, Ordered
  <2>3. IsEntry(doc[h][m.key], m.key)
    BY <1>3 DEF DocOK
  <2>4. PICK key : key = m.key
    OBVIOUS
  <2>5. PICK f : f = m.entry
    OBVIOUS
  <2>6. PICK erase : erase = m.erase
    OBVIOUS
  <2>7. Merge(key, doc[h][key], f, erase) = f
    BY <1>3, <2>2, <2>3, <2>4, <2>5, MergeIs
  <2>8. \A k \in Keys : doc'[h][k] = IF k = key THEN Merge(key, doc[h][key], f, erase) ELSE doc[h][k]
    BY <1>1, <2>4, <2>5, <2>6 DEF Received
  <2> QED BY <2>4, <2>5, <2>7, <2>8
<1>5. PICK c, c2, d2, l : /\ c = chan[g][h] /\ c2 = chan'[g][h] /\ d2 = doc'[h] /\ l = n
  OBVIOUS
<1>6. /\ Follows(c2, d2, doc[g]) /\ AllWired(d2)
      /\ l = 0 => \A k \in Keys : doc[g][k] = d2[k]
  <2>1. Follows(c, doc[h], doc[g]) /\ GoesOn(c, doc[h], c2, d2, l)
    BY <1>2, <1>3, <1>4, <1>5 DEF GoesOn
  <2> QED BY <2>1, NextView
<1>7. chan'[g][h] = <<>> => n = 0
  BY DEF n
<1> QED BY <1>5, <1>6, <1>7

\* n messages, m more, and all of them.
Joined(c, n, s, m, c2) ==
  /\ n \in Nat /\ m \in Nat /\ Len(c) = n /\ Len(s) = m /\ Len(c2) = n + m
  /\ \A i \in 1..n : c2[i] = c[i]
  /\ \A j \in 1..m : c2[n + j] = s[j]

\* What follows what somebody has follows what he had before.
LEMMA FollowsOn ==
  ASSUME NEW c, NEW d, NEW f, NEW s, NEW f2, NEW c2, NEW n, NEW m,
         Follows(c, d, f), Follows(s, f, f2), Joined(c, n, s, m, c2)
  PROVE  Follows(c2, d, f2)
<1> SUFFICES ASSUME n \in Nat, m \in Nat, Len(c) = n, Len(s) = m, Len(c2) = n + m,
                    \A i \in 1..n : c2[i] = c[i], \A j \in 1..m : c2[n + j] = s[j]
             PROVE  Follows(c2, d, f2)
  BY DEF Joined
<1>1. ASSUME NEW i \in 0..n, NEW k, NEW e, View(c2, d, i, k, e)
      PROVE  View(c, d, i, k, e)
  <2>1. \A a \in 1..i : a \in 1..n /\ c2[a] = c[a]
    OBVIOUS
  <2> QED BY <1>1, <2>1 DEF View
<1>2. ASSUME NEW j \in 0..m, NEW k \in Keys, NEW e, View(c2, d, n + j, k, e)
      PROVE  View(s, f, j, k, e)
  <2>1. /\ \A a \in 1..j : n + a \in 1..(n + j) /\ c2[n + a] = s[a] /\ a \in Nat
        /\ \A a \in 1..n : a \in 1..(n + j) /\ a \in Nat
    OBVIOUS
  <2>2. ASSUME NEW a \in 1..(n + j), a > n
        PROVE  a - n \in 1..j /\ n + (a - n) = a /\ c2[a] = s[a - n]
    <3>1. a - n \in 1..j /\ n + (a - n) = a /\ a - n \in 1..m
      BY <2>2
    <3> QED BY <3>1
  <2>3. CASE \E a \in 1..(n + j) : /\ c2[a].key = k /\ c2[a].entry = e
                                   /\ \A b \in 1..(n + j) : c2[b].key = k => b <= a
    <3>1. PICK a \in 1..(n + j) : /\ c2[a].key = k /\ c2[a].entry = e
                                  /\ \A b \in 1..(n + j) : c2[b].key = k => b <= a
      BY <2>3
    <3>2. CASE a > n
      <4>1. a - n \in 1..j /\ s[a - n].key = k /\ s[a - n].entry = e
        BY <2>2, <3>1, <3>2
      <4>2. ASSUME NEW b \in 1..j, s[b].key = k
            PROVE  b <= a - n
        <5>1. n + b <= a
          BY <2>1, <3>1, <4>2
        <5> QED BY <5>1
      <4> QED BY <4>1, <4>2 DEF View
    <3>3. CASE a <= n
      <4>1. a \in 1..n
        BY <3>3
      <4>2. \A b \in 1..j : s[b].key # k
        <5>1. ASSUME NEW b \in 1..j, s[b].key = k
              PROVE  n + b <= a /\ FALSE
          <6>1. n + b <= a
            BY <2>1, <3>1, <5>1
          <6> QED BY <4>1, <6>1
        <5> QED BY <5>1
      <4>3. View(c2, d, n, k, e)
        <5>1. \A b \in 1..n : c2[b].key = k => b <= a
          BY <2>1, <3>1
        <5> QED BY <3>1, <4>1, <5>1 DEF View
      <4>4. View(c, d, n, k, e)
        <5>1. n \in 0..n
          OBVIOUS
        <5> QED BY <1>1, <4>3, <5>1
      <4>5. e = f[k]
        BY <4>4 DEF Follows, Ends
      <4> QED BY <4>2, <4>5 DEF View
    <3> QED BY <3>2, <3>3
  <2>4. CASE (\A a \in 1..(n + j) : c2[a].key # k) /\ d[k] = e
    <3>1. \A b \in 1..j : s[b].key # k
      BY <2>1, <2>4
    <3>2. View(c2, d, n, k, e)
      BY <2>1, <2>4 DEF View
    <3>3. View(c, d, n, k, e)
      <4>1. n \in 0..n
        OBVIOUS
      <4> QED BY <1>1, <3>2, <4>1
    <3>4. e = f[k]
      BY <3>3 DEF Follows, Ends
    <3> QED BY <3>1, <3>4 DEF View
  <2> QED BY <1>2, <2>3, <2>4 DEF View
<1>3. \A i \in 0..(n + m) : i \in 0..n \/ (i - n \in 0..m /\ n + (i - n) = i)
  OBVIOUS
<1>4. Ordered(c2, d)
  <2>1. ASSUME NEW k \in Keys, NEW e, NEW i \in 1..(n + m), c2[i].key = k, View(c2, d, i - 1, k, e)
        PROVE  Includes(c2[i].entry, e)
    <3>1. CASE i <= n
      <4>1. i \in 1..n /\ i - 1 \in 0..n /\ c2[i] = c[i]
        BY <3>1
      <4>2. View(c, d, i - 1, k, e)
        BY <1>1, <2>1, <4>1
      <4> QED BY <2>1, <4>1, <4>2 DEF Follows, Ordered
    <3>2. CASE i > n
      <4>1. PICK j \in 1..m : i = n + j
        <5>1. i - n \in 1..m /\ i = n + (i - n)
          BY <3>2
        <5> QED BY <5>1
      <4>2. j - 1 \in 0..m /\ i - 1 = n + (j - 1) /\ c2[i] = s[j]
        BY <4>1
      <4>3. View(s, f, j - 1, k, e)
        BY <1>2, <2>1, <4>2
      <4> QED BY <2>1, <4>2, <4>3 DEF Follows, Ordered
    <3> QED BY <3>1, <3>2
  <2> QED BY <2>1 DEF Ordered
<1>5. Ends(c2, d, f2)
  <2>1. ASSUME NEW k \in Keys, NEW e, View(c2, d, n + m, k, e)
        PROVE  e = f2[k]
    <3>1. m \in 0..m
      OBVIOUS
    <3>2. View(s, f, m, k, e)
      BY <1>2, <2>1, <3>1
    <3> QED BY <3>2 DEF Follows, Ends
  <2> QED BY <2>1 DEF Ends
<1>6. ViewsWired(c2, d)
  <2>1. ASSUME NEW i \in 0..(n + m), NEW e, View(c2, d, i, CatalogKey, e), ActiveIn(e)
        PROVE  /\ e.val.version \in Versions
               /\ \A w : View(c2, d, i, WiringKey(e.val.version), w) => w.val.state = "wired"
    <3>1. PICK cat, wir : cat = CatalogKey /\ wir = WiringKey(e.val.version)
      OBVIOUS
    <3>2. cat \in Keys /\ (e.val.version \in Versions => wir \in Keys)
      BY <3>1, AllKeys
    <3>3. CASE i \in 0..n
      <4>1. View(c, d, i, cat, e)
        BY <1>1, <2>1, <3>1, <3>3
      <4>2. e.val.version \in Versions /\ \A w : View(c, d, i, wir, w) => w.val.state = "wired"
        BY <2>1, <3>1, <3>3, <4>1 DEF Follows, ViewsWired
      <4>3. \A w : View(c2, d, i, wir, w) => View(c, d, i, wir, w)
        BY <1>1, <3>3
      <4> QED BY <3>1, <4>2, <4>3
    <3>4. CASE i - n \in 0..m /\ n + (i - n) = i
      <4>1. PICK j \in 0..m : i = n + j
        BY <3>4
      <4>2. View(s, f, j, cat, e)
        BY <1>2, <2>1, <3>1, <3>2, <4>1
      <4>3. e.val.version \in Versions /\ \A w : View(s, f, j, wir, w) => w.val.state = "wired"
        BY <2>1, <3>1, <4>1, <4>2 DEF Follows, ViewsWired
      <4>4. \A w : View(c2, d, i, wir, w) => View(s, f, j, wir, w)
        BY <1>2, <3>2, <4>1, <4>3
      <4> QED BY <3>1, <4>3, <4>4
    <3> QED BY <1>3, <3>3, <3>4
  <2> QED BY <2>1 DEF ViewsWired
<1> QED BY <1>4, <1>5, <1>6 DEF Follows

-----------------------------------------------------------------------------
(***************************************************************************)
(* What a pipeline sends shows wired versions only.                        *)
(***************************************************************************)

\* What a pipeline sends.
Sent(g, ws) == [j \in 1..Len(ws) |-> Message(g, ws, j)]

\* No version is unwired, and none becomes active before it is wired.
WiredBy(g, ws, j, v) ==
  Wiring(g, v).state = "wired" \/ \E i \in 1..j : ws[i].key = WiringKey(v)
WiresFirst(g, ws) ==
  /\ \A j \in 1..Len(ws) : \A v \in Versions :
       ws[j].key = WiringKey(v) => ws[j].val.state = "wired"
  /\ \A j \in 1..Len(ws) : ws[j].key = CatalogKey /\ ws[j].val.status = "active" =>
       ws[j].val.version \in Versions /\ WiredBy(g, ws, j, ws[j].val.version)

\* The first write switches the capability off, and none on again.
SwitchesOff(ws) ==
  /\ Len(ws) >= 1 /\ ws[1].key = CatalogKey
  /\ \A j \in 1..Len(ws) : ws[j].key = CatalogKey => ws[j].val.status # "active"

LEMMA SentIs ==
  ASSUME DocOK, NEW g \in Gateways, NEW ws \in Seq(AllWrites)
  PROVE  /\ Len(Sent(g, ws)) = Len(ws) /\ Len(ws) \in Nat
         /\ \A j \in 1..Len(ws) :
              /\ Sent(g, ws)[j].key = ws[j].key /\ ws[j].key \in Keys
              /\ Sent(g, ws)[j].entry = EntryAfter(g, ws, j)
              /\ Sent(g, ws)[j].entry.val = ws[j].val
<1>1. Len(ws) \in Nat /\ DOMAIN ws = 1..Len(ws)
  OBVIOUS
<1>2. Len(Sent(g, ws)) = Len(ws) /\ \A j \in 1..Len(ws) : Sent(g, ws)[j] = Message(g, ws, j)
  BY <1>1 DEF Sent
<1>3. ASSUME NEW j \in 1..Len(ws)
      PROVE  /\ Message(g, ws, j).key = ws[j].key /\ ws[j].key \in Keys
             /\ Message(g, ws, j).entry = EntryAfter(g, ws, j)
             /\ EntryAfter(g, ws, j).val = ws[j].val
  <2>1. j \in DOMAIN ws
    BY <1>1
  <2>2. EntryAfter(g, ws, j).val = ws[j].val /\ ws[j].key \in Keys
    BY <2>1, EntriesAfter
  <2>3. Message(g, ws, j).key = ws[j].key /\ Message(g, ws, j).entry = EntryAfter(g, ws, j)
    BY DEF Message
  <2> QED BY <2>2, <2>3
<1> QED BY <1>1, <1>2, <1>3

\* Wiring first keeps all the views wired, and so does switching off first.
LEMMA SafeViews ==
  ASSUME DocOK, NEW g \in Gateways, NEW ws \in Seq(AllWrites), AllWired(doc[g]),
         WiresFirst(g, ws) \/ SwitchesOff(ws)
  PROVE  ViewsWired(Sent(g, ws), doc[g])
<1> DEFINE n == Len(ws)
<1>1. PICK s, d : s = Sent(g, ws) /\ d = doc[g]
  OBVIOUS
<1>2. /\ Len(s) = n /\ n \in Nat
      /\ \A j \in 1..n : s[j].key = ws[j].key /\ s[j].entry.val = ws[j].val
  BY <1>1, SentIs
<1>3. ASSUME NEW i \in 0..n, NEW e, View(s, d, i, CatalogKey, e), ActiveIn(e)
      PROVE  /\ e.val.version \in Versions
             /\ \A w : View(s, d, i, WiringKey(e.val.version), w) => w.val.state = "wired"
  <2> DEFINE v == e.val.version
  <2>1. \A a \in 1..i : a \in 1..n
    BY <1>2
  <2>2. CASE \E a \in 1..i : s[a].key = CatalogKey /\ s[a].entry = e
    <3>1. PICK a \in 1..i : s[a].key = CatalogKey /\ s[a].entry = e
      BY <2>2
    <3>2. a \in 1..n /\ ws[a].key = CatalogKey /\ ws[a].val = e.val /\ e.val.status = "active"
      BY <1>2, <1>3, <2>1, <3>1 DEF ActiveIn
    <3>3. WiresFirst(g, ws)
      BY <3>2 DEF SwitchesOff
    <3>4. v \in Versions /\ WiredBy(g, ws, a, v)
      BY <3>2, <3>3 DEF WiresFirst
    <3>5. ASSUME NEW w, View(s, d, i, WiringKey(v), w)
          PROVE  w.val.state = "wired"
      <4>1. CASE \E b \in 1..i : s[b].key = WiringKey(v) /\ s[b].entry = w
        BY <1>2, <2>1, <3>3, <3>4, <4>1 DEF WiresFirst
      <4>2. CASE (\A b \in 1..i : s[b].key # WiringKey(v)) /\ d[WiringKey(v)] = w
        <5>1. ~\E b \in 1..a : ws[b].key = WiringKey(v)
          <6>1. \A b \in 1..a : b \in 1..i
            OBVIOUS
          <6> QED BY <1>2, <2>1, <4>2, <6>1
        <5>2. Wiring(g, v).state = "wired"
          BY <3>4, <5>1 DEF WiredBy
        <5> QED BY <1>1, <4>2, <5>2 DEF Wiring
      <4> QED BY <3>5, <4>1, <4>2 DEF View
    <3> QED BY <3>4, <3>5
  <2>3. CASE (\A a \in 1..i : s[a].key # CatalogKey) /\ d[CatalogKey] = e
    <3>1. v \in Versions /\ d[WiringKey(v)].val.state = "wired"
      BY <1>1, <1>3, <2>3 DEF AllWired
    <3>2. ASSUME NEW w, View(s, d, i, WiringKey(v), w)
          PROVE  w.val.state = "wired"
      <4>1. CASE \E b \in 1..i : s[b].key = WiringKey(v) /\ s[b].entry = w
        <5>1. PICK b \in 1..i : s[b].key = WiringKey(v) /\ s[b].entry = w
          BY <4>1
        <5>2. b \in 1..n /\ ws[b].key = WiringKey(v) /\ ws[b].val = w.val
          BY <1>2, <2>1, <5>1
        <5>3. ~SwitchesOff(ws)
          <6>1. SwitchesOff(ws) => s[1].key = CatalogKey /\ 1 \in 1..i
            <7>1. 1 \in 1..i /\ (Len(ws) >= 1 => 1 \in 1..n)
              BY <1>2, <5>1
            <7> QED BY <1>2, <7>1 DEF SwitchesOff
          <6> QED BY <2>3, <6>1
        <5> QED BY <3>1, <5>2, <5>3 DEF WiresFirst
      <4>2. CASE d[WiringKey(v)] = w
        BY <3>1, <4>2
      <4> QED BY <3>2, <4>1, <4>2 DEF View
    <3> QED BY <3>1, <3>2
  <2> QED BY <1>3, <2>2, <2>3 DEF View
<1> HIDE DEF n
<1>4. ViewsWired(s, d)
  BY <1>2, <1>3 DEF ViewsWired
<1> QED BY <1>1, <1>4

\* A pipeline with such views leads from what its gateway had to what it has.
LEMMA SentFollows ==
  ASSUME DocOK, ChanOK, NEW g \in Gateways, NEW ws \in Seq(AllWrites), Writes(g, ws),
         ViewsWired(Sent(g, ws), doc[g])
  PROVE  Follows(Sent(g, ws), doc[g], doc'[g]) /\ AllWired(doc'[g])
<1> DEFINE n == Len(ws)
<1>1. PICK s, d, d2 : s = Sent(g, ws) /\ d = doc[g] /\ d2 = doc'[g]
  OBVIOUS
<1>2. /\ Len(s) = n /\ n \in Nat /\ DOMAIN ws = 1..n
      /\ \A j \in 1..n : /\ s[j].key = ws[j].key /\ ws[j].key \in Keys
                         /\ s[j].entry = EntryAfter(g, ws, j)
  BY <1>1, SentIs
<1>3. WroteDoc(g, ws)
  BY WritesAre
<1>4. ASSUME NEW k \in Keys, NEW e, View(s, d, n, k, e)
      PROVE  e = d2[k]
  <2>1. CASE \E a \in 1..n : /\ s[a].key = k /\ s[a].entry = e
                             /\ \A b \in 1..n : s[b].key = k => b <= a
    <3>1. PICK a \in 1..n : /\ s[a].key = k /\ s[a].entry = e
                            /\ \A b \in 1..n : s[b].key = k => b <= a
      BY <2>1
    <3>2. IsLast(ws, k, a)
      BY <1>2, <3>1 DEF IsLast
    <3> QED BY <1>1, <1>2, <1>3, <3>1, <3>2 DEF WroteDoc
  <2>2. CASE (\A a \in 1..n : s[a].key # k) /\ d[k] = e
    <3>1. Skips(ws, k)
      BY <1>2, <2>2 DEF Skips
    <3> QED BY <1>1, <1>3, <2>2, <3>1 DEF WroteDoc
  <2> QED BY <1>4, <2>1, <2>2 DEF View
<1>5. ASSUME NEW k \in Keys
      PROVE  View(s, d, n, k, d2[k])
  <2>1. CASE Skips(ws, k)
    <3>1. \A a \in 1..n : s[a].key # k
      BY <1>2, <2>1 DEF Skips
    <3>2. d2[k] = d[k]
      BY <1>1, <1>3, <2>1 DEF WroteDoc
    <3> QED BY <3>1, <3>2 DEF View
  <2>2. CASE \E j : IsLast(ws, k, j)
    <3>1. PICK j : IsLast(ws, k, j)
      BY <2>2
    <3>2. /\ j \in 1..n /\ s[j].key = k /\ s[j].entry = EntryAfter(g, ws, j)
          /\ \A b \in 1..n : s[b].key = k => b <= j
      BY <1>2, <3>1 DEF IsLast
    <3>3. d2[k] = EntryAfter(g, ws, j)
      BY <1>1, <1>3, <3>1 DEF WroteDoc
    <3> QED BY <3>2, <3>3 DEF View
  <2> QED BY <1>3, <2>1, <2>2 DEF WroteDoc
<1>6. ASSUME NEW k \in Keys, NEW e, NEW i \in 1..n, s[i].key = k, View(s, d, i - 1, k, e)
      PROVE  Includes(s[i].entry, e)
  <2>1. i \in DOMAIN ws /\ ws[i].key = k /\ s[i].entry = EntryAfter(g, ws, i)
    BY <1>2, <1>6
  <2>2. CASE \E a \in 1..(i - 1) : s[a].key = k /\ s[a].entry = e
    <3>1. PICK a \in 1..(i - 1) : s[a].key = k /\ s[a].entry = e
      BY <2>2
    <3>2. a \in 1..n /\ a \in DOMAIN ws /\ a <= i
      BY <1>2, <3>1
    <3>3. ws[a].key = ws[i].key /\ e = EntryAfter(g, ws, a)
      BY <1>2, <1>6, <3>1, <3>2
    <3>4. Includes(EntryAfter(g, ws, i), EntryAfter(g, ws, a))
      BY <2>1, <3>2, <3>3, EntriesAfter
    <3> QED BY <2>1, <3>3, <3>4
  <2>3. CASE d[k] = e
    <3>1. Includes(EntryAfter(g, ws, i), doc[g][ws[i].key])
      BY <2>1, EntriesAfter
    <3> QED BY <1>1, <2>1, <2>3, <3>1
  <2> QED BY <1>6, <2>2, <2>3 DEF View
<1> HIDE DEF n
<1>7. Ordered(s, d)
  BY <1>2, <1>6 DEF Ordered
<1>8. Ends(s, d, d2)
  BY <1>2, <1>4 DEF Ends
<1>9. ViewsWired(s, d)
  BY <1>1
<1>10. AllWired(d2)
  <2>1. ASSUME ActiveIn(d2[CatalogKey])
        PROVE  /\ d2[CatalogKey].val.version \in Versions
               /\ d2[WiringKey(d2[CatalogKey].val.version)].val.state = "wired"
    <3>1. PICK e : e = d2[CatalogKey]
      OBVIOUS
    <3>2. View(s, d, n, CatalogKey, e)
      BY <1>5, <3>1, AllKeys
    <3>3. n \in 0..Len(s)
      BY <1>2
    <3>4. /\ e.val.version \in Versions
          /\ \A w : View(s, d, n, WiringKey(e.val.version), w) => w.val.state = "wired"
      BY <1>9, <2>1, <3>1, <3>2, <3>3 DEF ViewsWired
    <3>5. PICK k \in Keys : k = WiringKey(e.val.version)
      BY <3>4, AllKeys
    <3>6. d2[k].val.state = "wired"
      BY <1>5, <3>4, <3>5
    <3> QED BY <3>1, <3>4, <3>5, <3>6
  <2> QED BY <2>1 DEF AllWired
<1> QED BY <1>1, <1>7, <1>8, <1>9, <1>10 DEF Follows

\* A pipeline that wires first may go on with any that relies on its wiring.
LEMMA WiresFirstJoin ==
  ASSUME NEW g, NEW us \in Seq(AllWrites), NEW ts \in Seq(AllWrites), WiresFirst(g, us),
         \A w \in ToSet(ts) : \A v \in Versions : w.key # WiringKey(v),
         \A w \in ToSet(ts) : w.key = CatalogKey /\ w.val.status = "active" =>
           /\ w.val.version \in Versions
           /\ \/ Wiring(g, w.val.version).state = "wired"
              \/ \E u \in ToSet(us) : u.key = WiringKey(w.val.version)
  PROVE  WiresFirst(g, us \o ts)
<1> DEFINE n == Len(us)
           m == Len(ts)
<1>1. PICK ws : ws = us \o ts
  OBVIOUS
<1>2. /\ n \in Nat /\ m \in Nat /\ Len(ws) = n + m
      /\ \A j \in 1..n : ws[j] = us[j]
      /\ \A j \in 1..(n + m) : j \in 1..n \/ (j - n \in 1..m /\ ws[j] = ts[j - n])
  BY <1>1
<1>3. (\A j \in 1..m : ts[j] \in ToSet(ts)) /\ \A u \in ToSet(us) : \E i \in 1..n : us[i] = u
  BY DEF ToSet
<1>4. ASSUME NEW j \in 1..(n + m), NEW v \in Versions, ws[j].key = WiringKey(v)
      PROVE  ws[j].val.state = "wired"
  BY <1>2, <1>3, <1>4 DEF WiresFirst
<1>5. ASSUME NEW j \in 1..(n + m), ws[j].key = CatalogKey, ws[j].val.status = "active"
      PROVE  ws[j].val.version \in Versions /\ WiredBy(g, ws, j, ws[j].val.version)
  <2> DEFINE v == ws[j].val.version
  <2>1. CASE j \in 1..n
    <3>1. v \in Versions /\ WiredBy(g, us, j, v)
      BY <1>2, <1>5, <2>1 DEF WiresFirst
    <3>2. \A i \in 1..j : ws[i] = us[i]
      BY <1>2, <2>1
    <3> QED BY <3>1, <3>2 DEF WiredBy
  <2>2. CASE j - n \in 1..m /\ ws[j] = ts[j - n]
    <3>1. v \in Versions /\ \/ Wiring(g, v).state = "wired"
                            \/ \E u \in ToSet(us) : u.key = WiringKey(v)
      BY <1>3, <1>5, <2>2
    <3>2. CASE \E u \in ToSet(us) : u.key = WiringKey(v)
      <4>1. PICK i \in 1..n : us[i].key = WiringKey(v)
        BY <1>3, <3>2
      <4>2. i \in 1..j /\ ws[i] = us[i]
        BY <1>2, <2>2
      <4> QED BY <3>1, <4>1, <4>2 DEF WiredBy
    <3> QED BY <3>1, <3>2 DEF WiredBy
  <2> QED BY <1>2, <2>1, <2>2
<1> HIDE DEF n, m
<1>6. WiresFirst(g, ws)
  BY <1>2, <1>4, <1>5 DEF WiresFirst
<1> QED BY <1>1, <1>6

\* A publish wires first, also when it fails and what was there is put back.
LEMMA PublishWiresFirst ==
  ASSUME DocOK, NEW g \in Gateways, NEW q \in Offers, NEW T \in SUBSET Agents, AllWired(doc[g])
  PROVE  /\ WiresFirst(g, PublishWrites(g, q, T))
         /\ \A n \in 0..4 : WiresFirst(g, FailedWrites(g, q, T, n))
<1> DEFINE v == q.version
           first == StageWrites(g, q, T)
           acts == ActivationWrites(g, q)
           part(n) == SubSeq(acts, 1, n)
           back == RestoreWrites(g, q)
           four == {CatalogKey, IndexKey, RevisionKey, ManifestKey(v)}
           Relies(us, w) ==
             /\ \A u \in Versions : w.key # WiringKey(u)
             /\ w.key = CatalogKey /\ w.val.status = "active" =>
                  /\ w.val.version \in Versions
                  /\ \/ Wiring(g, w.val.version).state = "wired"
                     \/ \E u \in ToSet(us) : u.key = WiringKey(w.val.version)
<1>1. v \in Versions /\ CatalogOf(q).version = v
  BY Offered DEF CatalogOf
<1>2. /\ first \in Seq(AllWrites)
      /\ \A w \in ToSet(first) : \/ w.key = StageKey(v)
                                 \/ w.key = WiringKey(v) /\ w.val.state = "wired"
      /\ \/ Wiring(g, v).state = "wired"
         \/ \E w \in ToSet(first) : w.key = WiringKey(v)
  BY Staging DEF IsPipeline
<1>3. /\ acts \in Seq(AllWrites) /\ Len(acts) = 4
      /\ \A w \in ToSet(acts) : w.key \in four /\ (w.key = CatalogKey => w.val = CatalogOf(q))
  BY Activation DEF IsPipeline
<1>4. /\ back \in Seq(AllWrites)
      /\ \A w \in ToSet(back) : w.key \in four /\ w.val = doc[g][w.key].val
  BY Restoring DEF IsPipeline
<1>5. ASSUME NEW n \in 0..4
      PROVE  part(n) \in Seq(AllWrites) /\ ToSet(part(n)) \subseteq ToSet(acts)
  BY <1>3, ElementsOf
<1>6. PublishWrites(g, q, T) = first \o acts
  BY DEF PublishWrites
<1>7. \A n : FailedWrites(g, q, T, n) = first \o part(n) \o back
  BY DEF FailedWrites
<1> HIDE DEF first, acts, part, back
<1>8. WiresFirst(g, first)
  <2>1. \A j \in 1..Len(first) : first[j] \in ToSet(first)
    BY <1>2 DEF ToSet
  <2>2. \A u \in Versions : WiringKey(u) # StageKey(v) /\ WiringKey(u) # CatalogKey
    BY KeyNames
  <2>3. StageKey(v) # CatalogKey /\ WiringKey(v) # CatalogKey
    BY KeyNames
  <2> QED BY <1>2, <2>1, <2>2, <2>3 DEF WiresFirst
<1>9. \A w : w.key \in four => \A u \in Versions : w.key # WiringKey(u)
  BY KeyNames
<1>10. \A w \in ToSet(acts) : Relies(first, w)
  BY <1>1, <1>2, <1>3, <1>9
<1>11. WiresFirst(g, first \o acts)
  BY <1>2, <1>3, <1>8, <1>10, WiresFirstJoin
<1>12. ASSUME NEW n \in 0..4
       PROVE  WiresFirst(g, first \o part(n) \o back)
  <2>1. PICK us : us = first \o part(n)
    OBVIOUS
  <2>2. part(n) \in Seq(AllWrites) /\ \A w \in ToSet(part(n)) : Relies(first, w)
    BY <1>5, <1>10
  <2>3. WiresFirst(g, us)
    BY <1>2, <1>8, <2>1, <2>2, WiresFirstJoin
  <2>4. us \in Seq(AllWrites)
    BY <1>2, <2>1, <2>2
  <2>5. \A w \in ToSet(back) : Relies(us, w)
    <3>1. ASSUME NEW w \in ToSet(back), w.key = CatalogKey, w.val.status = "active"
          PROVE  w.val.version \in Versions /\ Wiring(g, w.val.version).state = "wired"
      <4>1. w.val = doc[g][CatalogKey].val
        BY <1>4, <3>1
      <4> QED BY <3>1, <4>1 DEF AllWired, ActiveIn, Wiring
    <3> QED BY <1>4, <1>9, <3>1
  <2>6. WiresFirst(g, us \o back)
    BY <1>4, <2>3, <2>4, <2>5, WiresFirstJoin
  <2> QED BY <2>1, <2>6
<1> QED BY <1>6, <1>7, <1>11, <1>12

\* Every request shows wired versions only.
LEMMA RequestsSafe ==
  ASSUME TypeInv, NEW g \in Gateways, NEW ws \in Seq(AllWrites), AllWired(doc[g]),
         \/ \E q \in Offers, T \in SUBSET Agents : ws = PublishWrites(g, q, T)
         \/ \E q \in Offers, T \in SUBSET Agents, n \in 0..4 : ws = FailedWrites(g, q, T, n)
         \/ Unpublish(g) /\ ws = UnpublishWrites(g)
         \/ \E new \in Agents, old \in Agents : ws = FailoverWrites(g, new, old)
  PROVE  WiresFirst(g, ws) \/ SwitchesOff(ws)
<1>1. DocOK
  BY DEF TypeInv
<1>2. \A j \in 1..Len(ws) : ws[j] \in ToSet(ws)
  BY DEF ToSet
<1>3. ASSUME NEW q \in Offers, NEW T \in SUBSET Agents, ws = PublishWrites(g, q, T)
      PROVE  WiresFirst(g, ws)
  BY <1>1, <1>3, PublishWiresFirst
<1>4. ASSUME NEW q \in Offers, NEW T \in SUBSET Agents, NEW n \in 0..4, ws = FailedWrites(g, q, T, n)
      PROVE  WiresFirst(g, ws)
  BY <1>1, <1>4, PublishWiresFirst
<1>5. ASSUME Unpublish(g), ws = UnpublishWrites(g)
      PROVE  SwitchesOff(ws)
  <2>1. Catalog(g).version # NoVersion
    BY <1>5 DEF Unpublish
  <2>2. /\ Len(ws) >= 1 /\ ws[1].key = CatalogKey
        /\ \A w \in ToSet(ws) : w.key = CatalogKey => w.val.status = "disabled"
    BY <1>1, <1>5, <2>1, Unpublishing
  <2> QED BY <1>2, <2>2 DEF SwitchesOff
<1>6. ASSUME NEW new \in Agents, NEW old \in Agents, ws = FailoverWrites(g, new, old)
      PROVE  WiresFirst(g, ws)
  <2>1. \A w \in ToSet(ws) : w.key \in {IndexKey, RevisionKey}
    BY <1>1, <1>6, FailingOver
  <2> QED BY <1>2, <2>1, KeyNames DEF WiresFirst
<1> QED BY <1>3, <1>4, <1>5, <1>6

-----------------------------------------------------------------------------
(***************************************************************************)
(* The invariant of two gateways.                                          *)
(***************************************************************************)

\* When the one that is behind has caught up, either leads.
LEMMA CaughtUp ==
  ASSUME NEW g, NEW h, chan[g][h] = <<>>, chan[h][g] = <<>>,
         \A k \in Keys : doc[g][k] = doc[h][k], AllWired(doc[g])
  PROVE  Leads(h, g)
BY Level DEF Leads

\* A pipeline on the gateway that leads.
LEMMA RunLeads ==
  ASSUME TypeInv, NEW g \in Gateways, NEW h \in Gateways, g # h, NEW ws \in Seq(AllWrites),
         Writes(g, ws), WiresFirst(g, ws) \/ SwitchesOff(ws), Own(g), Own(h), Leads(g, h)
  PROVE  /\ Own(g)' /\ Own(h)' /\ Leads(g, h)'
         /\ chan'[g][h] = <<>> => Leads(h, g)'
<1>1. DocOK /\ ChanOK
  BY DEF TypeInv
<1>2. WroteDoc(g, ws) /\ WroteChan(g, ws)
  BY <1>1, WritesAre
<1>3. doc'[h] = doc[h] /\ chan'[h] = chan[h] /\ chan'[g][g] = <<>>
  BY <1>2 DEF WroteDoc, WroteChan
<1>4. AllWired(doc[g]) /\ AllWired(doc[h]) /\ chan[h][h] = <<>>
  BY DEF Own
<1>5. PICK s, f2, c2, c : /\ s = Sent(g, ws) /\ f2 = doc'[g] /\ c2 = chan'[g][h]
                          /\ c = chan[g][h]
  OBVIOUS
<1>6. Follows(s, doc[g], f2) /\ AllWired(f2)
  BY <1>1, <1>4, <1>5, SafeViews, SentFollows
<1>7. Own(g)'
  BY <1>3, <1>5, <1>6 DEF Own
<1>8. Own(h)'
  BY <1>3, <1>4 DEF Own
<1>9. Follows(c2, doc[h], f2)
  <2>1. PICK n, m : n = Len(c) /\ m = Len(ws)
    OBVIOUS
  <2>2. n \in Nat /\ m \in Nat
    <3>1. c \in Seq(AllMessages)
      BY <1>1, <1>5 DEF ChanOK
    <3> QED BY <2>1, <3>1
  <2>3. Len(s) = m /\ \A j \in 1..m : s[j] = Message(g, ws, j)
    BY <1>5, <2>1 DEF Sent
  <2>4. /\ Len(c2) = n + m /\ \A i \in 1..n : c2[i] = c[i]
        /\ \A j \in 1..m : c2[n + j] = s[j]
    BY <1>2, <1>5, <2>1, <2>3 DEF WroteChan
  <2>5. Follows(c, doc[h], doc[g])
    BY <1>5 DEF Leads
  <2>6. Joined(c, n, s, m, c2)
    BY <2>1, <2>3, <2>4, <2>2 DEF Joined
  <2> QED BY <1>6, <2>5, <2>6, FollowsOn
<1>10. Leads(g, h)'
  BY <1>3, <1>5, <1>9 DEF Leads
<1>11. ASSUME chan'[g][h] = <<>>
       PROVE  Leads(h, g)'
  <2>1. Len(c2) = 0
    BY <1>5, <1>11
  <2>2. ASSUME NEW k \in Keys
        PROVE  doc[h][k] = f2[k]
    <3>1. View(c2, doc[h], Len(c2), k, doc[h][k])
      BY <2>1, FirstView
    <3> QED BY <1>9, <3>1 DEF Follows, Ends
  <2>3. Follows(<<>>, f2, doc[h])
    BY <1>6, <2>2, Level
  <2>4. chan'[h][g] = <<>>
    BY <1>3 DEF Leads
  <2> QED BY <1>3, <1>5, <1>11, <2>3, <2>4 DEF Leads
<1> QED BY <1>7, <1>8, <1>10, <1>11

\* A receipt from the gateway that leads.
LEMMA ReceiveLeads ==
  ASSUME TypeInv, NEW g \in Gateways, NEW h \in Gateways, g # h, Receive(g, h),
         Own(g), Own(h), Leads(g, h)
  PROVE  /\ Own(g)' /\ Own(h)' /\ Leads(g, h)'
         /\ chan'[g][h] = <<>> => Leads(h, g)'
<1>1. DocOK /\ ChanOK
  BY DEF TypeInv
<1>2. Received(g, h)
  BY <1>1, ReceiveIs
<1>3. /\ doc'[g] = doc[g] /\ chan'[h][g] = chan[h][g] /\ chan'[g][g] = chan[g][g]
      /\ chan'[h][h] = chan[h][h]
  BY <1>2 DEF Received
<1>4. PICK c2, d2 : c2 = chan'[g][h] /\ d2 = doc'[h]
  OBVIOUS
<1>5. /\ Follows(c2, d2, doc[g]) /\ AllWired(d2)
      /\ c2 = <<>> => \A k \in Keys : doc[g][k] = d2[k]
  BY <1>1, <1>4, ReceiveFollows DEF Leads
<1>6. Own(g)' /\ Own(h)'
  BY <1>3, <1>4, <1>5 DEF Own
<1>7. Leads(g, h)'
  BY <1>3, <1>4, <1>5 DEF Leads
<1>8. ASSUME c2 = <<>>
      PROVE  Leads(h, g)'
  <2>1. Follows(<<>>, doc[g], d2)
    <3>1. AllWired(doc[g])
      BY DEF Own
    <3> QED BY <1>5, <1>8, <3>1, Level
  <2> QED BY <1>3, <1>4, <1>8, <2>1 DEF Leads
<1> QED BY <1>4, <1>6, <1>7, <1>8

LEMMA InitTwo == Init => TwoInv
<1> SUFFICES ASSUME Init
             PROVE  TwoInv
  OBVIOUS
<1>1. ASSUME NEW g \in Gateways, NEW h \in Gateways
      PROVE  chan[g][h] = <<>> /\ \A k \in Keys : doc[g][k] = doc[h][k]
  BY DEF Init
<1>2. ASSUME NEW g \in Gateways
      PROVE  AllWired(doc[g])
  <2>1. doc[g][CatalogKey].val = Blank(CatalogKey)
    BY AllKeys DEF Init
  <2>2. doc[g][CatalogKey].val.status = "none"
    BY <2>1, AllKeys
  <2> QED BY <2>2 DEF AllWired, ActiveIn
<1>3. \A g \in Gateways : Own(g)
  BY <1>1, <1>2 DEF Own
<1>4. \A g \in Gateways, h \in Gateways : Leads(g, h)
  BY <1>1, <1>2, CaughtUp
<1> QED BY <1>3, <1>4 DEF TwoInv

LEMMA StepTwo == TypeInv /\ TwoInv /\ [Next]_vars => TwoInv'
<1> SUFFICES ASSUME TypeInv, TwoInv, [Next]_vars, AtMostTwoGateways, ~raced'
             PROVE  \A g \in Gateways :
                      /\ Own(g)'
                      /\ \A h \in Gateways \ {g} : /\ Leads(g, h)' \/ Leads(h, g)'
                                                   /\ chan'[h][g] = <<>> => Leads(g, h)'
  BY DEF TwoInv, AtMostTwoGateways
<1>1. DocOK /\ ChanOK
  BY DEF TypeInv
<1>2. ASSUME ~raced
      PROVE  \A g \in Gateways :
               /\ Own(g)
               /\ \A h \in Gateways \ {g} : /\ Leads(g, h) \/ Leads(h, g)
                                            /\ chan[h][g] = <<>> => Leads(g, h)
  BY <1>2 DEF TwoInv
<1>3. ASSUME NEW g \in Gateways, Own(g)',
             \A h \in Gateways \ {g} : /\ Own(h)' /\ Leads(g, h)'
                                       /\ chan'[g][h] = <<>> => Leads(h, g)'
      PROVE  \A x \in Gateways :
               /\ Own(x)'
               /\ \A y \in Gateways \ {x} : /\ Leads(x, y)' \/ Leads(y, x)'
                                            /\ chan'[y][x] = <<>> => Leads(x, y)'
  <2>1. \A x, y \in Gateways : x # y => x = g \/ y = g
    BY DEF AtMostTwoGateways
  <2> QED BY <1>3, <2>1
<1>4. ASSUME NEW g \in Gateways, NEW ws \in Seq(AllWrites), Writes(g, ws), ~raced,
             \A h \in Gateways : chan[h][g] = <<>>, WiresFirst(g, ws) \/ SwitchesOff(ws)
      PROVE  \A x \in Gateways :
               /\ Own(x)'
               /\ \A y \in Gateways \ {x} : /\ Leads(x, y)' \/ Leads(y, x)'
                                            /\ chan'[y][x] = <<>> => Leads(x, y)'
  <2>1. \A h \in Gateways \ {g} : Own(g) /\ Own(h) /\ Leads(g, h)
    BY <1>2, <1>4
  <2>2. \A h \in Gateways \ {g} : /\ Own(g)' /\ Own(h)' /\ Leads(g, h)'
                                  /\ chan'[g][h] = <<>> => Leads(h, g)'
    BY <1>4, <2>1, RunLeads
  <2>3. Own(g)'
    <3>1. Own(g)
      BY <1>2, <1>4
    <3>2. PICK d2 : d2 = doc'[g]
      OBVIOUS
    <3>3. AllWired(d2)
      BY <1>1, <1>4, <3>1, <3>2, SafeViews, SentFollows DEF Own
    <3>4. chan'[g][g] = <<>>
      BY <1>1, <1>4, WritesAre DEF WroteChan
    <3> QED BY <3>2, <3>3, <3>4 DEF Own
  <2> QED BY <1>3, <2>2, <2>3
<1>5. ASSUME NEW g \in Gateways, NEW ws \in Seq(AllWrites), Runs(g, ws), ~raced,
             \A h \in Gateways : chan[h][g] = <<>>,
             \/ \E q \in Offers, T \in SUBSET Agents : ws = PublishWrites(g, q, T)
             \/ \E q \in Offers, T \in SUBSET Agents, n \in 0..4 : ws = FailedWrites(g, q, T, n)
             \/ Unpublish(g) /\ ws = UnpublishWrites(g)
             \/ \E new \in Agents, old \in Agents : ws = FailoverWrites(g, new, old)
      PROVE  \A x \in Gateways :
               /\ Own(x)'
               /\ \A y \in Gateways \ {x} : /\ Leads(x, y)' \/ Leads(y, x)'
                                            /\ chan'[y][x] = <<>> => Leads(x, y)'
  <2>1. AllWired(doc[g])
    BY <1>2, <1>5 DEF Own
  <2>2. WiresFirst(g, ws) \/ SwitchesOff(ws)
    BY <1>5, <2>1, RequestsSafe
  <2> QED BY <1>4, <1>5, <2>2 DEF Runs
<1>6. ASSUME NEW g \in Gateways, NEW h \in Gateways, Receive(g, h)
      PROVE  \A x \in Gateways :
               /\ Own(x)'
               /\ \A y \in Gateways \ {x} : /\ Leads(x, y)' \/ Leads(y, x)'
                                            /\ chan'[y][x] = <<>> => Leads(x, y)'
  <2>1. ~raced /\ chan[g][h] # <<>>
    BY <1>6 DEF Receive, histVars
  <2>2. Own(g) /\ Own(h) /\ g # h
    BY <1>2, <2>1 DEF Own
  <2>3. Leads(g, h)
    BY <1>2, <2>1, <2>2 DEF Leads
  <2>4. /\ Own(g)' /\ Own(h)' /\ Leads(g, h)'
        /\ chan'[g][h] = <<>> => Leads(h, g)'
    BY <1>6, <2>2, <2>3, ReceiveLeads
  <2>5. \A x \in Gateways \ {g} : x = h
    BY <2>2 DEF AtMostTwoGateways
  <2> QED BY <1>3, <2>4, <2>5
<1>7. CASE (\E g \in Gateways : Rehydrate(g)) \/ UNCHANGED vars
  <2>1. UNCHANGED <<doc, chan, histVars>>
    BY <1>7 DEF Rehydrate, vars
  <2>2. ~raced
    BY <2>1 DEF histVars
  <2> QED BY <1>2, <2>1, <2>2 DEF Own, Leads
<1> QED BY <1>5, <1>6, <1>7, Steps

\* Make before break: between two gateways, an active capability is never routed to a
\* version that is not wired where it is routed, at any point of receiving publishes,
\* rollbacks, unpublishes and failovers.
THEOREM RoutingIsWired == Spec => [](AtMostTwoGateways => RoutedIsWired)
<1>1. TypeInv /\ TwoInv => (AtMostTwoGateways => RoutedIsWired)
  BY DEF TwoInv, Own, AllWired, ActiveIn, RoutedIsWired, Catalog, Wiring
<1>2. Init => TypeInv /\ TwoInv
  BY InitTypes, InitTwo
<1>3. TypeInv /\ TwoInv /\ [Next]_vars => (TypeInv /\ TwoInv)'
  BY StepTypes, StepTwo
<1> QED BY <1>1, <1>2, <1>3, PTL DEF Spec
=============================================================================
