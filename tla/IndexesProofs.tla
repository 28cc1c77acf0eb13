--------------------------- MODULE IndexesProofs ----------------------------
(* What the indexes promise, for any number of TDocs and of versions, any size of
   a batch and any number of changes, deaths and runs: each index by itself, and
   then any of them as the module Indexes sets them side by side.              *)
EXTENDS Indexes, FiniteSetTheorems, WellFoundedInduction, TLAPS

----------------------------------------------------------------------------
(* The greatest and the least of finite sets of numbers, and the first of them. *)

LessNat == {ss \in Nat \X Nat : ss[1] < ss[2]}
LEMMA LessWF == IsWellFoundedOn(LessNat, Nat)
  BY NatLessThanWellFounded DEF OpToRel, LessNat

LEMMA Least ==
  ASSUME NEW T, T \subseteq Nat, T # {}
  PROVE  Min(T) \in T /\ \A n \in T : Min(T) <= n
<1>1. \E m \in T : \A n \in T : ~ (<<n, m>> \in LessNat)
  BY LessWF, WFMin
<1>2. PICK m \in T : \A n \in T : ~ (<<n, m>> \in LessNat)
  BY <1>1
<1>3. \A n \in T : ~ (n < m)
  BY <1>2 DEF LessNat
<1>4. \A n \in T : m <= n
  BY <1>3
<1> QED
  BY <1>4 DEF Min

\* The smallest subset without a greatest element would have one more than another.
LEMMA Greatest ==
  ASSUME NEW T, T \subseteq Nat, T # {}, IsFiniteSet(T)
  PROVE  Max(T) \in T /\ \A n \in T : n <= Max(T)
<1> DEFINE HasMax(X) == \E m \in X : \A n \in X : n <= m
           Bad == {k \in Nat : \E X \in SUBSET T : X # {} /\ Cardinality(X) = k /\ ~HasMax(X)}
<1>1. Bad = {}
  <2> SUFFICES ASSUME Bad # {} PROVE FALSE
    OBVIOUS
  <2>1. Min(Bad) \in Bad /\ \A n \in Bad : Min(Bad) <= n
    BY Least
  <2>2. PICK X \in SUBSET T : X # {} /\ Cardinality(X) = Min(Bad) /\ ~HasMax(X)
    BY <2>1
  <2>3. PICK x \in X : TRUE
    BY <2>2
  <2> DEFINE Y == X \ {x}
  <2>4. IsFiniteSet(X) /\ Cardinality(X) \in Nat /\ Cardinality(Y) = Cardinality(X) - 1
        /\ IsFiniteSet(Y) /\ Cardinality(Y) \in Nat
    BY FS_Subset, FS_RemoveElement, FS_CardinalityType
  <2>5. Y # {}
    BY <2>2, <2>3
  <2>6. HasMax(Y)
    <3>1. Cardinality(Y) \in Nat /\ ~ (Min(Bad) <= Cardinality(Y))
      BY <2>1, <2>2, <2>4
    <3>2. Cardinality(Y) \notin Bad
      BY <2>1, <3>1
    <3> QED
      BY <2>5, <3>1, <3>2
  <2>7. PICK m \in Y : \A n \in Y : n <= m
    BY <2>6
  <2>8. \A n \in X : n <= (IF x <= m THEN m ELSE x)
    BY <2>7
  <2> QED
    BY <2>2, <2>8
<1>2. HasMax(T)
  BY <1>1, FS_CardinalityType
<1> QED
  BY <1>2 DEF Max

----------------------------------------------------------------------------
(* Vectors: a stamp, a snapshot and what a rebuild will stamp are all behind the
   latest upload, and behind every upload that came after the snapshot.        *)

Behind(x) == x \in Nat /\ x <= V!Latest /\ \A t \in news : x <= date[t]
VectorInv ==
  /\ DOMAIN run = {"pc", "stale", "last", "latest", "todo", "docs"}
  /\ date \in [V!Ids -> Nat] /\ news \subseteq V!Stored
  /\ Behind(stamp) /\ Behind(snap) /\ Behind(run.latest)
  /\ run.pc # "idle" => table = model
  /\ V!OneModel

LEMMA LatestIsLatest ==
  ASSUME NEW d \in [V!Ids -> Nat]
  PROVE  LET l == V!Max({d[t] : t \in V!Ids})
         IN l \in Nat /\ (\A t \in V!Ids : d[t] <= l) /\ \E t \in V!Ids : d[t] = l
<1> DEFINE D == {d[t] : t \in V!Ids}
<1>1. V!Max(D) = Max(D)
  BY DEF V!Max, Max
<1>2. 1 \in V!Ids /\ IsFiniteSet(V!Ids)
  BY SomeTDocs, FS_Interval DEF V!Ids
<1>3. D # {} /\ D \subseteq Nat /\ IsFiniteSet(D)
  <2>1. d \in [V!Ids -> D] /\ \A n \in D : \E t \in V!Ids : d[t] = n
    OBVIOUS
  <2>2. d \in Surjection(V!Ids, D)
    BY <2>1 DEF Surjection
  <2> QED
    BY <1>2, <2>2, FS_Surjection
<1>4. Max(D) \in D /\ \A n \in D : n <= Max(D)
  BY <1>3, Greatest
<1> QED
  BY <1>1, <1>3, <1>4

LEMMA VectorsBegin == V!Init => VectorInv
<1> SUFFICES ASSUME V!Init PROVE VectorInv
  OBVIOUS
<1>1. date = [t \in V!Ids |-> IF t = N THEN 0 ELSE 1] /\ news = {} /\ run = V!Idle
      /\ stamp = 1 /\ snap = 1 /\ V!OneModel
  BY DEF V!Init, V!OneModel, V!Chunks
<1>2. date \in [V!Ids -> Nat] /\ 1 \in V!Ids /\ date[1] = 1
  BY <1>1, SomeTDocs DEF V!Ids
<1>3. V!Latest \in Nat /\ 1 <= V!Latest
  BY <1>2, LatestIsLatest DEF V!Latest
<1> QED
  BY <1>1, <1>2, <1>3 DEF VectorInv, V!Idle, Behind

\* Uploads and later dates take the latest date further, and nothing else does.
LEMMA StaysBehind ==
  ASSUME VectorInv, date' \in [V!Ids -> Nat], \A t \in V!Ids : date[t] <= date'[t],
         \A t \in news' \ news : t \in V!Stored' /\ V!Latest <= date'[t],
         news' \subseteq V!Stored',
         NEW x, Behind(x)
  PROVE  x \in Nat /\ x <= V!Latest' /\ \A t \in news' : x <= date'[t]
<1>1. PICK u \in V!Ids : date[u] = V!Latest
  BY LatestIsLatest DEF V!Latest, VectorInv
<1>2. V!Latest' \in Nat /\ \A t \in V!Ids : date'[t] <= V!Latest'
  BY LatestIsLatest DEF V!Latest
<1>3. x \in Nat /\ V!Latest \in Nat /\ x <= V!Latest /\ date[u] <= date'[u] /\ date'[u] <= V!Latest'
  BY <1>1, <1>2, LatestIsLatest DEF Behind, V!Latest, VectorInv
<1>4. ASSUME NEW t \in news' PROVE x <= date'[t]
  <2>1. t \in V!Ids /\ date'[t] \in Nat
    BY DEF V!Stored
  <2>2. CASE t \in news
    BY <1>3, <2>1, <2>2 DEF Behind, VectorInv
  <2>3. CASE t \notin news
    BY <1>3, <2>1, <2>3
  <2> QED
    BY <2>2, <2>3
<1> QED
  BY <1>1, <1>2, <1>3, <1>4 DEF VectorInv

LEMMA VectorsKept == VectorInv /\ [V!Next]_(V!vars) => VectorInv'
<1> SUFFICES ASSUME VectorInv, [V!Next]_(V!vars) PROVE VectorInv'
  OBVIOUS
<1>l. /\ V!Latest \in Nat /\ \A t \in V!Ids : date[t] <= V!Latest
      /\ date \in [V!Ids -> Nat]
  BY LatestIsLatest DEF V!Latest, VectorInv
<1>1. ASSUME NEW t \in V!Ids, V!SyncRow(t) PROVE VectorInv'
  <2>1. PICK d \in date[t] + 1 .. MaxDate :
          /\ date' = [date EXCEPT ![t] = d]
          /\ news' = IF date[t] = 0 /\ d >= V!Latest THEN news \cup {t} ELSE news
    BY <1>1 DEF V!SyncRow
  <2>2. d \in Nat /\ d > date[t] /\ date[t] \in Nat
    BY <1>l, BoundsNat
  <2>3. /\ date' \in [V!Ids -> Nat] /\ \A u \in V!Ids : date[u] <= date'[u]
        /\ news' \subseteq V!Stored'
        /\ \A u \in news' \ news : u \in V!Stored' /\ V!Latest <= date'[u]
    BY <1>l, <2>1, <2>2 DEF V!Stored, VectorInv
  <2>4. UNCHANGED <<run, table, model, vec, stamp, snap>>
    BY <1>1 DEF V!SyncRow, V!Edit, V!index
  <2>5. Behind(stamp)' /\ Behind(snap)' /\ Behind(run.latest)'
    BY <2>3, <2>4, StaysBehind DEF VectorInv, Behind
  <2> QED
    BY <2>3, <2>4, <2>5 DEF VectorInv, V!OneModel
<1>2. CASE UNCHANGED <<date, news, stamp, snap, run, table, model, vec>>
  BY <1>2 DEF VectorInv, Behind, V!Latest, V!Stored, V!OneModel
<1>3. CASE V!ChangeModel
  BY <1>3 DEF V!ChangeModel, V!Edit, V!index, VectorInv, Behind, V!Latest, V!Stored, V!OneModel
<1>4. ASSUME NEW t \in V!Ids, V!HookWrite(t) PROVE VectorInv'
  BY <1>4 DEF V!HookWrite, V!source, V!Upserted, V!Chunks, VectorInv, Behind, V!Latest, V!Stored,
              V!OneModel
<1>5. ASSUME NEW stale \in BOOLEAN, V!StartResume(stale) PROVE VectorInv'
  BY <1>l, <1>5 DEF V!StartResume, V!Idle, V!source, V!index, VectorInv, Behind, V!Latest, V!Stored,
                    V!OneModel
<1>6. ASSUME NEW stale \in BOOLEAN, V!StartFresh(stale) PROVE VectorInv'
  BY <1>l, <1>6 DEF V!StartFresh, V!Keeps, V!Idle, V!source, VectorInv, Behind, V!Latest, V!Stored,
                    V!OneModel
<1>7. CASE V!TakeSnapshot
  BY <1>l, <1>7 DEF V!TakeSnapshot, V!source, VectorInv, Behind, V!Latest, V!Stored, V!OneModel
<1>8. CASE V!ListIds \/ V!ReadBatch
  <2>1. /\ UNCHANGED <<date, news, stamp, snap, table, model, vec>>
        /\ run.pc # "idle" /\ DOMAIN run' = DOMAIN run /\ run'.latest = run.latest
    BY <1>8 DEF V!ListIds, V!ReadBatch, V!source, V!index, VectorInv
  <2> QED
    BY <2>1 DEF VectorInv, Behind, V!Latest, V!Stored, V!OneModel
<1>9. CASE V!WriteBatch
  BY <1>9 DEF V!WriteBatch, V!source, V!Upserted, V!Chunks, VectorInv, Behind, V!Latest, V!Stored,
              V!OneModel
<1>10. CASE V!SetCursor
  BY <1>10 DEF V!SetCursor, V!source, VectorInv, Behind, V!Latest, V!Stored, V!OneModel
<1>11. CASE V!MarkRebuilt
  BY <1>l, <1>11 DEF V!MarkRebuilt, V!Idle, V!source, VectorInv, Behind, V!Latest, V!Stored,
                     V!OneModel
<1>12. CASE V!Crash
  BY <1>l, <1>12 DEF V!Crash, V!Idle, V!source, V!index, VectorInv, Behind, V!Latest, V!Stored,
                     V!OneModel
<1>13. ASSUME NEW t \in V!Ids, V!Persist(t) \/ V!HookRead(t) \/ V!HookSkipped(t) PROVE VectorInv'
  BY <1>2, <1>13 DEF V!Persist, V!Edit, V!HookRead, V!HookSkipped, V!source, V!index
<1> QED
  BY <1>1, <1>2, <1>3, <1>4, <1>5, <1>6, <1>7, <1>8, <1>9, <1>10, <1>11, <1>12, <1>13
  DEF V!Next, V!Sources, V!Rebuild, V!Hook, V!vars, V!source, V!index

LEMMA LateSeen == VectorInv => V!LateUploadsSeen
<1> SUFFICES ASSUME VectorInv, NEW t \in news, vec[t] = NoRow, ~ (V!Latest > stamp)
             PROVE  stamp # 0 /\ t \in V!Stored /\ date[t] = stamp
  BY DEF V!LateUploadsSeen, V!StatusStale, V!DateStale
<1>1. V!Latest \in Nat /\ stamp \in Nat /\ date[t] \in Nat /\ date[t] <= V!Latest
      /\ date[t] > 0 /\ t \in V!Ids
  BY LatestIsLatest DEF V!Latest, VectorInv, V!Stored, Behind
<1>2. stamp <= date[t]
  BY DEF VectorInv, Behind
<1> QED
  BY <1>1, <1>2 DEF V!Stored

\* Whatever is uploaded, whichever embeddings fail and however rebuilds overlap with
\* hooks, die and are resumed (services/semantic_search_service.py), the status
\* (storage/repositories/vector_sql.py) shows an upload that has no vectors.
THEOREM LateUploadsAreSeen == V!Spec => []V!LateUploadsSeen
  BY VectorsBegin, VectorsKept, LateSeen, PTL DEF V!Spec

\* No rebuild or hook, resumed after a change of the model or not, puts vectors of a
\* model into the table of another (storage/repositories/vector_sql.py).
THEOREM ModelsDoNotMix == V!Spec => []V!OneModel
<1>1. VectorInv => V!OneModel
  BY DEF VectorInv
<1> QED
  BY VectorsBegin, VectorsKept, <1>1, PTL DEF V!Spec

----------------------------------------------------------------------------
(* Text: what a rebuild has to cover is in the index with its stored document, or
   still ahead of the run; and so is what a cursor has passed, once the run that
   moved it is over.                                                           *)

\* A TDoc is in the index as its rows are, all of them or those that freshness compares.
InIndex(t) ==
  /\ fts[t] # NoRow /\ fts[t].doc = content[t] /\ fts[t].policy = F!SlidePolicy(t)
  /\ full => fts[t] = F!IndexText(t)
Due == F!Stored \ (changed \cup bad)

\* How far the run has come, and what is ahead of it.
Reached == IF run.pc \in {"write", "cursor"} THEN F!Max(run.batch) ELSE run.last
Ahead == CASE run.pc = "stamp" -> {}
           [] run.pc # "stamp" /\ run.stale -> run.todo
           [] OTHER -> {t \in F!Ids : t > Reached}
Batched == IF run.pc = "write" THEN run.batch ELSE {}

TextTypes ==
  /\ tdocs \in [F!Ids -> [date : Nat, title : Nat]] /\ content \in [F!Ids -> Nat]
  /\ policy \in {1, 2} /\ full \in BOOLEAN /\ cursor \in Nat
  /\ run \in [pc : {"idle", "list", "batch", "write", "cursor", "stamp"}, stale : BOOLEAN,
              last : Nat, todo : SUBSET F!Ids, batch : SUBSET F!Ids]
TextInv ==
  /\ TextTypes
  /\ run.stale => ~full
  /\ run.pc # "idle" => run.last = cursor
  /\ run.pc = "list" => run.stale
  /\ run.pc \in {"write", "cursor"} => run.batch # {} /\ \A t \in Ahead : t > Reached
  /\ \A t \in Due : t <= cursor => InIndex(t)
  /\ run.pc \notin {"idle", "list"} => \A t \in Due \ (Ahead \cup Batched) : InIndex(t)

FirstIn(T) == {t \in T : Cardinality({u \in T : u < t}) < Batch}
LEMMA FirstOfAll ==
  ASSUME NEW T, T \subseteq Nat, T # {}, IsFiniteSet(T)
  PROVE  /\ FirstIn(T) # {} /\ Max(FirstIn(T)) \in FirstIn(T)
         /\ \A t \in T \ FirstIn(T) : Max(FirstIn(T)) < t
<1> DEFINE Below(t) == {u \in T : u < t}
           First == {t \in T : Cardinality(Below(t)) < Batch}
           m == Max(First)
<1>1. \A t \in T : IsFiniteSet(Below(t)) /\ Cardinality(Below(t)) \in Nat
  BY FS_Subset, FS_CardinalityType
<1>2. Min(T) \in First
  <2>1. Min(T) \in T /\ \A n \in T : Min(T) <= n
    BY Least
  <2>2. ASSUME NEW n \in T PROVE ~ (n < Min(T))
    <3>1. n \in Nat /\ Min(T) \in Nat /\ Min(T) <= n
      BY <2>1
    <3> QED
      BY <3>1
  <2>3. Below(Min(T)) = {}
    BY <2>2
  <2> QED
    BY <2>1, <2>3, FS_EmptySet, SomeTDocs
<1>3. First \subseteq Nat /\ First \subseteq T /\ IsFiniteSet(First)
  BY FS_Subset
<1>4. m \in First
  BY <1>2, <1>3, Greatest
<1> HIDE DEF m
<1>5. ASSUME NEW t \in T, ~ (m < t) PROVE t \in First
  <2>1. t \in Nat /\ m \in Nat /\ t <= m
    BY <1>3, <1>4, <1>5
  <2>2. ASSUME NEW u \in T, u < t PROVE u < m
    <3>1. u \in Nat
      OBVIOUS
    <3> QED
      BY <2>1, <2>2, <3>1
  <2>3. Cardinality(Below(t)) <= Cardinality(Below(m))
    <3>1. Below(t) \subseteq Below(m) /\ IsFiniteSet(Below(m))
      BY <1>1, <1>3, <1>4, <2>2
    <3> QED
      BY <3>1, FS_Subset
  <2>4. Cardinality(Below(m)) < Batch
    BY <1>4
  <2> HIDE DEF Below
  <2>5. Cardinality(Below(t)) < Batch
    BY <1>1, <1>3, <1>4, <2>3, <2>4, SomeTDocs
  <2> QED
    BY <2>5
<1> QED
  BY <1>2, <1>4, <1>5 DEF m, FirstIn

LEMMA TextBatch ==
  ASSUME NEW T \in SUBSET F!Ids, T # {}
  PROVE  /\ F!FirstOf(T) # {} /\ F!FirstOf(T) \subseteq T
         /\ F!Max(F!FirstOf(T)) \in F!FirstOf(T)
         /\ \A t \in T \ F!FirstOf(T) : F!Max(F!FirstOf(T)) < t
<1>1. \A X : F!Cardinality(X) = Cardinality(X)
  BY DEF F!Cardinality, Cardinality
<1>2. \A X : F!Max(X) = Max(X)
  BY DEF F!Max, Max
<1>3. T \subseteq Nat /\ IsFiniteSet(T)
  <2>1. F!Ids \subseteq Nat /\ IsFiniteSet(F!Ids)
    BY FS_Interval, SomeTDocs DEF F!Ids
  <2> QED
    BY <2>1, FS_Subset
<1>4. F!FirstOf(T) = FirstIn(T) /\ FirstIn(T) \subseteq T
  BY <1>1 DEF F!FirstOf, FirstIn
<1>5. /\ FirstIn(T) # {} /\ Max(FirstIn(T)) \in FirstIn(T)
      /\ \A t \in T \ FirstIn(T) : Max(FirstIn(T)) < t
  BY <1>3, FirstOfAll
<1> QED
  BY <1>2, <1>4, <1>5

LEMMA TextBegins == F!Init => TextInv
<1> SUFFICES ASSUME F!Init PROVE TextInv
  OBVIOUS
<1>1. TextTypes
  BY DEF F!Init, F!Idle, TextTypes
<1> QED
  BY <1>1 DEF F!Init, F!Idle, TextInv, Due, F!Stored

\* What changes in the rows of a TDoc is no longer due.
LEMMA TextSources == TextInv /\ F!Sources => TextInv'
<1> SUFFICES ASSUME TextInv, F!Sources PROVE TextInv'
  OBVIOUS
<1>1. TextTypes' /\ UNCHANGED <<fts, cursor, run, full>>
  BY BoundsNat DEF F!Sources, F!Rechunk, F!SyncRow, F!Persist, F!Damage, F!Edit, TextInv, TextTypes
<1>2. ASSUME NEW t \in Due' PROVE t \in Due /\ (InIndex(t) => InIndex(t)')
  <2>1. CASE F!Rechunk
    BY <1>2, <2>1 DEF F!Rechunk, Due, F!Stored, InIndex, F!SlidePolicy, F!IndexText, TextInv,
                      TextTypes
  <2>2. ASSUME NEW u \in F!Ids, F!SyncRow(u) \/ F!Persist(u) \/ F!Damage(u)
        PROVE  t \in Due /\ (InIndex(t) => InIndex(t)')
    <3>1. t # u
      BY <1>2, <2>2 DEF Due, F!SyncRow, F!Persist, F!Damage, F!Edit
    <3>2. UNCHANGED <<policy, fts, full>> /\ changed \subseteq changed' /\ (t \in bad => t \in bad')
      BY <2>2, <3>1 DEF F!SyncRow, F!Persist, F!Damage, F!Edit
    <3>3. t \in F!Ids /\ tdocs'[t] = tdocs[t] /\ content'[t] = content[t]
      BY <1>2, <2>2, <3>1 DEF F!SyncRow, F!Persist, F!Damage, TextInv, TextTypes, Due, F!Stored
    <3> QED
      BY <1>2, <3>2, <3>3 DEF Due, F!Stored, InIndex, F!SlidePolicy, F!IndexText
  <2> QED
    BY <2>1, <2>2 DEF F!Sources
<1>3. UNCHANGED <<Reached, Ahead, Batched>>
  BY <1>1 DEF Reached, Ahead, Batched
<1> QED
  BY <1>1, <1>2, <1>3 DEF TextInv

\* A write puts what it can decode into the index and leaves what is there there.
LEMMA TextWritten ==
  ASSUME TextInv, NEW ids \in SUBSET F!Ids, F!UpsertMany(ids),
         UNCHANGED <<tdocs, content, bad, policy, full, changed>>
  PROVE  \A t \in Due : t \in Due' /\ (InIndex(t) \/ t \in ids => InIndex(t)')
<1>1. ASSUME NEW t \in F!Ids PROVE F!IndexText(t)' = F!IndexText(t) /\ F!IndexText(t) # NoRow
                                   /\ F!IndexText(t).doc = content[t]
                                   /\ F!IndexText(t).policy = F!SlidePolicy(t)
                                   /\ F!SlidePolicy(t)' = F!SlidePolicy(t)
  BY NoRowIsNoRow DEF F!IndexText, F!SlidePolicy, TextInv, TextTypes
<1>2. Due' = Due /\ Due \subseteq F!Ids
  BY DEF Due, F!Stored
<1>3. \A t \in Due : t \in ids => t \in F!Written(ids)
  BY DEF Due, F!Written
<1>4. \A t \in F!Ids : fts'[t] = IF t \in F!Written(ids) THEN F!IndexText(t) ELSE fts[t]
  BY DEF F!UpsertMany
<1> QED
  BY <1>1, <1>2, <1>3, <1>4 DEF InIndex

LEMMA TextKept == TextInv /\ [F!Next]_(F!vars) => TextInv'
<1> SUFFICES ASSUME TextInv, [F!Next]_(F!vars) PROVE TextInv'
  OBVIOUS
<1>t. /\ \A t \in F!Ids : t \in Nat /\ t > 0
      /\ Due \subseteq F!Ids /\ run.last \in Nat /\ cursor \in Nat
      /\ run.todo \in SUBSET F!Ids /\ run.batch \in SUBSET F!Ids /\ full \in BOOLEAN
      /\ run.stale \in BOOLEAN
  BY DEF F!Ids, Due, F!Stored, TextInv, TextTypes
<1>1. CASE F!Sources
  BY <1>1, TextSources
<1>2. ASSUME NEW t \in F!Ids, F!Hook(t) PROVE TextInv'
  <2>1. F!UpsertMany({t}) /\ UNCHANGED <<tdocs, content, bad, policy, cursor, run, changed, full>>
    BY <1>2 DEF F!Hook, F!sql
  <2>2. \A u \in Due : InIndex(u) => InIndex(u)'
    BY <2>1, TextWritten
  <2>3. Due' = Due /\ UNCHANGED <<Reached, Ahead, Batched>>
    BY <2>1 DEF Due, F!Stored, Reached, Ahead, Batched
  <2> QED
    BY <2>1, <2>2, <2>3 DEF TextInv, TextTypes
<1>3. ASSUME NEW resume \in BOOLEAN, NEW stale \in BOOLEAN, F!StartRun(resume, stale) PROVE TextInv'
  <2>1. /\ run' = [F!Idle EXCEPT !.pc = IF stale THEN "list" ELSE "batch", !.stale = stale,
                                 !.last = IF resume THEN cursor ELSE 0]
        /\ cursor' = IF resume THEN cursor ELSE 0
        /\ UNCHANGED <<tdocs, content, bad, policy, fts>>
        /\ full' = IF resume THEN full /\ ~stale ELSE ~stale
        /\ changed' = IF resume THEN changed ELSE {}
    BY <1>3 DEF F!StartRun, F!sql
  <2>2. TextTypes' /\ run'.last = cursor' /\ run'.stale = stale /\ (stale => ~full')
        /\ run'.pc = IF stale THEN "list" ELSE "batch"
    BY <2>1 DEF TextInv, TextTypes, F!Idle
  <2>3. \A t \in Due' : t <= cursor' => InIndex(t)'
    <3>1. CASE resume
      BY <2>1, <3>1 DEF Due, F!Stored, InIndex, F!SlidePolicy, F!IndexText, TextInv
    <3>2. CASE ~resume
      BY <1>t, <2>1, <3>2 DEF Due, F!Stored
    <3> QED
      BY <3>1, <3>2
  <2>4. ~stale => Ahead' = {t \in F!Ids : t > cursor'}
    BY <2>2 DEF Ahead, Reached
  <2>5. \A t \in Due' : t \in F!Ids /\ t \in Nat /\ cursor' \in Nat
    BY <1>t, <2>1 DEF Due, F!Stored
  <2> QED
    BY <2>2, <2>3, <2>4, <2>5 DEF TextInv
<1>4. CASE F!ListStale
  <2>1. /\ run' = [run EXCEPT !.pc = "batch", !.todo = {t \in F!StaleIds : t > run.last}]
        /\ run.pc = "list" /\ run.stale /\ ~full /\ run.last = cursor
        /\ UNCHANGED <<tdocs, content, bad, policy, fts, cursor, changed, full>>
    BY <1>4 DEF F!ListStale, F!sql, TextInv
  <2>2. ASSUME NEW t \in Due, t > cursor, t \notin F!StaleIds PROVE InIndex(t)
    BY <2>1, <2>2 DEF Due, F!StaleIds, F!IsStale, F!PresentationStale, InIndex, F!Stored
  <2>3. Ahead' = {t \in F!StaleIds : t > cursor}
    BY <2>1 DEF Ahead, TextInv, TextTypes
  <2>4. Due' = Due /\ \A t \in Due : InIndex(t)' = InIndex(t)
    BY <2>1 DEF Due, F!Stored, InIndex, F!SlidePolicy, F!IndexText
  <2>5. TextTypes' /\ run'.pc = "batch" /\ run'.last = cursor' /\ run'.stale
    BY <2>1 DEF TextInv, TextTypes, F!StaleIds
  <2> QED
    BY <1>t, <2>1, <2>2, <2>3, <2>4, <2>5 DEF TextInv
<1>5. CASE F!TakeBatch
  <2>1. /\ UNCHANGED <<tdocs, content, bad, policy, fts, cursor, changed, full>>
        /\ run.pc = "batch" /\ run.last = cursor /\ run.stale \in BOOLEAN
    BY <1>5 DEF F!TakeBatch, F!sql, TextInv, TextTypes
  <2>2. Due' = Due /\ \A t \in Due : InIndex(t)' = InIndex(t)
    BY <2>1 DEF Due, F!Stored, InIndex, F!SlidePolicy, F!IndexText
  <2>3. \A t \in Due : InIndex(t) \/ t \in F!Remaining
    BY <1>t, <2>1 DEF TextInv, Ahead, Batched, Reached, F!Remaining, Due, F!Stored
  <2>4. CASE F!Remaining = {}
    <3>1. run' = [run EXCEPT !.pc = "stamp"]
      BY <1>5, <2>4 DEF F!TakeBatch
    <3> QED
      BY <2>1, <2>2, <2>3, <2>4, <3>1 DEF TextInv, TextTypes
  <2>5. CASE F!Remaining # {}
    <3> DEFINE B == F!FirstOf(F!Remaining)
    <3>1. run' = [run EXCEPT !.pc = "write", !.batch = B, !.todo = run.todo \ B]
      BY <1>5, <2>5 DEF F!TakeBatch
    <3>2. F!Remaining \in SUBSET F!Ids
      BY <1>t DEF F!Remaining, F!Stored
    <3>3. /\ B # {} /\ B \subseteq F!Remaining /\ F!Max(B) \in B
          /\ \A t \in F!Remaining \ B : F!Max(B) < t
      BY <2>5, <3>2, TextBatch
    <3> HIDE DEF B
    <3>4. Reached' = F!Max(B) /\ Batched' = B
          /\ Ahead' = IF run.stale THEN run.todo \ B ELSE {t \in F!Ids : t > F!Max(B)}
      BY <2>1, <3>1 DEF Reached, Ahead, Batched, TextInv, TextTypes
    <3>5. \A t \in Ahead' : t > Reached'
      BY <1>t, <3>2, <3>3, <3>4 DEF F!Remaining
    <3>6. \A t \in Due \ (Ahead' \cup Batched') : InIndex(t)
      <4> SUFFICES ASSUME NEW t \in Due, t \in F!Remaining, t \notin B, t \notin Ahead' PROVE FALSE
        BY <2>3, <3>4
      <4>1. F!Max(B) < t /\ t \in F!Ids /\ F!Max(B) \in Nat
        BY <1>t, <3>2, <3>3
      <4> QED
        BY <1>t, <2>1, <3>4, <4>1 DEF F!Remaining
    <3>7. TextTypes' /\ run'.pc = "write" /\ run'.last = cursor' /\ run'.stale = run.stale
          /\ run'.batch # {}
      BY <2>1, <3>1, <3>2, <3>3 DEF TextInv, TextTypes
    <3> QED
      BY <2>1, <2>2, <3>5, <3>6, <3>7 DEF TextInv
  <2> QED
    BY <2>4, <2>5
<1>6. CASE F!WriteBatch
  <2>1. /\ F!UpsertMany(run.batch) /\ run' = [run EXCEPT !.pc = "cursor"] /\ run.pc = "write"
        /\ UNCHANGED <<tdocs, content, bad, policy, cursor, changed, full>>
    BY <1>6 DEF F!WriteBatch, F!sql
  <2>2. \A t \in Due : t \in Due' /\ (InIndex(t) \/ t \in run.batch => InIndex(t)')
    BY <1>t, <2>1, TextWritten
  <2>3. Due' = Due /\ Batched = run.batch /\ Reached' = Reached /\ Ahead' = Ahead
    BY <2>1 DEF Due, F!Stored, Batched, Reached, Ahead, TextInv, TextTypes
  <2>4. TextTypes' /\ run'.pc = "cursor" /\ run'.last = run.last /\ run'.stale = run.stale
        /\ run'.batch = run.batch
    BY <2>1 DEF TextInv, TextTypes
  <2> QED
    BY <2>1, <2>2, <2>3, <2>4 DEF TextInv
<1>7. CASE F!SetCursor
  <2>1. /\ run' = [run EXCEPT !.pc = "batch", !.last = F!Max(run.batch), !.batch = {}]
        /\ run.pc = "cursor" /\ cursor' = F!Max(run.batch) /\ run.batch # {}
        /\ UNCHANGED <<tdocs, content, bad, policy, fts, changed, full>>
    BY <1>7 DEF F!SetCursor, F!sql, TextInv
  <2>2. Due' = Due /\ \A t \in Due : InIndex(t)' = InIndex(t)
    BY <2>1 DEF Due, F!Stored, InIndex, F!SlidePolicy, F!IndexText
  <2>3. F!Max(run.batch) \in Nat
    <3>1. run.batch \subseteq Nat /\ IsFiniteSet(run.batch)
      <4>1. F!Ids \subseteq Nat /\ IsFiniteSet(F!Ids)
        BY FS_Interval, SomeTDocs DEF F!Ids
      <4> QED
        BY <1>t, <4>1, FS_Subset
    <3>2. F!Max(run.batch) = Max(run.batch)
      BY DEF F!Max, Max
    <3> QED
      BY <2>1, <3>1, <3>2, Greatest
  <2>4. TextTypes' /\ run'.pc = "batch" /\ run'.last = cursor' /\ run'.stale = run.stale
    BY <2>1, <2>3 DEF TextInv, TextTypes
  <2>5. Reached = cursor' /\ Ahead' = Ahead /\ Batched = {} /\ Batched' = {}
    BY <2>1, <2>3 DEF Reached, Ahead, Batched, TextInv, TextTypes
  <2>6. \A t \in Due \ Ahead : InIndex(t)
    BY <2>1, <2>5 DEF TextInv
  <2>7. \A t \in Ahead : t > cursor'
    BY <2>1, <2>5 DEF TextInv
  <2>8. \A t \in Due : t <= cursor' => InIndex(t)
    BY <1>t, <2>1, <2>3, <2>6, <2>7
  <2> QED
    BY <2>1, <2>2, <2>4, <2>5, <2>6, <2>8 DEF TextInv
<1>8. CASE F!EndRun \/ F!Crash
  <2>1. run' = F!Idle /\ UNCHANGED <<tdocs, content, bad, policy, fts, cursor, changed, full>>
    BY <1>8 DEF F!EndRun, F!Crash, F!sql
  <2>2. TextTypes' /\ run'.pc = "idle" /\ ~run'.stale
    BY <2>1 DEF TextInv, TextTypes, F!Idle
  <2>3. Due' = Due /\ \A t \in Due : InIndex(t)' = InIndex(t)
    BY <2>1 DEF Due, F!Stored, InIndex, F!SlidePolicy, F!IndexText
  <2> QED
    BY <2>1, <2>2, <2>3 DEF TextInv
<1>9. CASE UNCHANGED <<F!sql, fts, cursor, run, changed, full>>
  BY <1>9 DEF F!sql, TextInv, TextTypes, Due, F!Stored, InIndex, F!SlidePolicy, F!IndexText,
              Reached, Ahead, Batched
<1>10. ASSUME NEW t \in F!Ids, F!HookSkipped(t) PROVE TextInv'
  BY <1>9, <1>10 DEF F!HookSkipped
<1> QED
  BY <1>1, <1>2, <1>3, <1>4, <1>5, <1>6, <1>7, <1>8, <1>9, <1>10 DEF F!Next, F!Rebuild, F!vars

\* A run that ends has nothing ahead of it.
LEMMA EndsCovered == TextInv /\ F!EndRun => \A t \in Due : InIndex(t)
  BY DEF F!EndRun, TextInv, Ahead, Batched

LEMMA TextCovers == TextInv => F!CoversStep
<1> SUFFICES ASSUME TextInv, F!EndRun, NEW t \in F!Stored \ (changed \cup bad) PROVE F!Covered(t)
  BY DEF F!CoversStep
<1>1. t \in Due /\ fts' = fts
  BY DEF Due, F!EndRun
<1> QED
  BY <1>1, EndsCovered DEF F!Covered, InIndex

LEMMA TextFresh == TextInv => F!FreshStep
<1> SUFFICES ASSUME TextInv, F!EndRun, changed = {}, bad = {}, NEW t \in F!Ids PROVE ~F!IsStale(t)'
  BY DEF F!FreshStep, F!StaleIds
<1>1. CASE t \notin F!Stored
  BY <1>1 DEF F!IsStale, F!Stored, F!EndRun, F!sql
<1>2. CASE t \in F!Stored
  <2>1. InIndex(t)
    BY <1>2, EndsCovered DEF Due
  <2> DEFINE d == [u \in F!Ids |-> tdocs[u].date]
  <2>2. /\ d \in [V!Ids -> Nat] /\ F!Ids = V!Ids
        /\ {d[u] : u \in V!Ids} = {tdocs[u].date : u \in F!Ids}
    BY DEF F!Ids, V!Ids, TextInv, TextTypes
  <2>3. V!Max({d[u] : u \in V!Ids}) = F!Latest
    BY <2>2 DEF F!Latest, F!Max, V!Max
  <2>4. F!Latest \in Nat /\ tdocs[t].date <= F!Latest /\ tdocs[t].date \in Nat /\ tdocs[t].date > 0
    BY <1>2, <2>2, <2>3, LatestIsLatest DEF F!Stored
  <2>5. stamp' = F!Latest /\ UNCHANGED <<tdocs, content, policy, fts>>
    BY <2>4 DEF F!EndRun, F!sql
  <2> QED
    BY <2>1, <2>4, <2>5 DEF F!IsStale, F!PresentationStale, F!SlidePolicy, InIndex
<1> QED
  BY <1>1, <1>2

\* However often a rebuild (services/search_service.py) dies and is resumed, with
\* hooks, syncs and undecodable documents between its batches, a run that ends has
\* indexed all that did not change since the first of these runs began.
THEOREM TextRebuildCovers == F!Spec => F!RebuildCovers
<1>1. TextInv /\ [F!Next]_(F!vars) => [F!CoversStep]_(F!vars)
  BY TextCovers
<1> QED
  BY TextBegins, TextKept, <1>1, PTL DEF F!Spec, F!RebuildCovers

\* Nothing that did not change is stale when a rebuild of the text index ends,
\* whatever older dates its batches and the hooks have stamped (search_sql.py).
THEOREM TextRunEndsFresh == F!Spec => F!RunEndsFresh
<1>1. TextInv /\ [F!Next]_(F!vars) => [F!FreshStep]_(F!vars)
  BY TextFresh
<1> QED
  BY TextBegins, TextKept, <1>1, PTL DEF F!Spec, F!RunEndsFresh

----------------------------------------------------------------------------
(* Specifications: behind the cursor and behind the position of a rebuild of all
   versions, and before every version whose failure is recorded, nothing is left
   out; what a batch has passed is indexed, recorded as failed, or in the batch. *)

Untouched == Pairs \ touched
InBatch == run.pc \in {"write", "embed", "cursor"}
SpecTypes ==
  /\ DOMAIN run = {"pc", "stale", "section", "last", "failing", "after", "cutoff", "todo", "end",
                   "text", "done", "marked"}
  /\ run.last \in Nat /\ run.after \in Nat /\ cursor \in Nat
  /\ kind \in {"fts", "vec"}
  /\ run.todo \subseteq Pairs /\ run.done \subseteq Pairs /\ failed \subseteq Pairs
  /\ chunks \in [Pairs -> Nat] /\ DOMAIN parsedAt = Pairs /\ DOMAIN indexed = Pairs
  /\ tick \in Nat /\ parse \in [pair : Pairs \cup {0}, step : {"none", "mark", "hook"}]
  /\ parse.step # "none" => parse.pair \in Pairs
  /\ run.section \in {"failed", "normal"} /\ run.stale \in BOOLEAN /\ whole \in BOOLEAN
  /\ InBatch => run.end \in Pairs /\ \A p \in run.todo : p <= run.end
  /\ run.pc \in {"write", "embed"} => run.todo # {}
  /\ run.pc = "cursor" => run.todo = {}
TextRead == run.pc = "embed" /\ S!Current \in Untouched => run.text = chunks[S!Current]
DoneIndexed == \A p \in run.done \cap Untouched : indexed[p] = chunks[p]
MarkedKept == \A p \in run.marked \cap Untouched :
                run.pc # "idle" => whole \/ p \in failed \/ indexed[p] = chunks[p]
FailedAgain == /\ kind = "fts" => failed = {} /\ run.pc # "embed"
               /\ InBatch /\ run.section = "failed"
                    => run.end \in failed /\ run.todo \subseteq failed
BehindCovered ==
  whole =>
    /\ ~run.stale
    /\ \A p \in Untouched : Key[p] <= cursor \/ Key[p] <= run.last => S!Covered(p)
    /\ \A p \in Untouched : (\E q \in failed : p < q) => S!Covered(p)
    /\ InBatch /\ run.section = "normal"
         => \A p \in Untouched : p <= run.end => S!Covered(p) \/ p \in run.todo
    /\ run.pc \in {"end", "ended"} => \A p \in Untouched : S!Covered(p)
SpecInv == SpecTypes /\ TextRead /\ DoneIndexed /\ MarkedKept /\ FailedAgain /\ BehindCovered

LEMMA SpecPage ==
  ASSUME NEW T \in SUBSET Pairs, T # {}
  PROVE  /\ S!Page(T) # {} /\ S!Page(T) \subseteq T
         /\ S!Max(S!Page(T)) \in S!Page(T)
         /\ \A p \in T \ S!Page(T) : S!Max(S!Page(T)) < p
         /\ \A p \in S!Page(T) : p <= S!Max(S!Page(T))
<1>1. \A X : S!Cardinality(X) = Cardinality(X)
  BY DEF S!Cardinality, Cardinality
<1>2. \A X : S!Max(X) = Max(X)
  BY DEF S!Max, Max
<1>3. T \subseteq Nat /\ IsFiniteSet(T)
  BY KeysInOrder, FS_Subset
<1>4. S!Page(T) = FirstIn(T) /\ FirstIn(T) \subseteq T
  BY <1>1 DEF S!Page, FirstIn
<1>5. /\ FirstIn(T) # {} /\ Max(FirstIn(T)) \in FirstIn(T)
      /\ \A p \in T \ FirstIn(T) : Max(FirstIn(T)) < p
  BY <1>3, FirstOfAll
<1>6. \A p \in FirstIn(T) : p <= Max(FirstIn(T))
  <2>1. FirstIn(T) \subseteq Nat /\ IsFiniteSet(FirstIn(T))
    BY <1>3, <1>4, FS_Subset
  <2> QED
    BY <1>5, <2>1, Greatest
<1> QED
  BY <1>2, <1>4, <1>5, <1>6

LEMMA CurrentFirst ==
  ASSUME SpecTypes, run.pc \in {"write", "embed"}
  PROVE  S!Current \in run.todo /\ \A p \in run.todo : S!Current <= p
<1>1. S!Current = Min(run.todo)
  BY DEF S!Current, S!Min, Min
<1>2. run.todo # {} /\ run.todo \subseteq Nat
  BY KeysInOrder DEF SpecTypes
<1> QED
  BY <1>1, <1>2, Least

\* A pair that is not parsed meanwhile stays covered.
LEMMA StaysCovered ==
  ASSUME NEW p \in Pairs, kind' = kind, chunks'[p] = chunks[p], parsedAt'[p] = parsedAt[p],
         lost \subseteq lost', indexed'[p] \in {indexed[p], chunks[p]},
         p \in failed => p \in failed' \/ indexed'[p] = chunks[p],
         S!Covered(p)
  PROVE  S!Covered(p)'
  BY DEF S!Covered, S!Known

LEMMA SpecsBegin == S!Init => SpecInv
<1> SUFFICES ASSUME S!Init PROVE SpecInv
  OBVIOUS
<1>1. chunks \in [Pairs -> Nat] /\ tick \in Nat
  <2>1. S!Cardinality(Pairs) = Cardinality(Pairs) /\ Cardinality(Pairs) \in Nat
    BY KeysInOrder, FS_CardinalityType DEF S!Cardinality, Cardinality
  <2> QED
    BY <2>1 DEF S!Init
<1>2. SpecTypes
  BY <1>1 DEF S!Init, S!Idle, S!NoParse, SpecTypes, InBatch
<1> QED
  BY <1>2 DEF S!Init, S!Idle, SpecInv, TextRead, DoneIndexed, MarkedKept, FailedAgain,
              BehindCovered, InBatch

\* A parse: the pair is touched, the others are as they were.
LEMMA SpecParsed ==
  ASSUME SpecInv, (\E p \in Pairs : S!Reparse(p)) \/ S!MarkParsed
  PROVE  SpecInv'
<1>1. /\ UNCHANGED <<kind, indexed, cursor, failed, run, lost, whole>>
      /\ chunks' \in [Pairs -> Nat] /\ DOMAIN parsedAt' = Pairs /\ tick' \in Nat
      /\ parse' \in [pair : Pairs, step : {"mark", "hook"}]
      /\ Untouched' \subseteq Untouched
      /\ \A p \in Untouched' : chunks'[p] = chunks[p] /\ parsedAt'[p] = parsedAt[p]
  <2>1. ASSUME NEW p \in Pairs, S!Reparse(p) PROVE <1>1!:
    BY <2>1 DEF S!Reparse, S!index, SpecInv, SpecTypes, Untouched
  <2>2. ASSUME S!MarkParsed PROVE <1>1!:
    BY <2>2 DEF S!MarkParsed, S!index, SpecInv, SpecTypes, Untouched
  <2> QED
    BY <2>1, <2>2
<1>2. \A p \in Untouched' : S!Covered(p) => S!Covered(p)'
  BY <1>1, StaysCovered DEF Untouched
<1>3. S!Current' = S!Current /\ InBatch' = InBatch
  BY <1>1 DEF S!Current, InBatch
<1>4. SpecTypes'
  BY <1>1, <1>3 DEF SpecInv, SpecTypes
<1>5. TextRead' /\ DoneIndexed' /\ MarkedKept' /\ FailedAgain'
  BY <1>1, <1>3 DEF SpecInv, TextRead, DoneIndexed, MarkedKept, FailedAgain
<1>6. BehindCovered'
  BY <1>1, <1>2, <1>3 DEF SpecInv, BehindCovered
<1> QED
  BY <1>4, <1>5, <1>6 DEF SpecInv

\* The hook of a parse writes the current chunks.
LEMMA SpecHooked ==
  ASSUME SpecInv, S!Hook \/ S!HookSkipped
  PROVE  SpecInv'
<1>1. /\ UNCHANGED <<kind, chunks, parsedAt, cursor, failed, run, tick, lost, whole, touched>>
      /\ DOMAIN indexed' = Pairs /\ parse' = S!NoParse
      /\ \A p \in Pairs : indexed'[p] \in {indexed[p], chunks[p]}
  BY DEF S!Hook, S!HookSkipped, S!index, S!history, SpecInv, SpecTypes
<1>2. \A p \in Pairs : S!Covered(p) => S!Covered(p)'
  BY <1>1, StaysCovered
<1>3. S!Current' = S!Current /\ InBatch' = InBatch /\ Untouched' = Untouched
  BY <1>1 DEF S!Current, InBatch, Untouched
<1>4. SpecTypes'
  BY <1>1, <1>3 DEF SpecInv, SpecTypes, S!NoParse
<1>5. TextRead' /\ DoneIndexed' /\ MarkedKept' /\ FailedAgain'
  BY <1>1, <1>3 DEF SpecInv, SpecTypes, TextRead, DoneIndexed, MarkedKept, FailedAgain, Untouched
<1>6. BehindCovered'
  BY <1>1, <1>2, <1>3 DEF SpecInv, BehindCovered, Untouched
<1> QED
  BY <1>4, <1>5, <1>6 DEF SpecInv

\* A fresh rebuild starts a new count of what is touched, before every version.
LEMMA SpecStartedFresh ==
  ASSUME SpecInv, NEW stale \in BOOLEAN, S!StartFresh(stale)
  PROVE  SpecInv'
<1> DEFINE reset == kind = "vec" /\ ~(stale /\ table)
           all == reset \/ ~stale
<1>1. /\ UNCHANGED <<kind, chunks, parsedAt, parse, tick>>
      /\ cursor' = 0 /\ touched' = {} /\ lost' = {} /\ whole' = all
      /\ failed' = (IF reset THEN {} ELSE failed) /\ DOMAIN indexed' = Pairs
      /\ run'.pc = "batch" /\ run'.stale = ~all /\ run'.section \in {"failed", "normal"}
      /\ run'.last = 0 /\ run'.after = 0 /\ run'.todo = {} /\ run'.done = {} /\ run'.marked = failed
      /\ DOMAIN run' = DOMAIN S!Idle
  BY DEF S!StartFresh, S!FirstSection, S!Idle, SpecInv, SpecTypes
<1>2. SpecTypes' /\ ~InBatch'
  BY <1>1 DEF SpecInv, SpecTypes, InBatch, S!Idle
<1>3. TextRead' /\ DoneIndexed' /\ MarkedKept' /\ FailedAgain'
  BY <1>1, <1>2 DEF SpecInv, TextRead, DoneIndexed, MarkedKept, FailedAgain
<1>4. BehindCovered'
  <2>1. \A p \in Pairs : ~ (Key[p] <= 0)
    BY KeysInOrder
  <2>2. all => failed' = {}
    BY <1>1 DEF SpecInv, SpecTypes, FailedAgain
  <2> QED
    BY <1>1, <1>2, <2>1, <2>2 DEF BehindCovered, Untouched
<1> QED
  BY <1>2, <1>3, <1>4 DEF SpecInv

\* Steps that change nothing but the run, with the versions it has before it.
LEMMA SpecKeptIndex ==
  ASSUME UNCHANGED <<chunks, parsedAt, indexed, failed, touched, lost, kind>>
  PROVE  Untouched' = Untouched /\ \A p : S!Covered(p)' = S!Covered(p)
  BY DEF Untouched, S!Covered, S!Known

LEMMA SpecResumed ==
  ASSUME SpecInv, NEW stale \in BOOLEAN, S!StartResumed(stale)
  PROVE  SpecInv'
<1>1. /\ UNCHANGED <<kind, chunks, parsedAt, parse, indexed, cursor, failed, tick, touched, lost>>
      /\ whole' = (whole /\ ~stale)
      /\ run'.pc = "batch" /\ run'.stale = stale /\ run'.section \in {"failed", "normal"}
      /\ run'.last = cursor /\ run'.after = cursor /\ run'.todo = {} /\ run'.done = {}
      /\ run'.marked = failed /\ DOMAIN run' = DOMAIN S!Idle
  BY DEF S!StartResumed, S!FirstSection, S!Idle, S!index, SpecInv, SpecTypes
<1>2. Untouched' = Untouched /\ \A p : S!Covered(p)' = S!Covered(p)
  BY <1>1, SpecKeptIndex
<1>3. SpecTypes' /\ ~InBatch'
  BY <1>1 DEF SpecInv, SpecTypes, InBatch, S!Idle
<1>4. TextRead' /\ DoneIndexed' /\ MarkedKept' /\ FailedAgain'
  BY <1>1, <1>2, <1>3 DEF SpecInv, TextRead, DoneIndexed, MarkedKept, FailedAgain
<1>5. BehindCovered'
  BY <1>1, <1>2, <1>3 DEF SpecInv, BehindCovered
<1> QED
  BY <1>3, <1>4, <1>5 DEF SpecInv

\* The next batch is the first of what is ahead.
LEMMA SpecBatched ==
  ASSUME SpecInv, S!NextBatch
  PROVE  SpecInv'
<1> DEFINE page == S!Page(S!Selected(run))
<1>1. /\ UNCHANGED <<kind, chunks, parsedAt, parse, indexed, cursor, failed, tick, touched,
                     lost, whole>>
      /\ run.pc = "batch" /\ ~InBatch
  BY DEF S!NextBatch, S!index, S!history, InBatch
<1>2. Untouched' = Untouched /\ \A p : S!Covered(p)' = S!Covered(p)
  BY <1>1, SpecKeptIndex
<1>3. S!Selected(run) \in SUBSET Pairs /\ run.section \in {"failed", "normal"}
  BY DEF S!Selected, S!Known, SpecInv, SpecTypes
<1>4. ASSUME whole, run.section = "normal", NEW p \in Untouched
      PROVE  S!Covered(p) \/ p \in S!Selected(run)
  BY <1>4, KeysInOrder DEF SpecInv, SpecTypes, BehindCovered, S!Covered, S!Selected, Untouched
<1>5. CASE page # {}
  <2>1. run' = [run EXCEPT !.pc = "write", !.todo = page, !.end = S!Max(page)]
    BY <1>5 DEF S!NextBatch
  <2>2. S!Selected(run) # {}
    BY <1>5 DEF S!Page
  <2>3. /\ page \subseteq S!Selected(run) /\ S!Max(page) \in page
        /\ \A p \in S!Selected(run) \ page : S!Max(page) < p
        /\ \A p \in page : p <= S!Max(page)
    BY <1>3, <2>2, SpecPage
  <2> HIDE DEF page
  <2>4. SpecTypes' /\ run'.todo = page /\ run'.end = S!Max(page) /\ InBatch'
        /\ run'.section = run.section /\ run'.pc = "write"
    BY <1>1, <1>3, <1>5, <2>1, <2>3 DEF SpecInv, SpecTypes, InBatch
  <2>5. TextRead' /\ DoneIndexed' /\ MarkedKept'
    BY <1>1, <1>2, <2>1, <2>4 DEF SpecInv, SpecTypes, TextRead, DoneIndexed, MarkedKept
  <2>6. FailedAgain'
    <3>1. run.section = "failed" => S!Selected(run) \subseteq failed
      BY DEF S!Selected
    <3> QED
      BY <1>1, <2>3, <2>4, <3>1 DEF SpecInv, FailedAgain
  <2>7. ASSUME whole, run.section = "normal", NEW p \in Untouched, p <= S!Max(page)
        PROVE  S!Covered(p) \/ p \in page
    <3>1. p \in Nat /\ S!Max(page) \in Nat
      BY <1>3, <2>3, KeysInOrder DEF Untouched
    <3>2. ~ (S!Max(page) < p)
      BY <2>7, <3>1
    <3> QED
      BY <1>4, <2>3, <2>7, <3>2
  <2>8. BehindCovered'
    BY <1>1, <1>2, <2>1, <2>4, <2>7 DEF SpecInv, SpecTypes, BehindCovered
  <2> QED
    BY <2>4, <2>5, <2>6, <2>8 DEF SpecInv
<1>6. CASE page = {}
  <2>1. S!Selected(run) = {}
    BY <1>3, <1>6, SpecPage
  <2>2. run' = IF run.section = "failed" THEN [run EXCEPT !.section = "normal"]
               ELSE [run EXCEPT !.pc = "end"]
    BY <1>6 DEF S!NextBatch
  <2>3. SpecTypes' /\ ~InBatch'
    BY <1>1, <2>2 DEF SpecInv, SpecTypes, InBatch
  <2>4. TextRead' /\ DoneIndexed' /\ MarkedKept' /\ FailedAgain'
    BY <1>1, <1>2, <2>2, <2>3 DEF SpecInv, SpecTypes, TextRead, DoneIndexed, MarkedKept, FailedAgain
  <2>5. BehindCovered'
    BY <1>1, <1>2, <1>4, <2>1, <2>2, <2>3 DEF SpecInv, SpecTypes, BehindCovered
  <2> QED
    BY <2>3, <2>4, <2>5 DEF SpecInv
<1> QED
  BY <1>5, <1>6

LEMMA SpecWrittenFts ==
  ASSUME SpecInv, S!WriteFts
  PROVE  SpecInv'
<1>1. PICK lostNow \in {{}} \cup {{p} : p \in run.todo} :
        /\ indexed' = [p \in Pairs |-> IF p \in run.todo \ lostNow THEN chunks[p] ELSE indexed[p]]
        /\ lost' = lost \cup lostNow
  BY DEF S!WriteFts
<1>2. /\ run.pc = "write" /\ kind = "fts" /\ run' = [run EXCEPT !.pc = "cursor", !.todo = {}]
      /\ UNCHANGED <<kind, chunks, parsedAt, parse, cursor, failed, tick, touched, whole>>
  BY DEF S!WriteFts
<1>3. Untouched' = Untouched /\ InBatch /\ InBatch' /\ Untouched \subseteq Pairs
  BY <1>2 DEF Untouched, InBatch
<1>4. \A p \in Untouched : (S!Covered(p) => S!Covered(p)') /\ (p \in run.todo => S!Covered(p)')
  BY <1>1, <1>2, <1>3 DEF S!Covered, S!Known
<1>5. SpecTypes'
  BY <1>1, <1>2, <1>3 DEF SpecInv, SpecTypes
<1>6. TextRead' /\ DoneIndexed' /\ MarkedKept' /\ FailedAgain'
  BY <1>1, <1>2, <1>3 DEF SpecInv, SpecTypes, TextRead, DoneIndexed, MarkedKept, FailedAgain
<1>7. BehindCovered'
  BY <1>2, <1>3, <1>4 DEF SpecInv, SpecTypes, BehindCovered
<1> QED
  BY <1>5, <1>6, <1>7 DEF SpecInv

LEMMA SpecRead ==
  ASSUME SpecInv, S!ReadVec
  PROVE  SpecInv'
<1>1. /\ UNCHANGED <<kind, chunks, parsedAt, parse, indexed, cursor, failed, tick, touched,
                     lost, whole>>
      /\ run.pc = "write" /\ kind = "vec"
      /\ run' = [run EXCEPT !.pc = "embed", !.text = chunks[S!Current]]
  BY DEF S!ReadVec, S!index, S!history
<1>2. Untouched' = Untouched /\ \A p : S!Covered(p)' = S!Covered(p)
  BY <1>1, SpecKeptIndex
<1>3. SpecTypes' /\ InBatch /\ InBatch' /\ S!Current' = S!Current
  BY <1>1 DEF SpecInv, SpecTypes, InBatch, S!Current
<1>4. TextRead' /\ DoneIndexed' /\ MarkedKept' /\ FailedAgain'
  BY <1>1, <1>2, <1>3 DEF SpecInv, SpecTypes, TextRead, DoneIndexed, MarkedKept, FailedAgain
<1>5. BehindCovered'
  BY <1>1, <1>2, <1>3 DEF SpecInv, SpecTypes, BehindCovered
<1> QED
  BY <1>3, <1>4, <1>5 DEF SpecInv

\* The pair of an embedding is indexed or recorded; all before it were.
LEMMA SpecEmbedded ==
  ASSUME SpecInv, S!WriteVec \/ S!FailVec
  PROVE  SpecInv'
<1> DEFINE c == S!Current
<1>1. /\ run.pc = "embed" /\ run'.todo = run.todo \ {c} /\ DOMAIN run' = DOMAIN run
      /\ run'.pc = (IF run.todo = {c} THEN "cursor" ELSE "write")
      /\ run'.stale = run.stale /\ run'.section = run.section /\ run'.last = run.last
      /\ run'.after = run.after /\ run'.end = run.end /\ run'.marked = run.marked
      /\ UNCHANGED <<kind, chunks, parsedAt, parse, cursor, tick, touched, lost, whole>>
  <2>1. ASSUME S!WriteVec PROVE <1>1!:
    BY <2>1 DEF S!WriteVec, S!NextPair, S!history, SpecInv, SpecTypes
  <2>2. ASSUME S!FailVec PROVE <1>1!:
    BY <2>2 DEF S!FailVec, S!NextPair, S!history, SpecInv, SpecTypes
  <2> QED
    BY <2>1, <2>2
<1>2. c \in run.todo /\ c \in Pairs /\ (\A p \in run.todo : c <= p) /\ c \in Nat
  BY <1>1, CurrentFirst, KeysInOrder DEF SpecInv, SpecTypes
<1>3. \/ /\ indexed' = [indexed EXCEPT ![c] = run.text] /\ failed' = failed
         /\ run'.done = run.done \cup {c}
      \/ indexed' = indexed /\ failed' = failed \cup {c} /\ run'.done = run.done
  BY DEF S!WriteVec, S!FailVec, S!NextPair, S!Fail, SpecInv, SpecTypes
<1> HIDE DEF c
<1>4. c \in Untouched => run.text = chunks[c]
  BY <1>1 DEF c, SpecInv, TextRead
<1>5. Untouched' = Untouched /\ InBatch /\ InBatch' /\ Untouched \subseteq Pairs
  BY <1>1 DEF Untouched, InBatch
<1>6. \A p \in Untouched : (S!Covered(p) => S!Covered(p)') /\ (p = c => S!Covered(p)')
  BY <1>1, <1>2, <1>3, <1>4, <1>5 DEF S!Covered, S!Known, SpecInv, SpecTypes
<1>7. SpecTypes'
  <2>1. /\ run'.done \subseteq Pairs /\ failed' \subseteq Pairs /\ DOMAIN indexed' = Pairs
        /\ run'.todo \subseteq Pairs /\ (\A p \in run'.todo : p <= run'.end)
    BY <1>1, <1>2, <1>3, <1>5 DEF SpecInv, SpecTypes
  <2>2. (run'.pc = "write" /\ run'.todo # {}) \/ (run'.pc = "cursor" /\ run'.todo = {})
    BY <1>1, <1>2
  <2> QED
    BY <1>1, <1>5, <2>1, <2>2 DEF SpecInv, SpecTypes
<1>8. TextRead' /\ DoneIndexed' /\ MarkedKept' /\ FailedAgain'
  <2>1. TextRead'
    BY <1>1 DEF TextRead
  <2>2. ASSUME NEW p \in Untouched
        PROVE  /\ indexed[p] = chunks[p] => indexed'[p] = chunks[p]
               /\ p \in run'.done => p \in run.done \/ indexed'[p] = chunks[p]
    <3>1. CASE p = c
      BY <1>2, <1>3, <1>4, <2>2, <3>1 DEF SpecInv, SpecTypes
    <3>2. CASE p # c
      BY <1>3, <1>5, <3>2 DEF SpecInv, SpecTypes
    <3> QED
      BY <3>1, <3>2
  <2>3. DoneIndexed' /\ MarkedKept'
    BY <1>1, <1>3, <1>5, <2>2 DEF SpecInv, DoneIndexed, MarkedKept
  <2>4. FailedAgain'
    BY <1>1, <1>2, <1>3, <1>5 DEF SpecInv, FailedAgain
  <2> QED
    BY <2>1, <2>2, <2>3, <2>4
<1>9. ASSUME whole, run.section = "normal", NEW p \in Untouched, p < c PROVE S!Covered(p)
  <2>1. p \in Nat /\ run.end \in Nat
    BY <1>5, KeysInOrder DEF SpecInv, SpecTypes
  <2>2. p \notin run.todo /\ ~ (c <= p)
    BY <1>2, <1>9, <2>1
  <2>3. c <= run.end
    BY <1>2, <1>5 DEF SpecInv, SpecTypes
  <2> QED
    BY <1>2, <1>5, <1>9, <2>1, <2>2, <2>3 DEF SpecInv, BehindCovered
<1>10. BehindCovered'
  BY <1>1, <1>2, <1>3, <1>5, <1>6, <1>9 DEF SpecInv, SpecTypes, BehindCovered, FailedAgain
<1> QED
  BY <1>7, <1>8, <1>10 DEF SpecInv

LEMMA SpecCursorSet ==
  ASSUME SpecInv, S!SetCursor
  PROVE  SpecInv'
<1> DEFINE k == Key[run.end]
<1>1. /\ UNCHANGED <<kind, chunks, parsedAt, parse, indexed, failed, tick, touched, lost, whole>>
      /\ run.pc = "cursor" /\ cursor' \in {cursor, k}
      /\ run' = IF run.section = "failed" THEN [run EXCEPT !.pc = "batch", !.failing = k]
                ELSE [run EXCEPT !.pc = "batch", !.last = k]
  BY DEF S!SetCursor, S!history
<1>2. Untouched' = Untouched /\ \A p : S!Covered(p)' = S!Covered(p)
  BY <1>1, SpecKeptIndex
<1>3. /\ InBatch /\ run.end \in Pairs /\ k \in Nat /\ ~InBatch' /\ run.todo = {}
      /\ Untouched \subseteq Pairs /\ run.section \in {"failed", "normal"}
  BY <1>1, KeysInOrder DEF InBatch, SpecInv, SpecTypes, Untouched
<1>4. SpecTypes'
  BY <1>1, <1>3 DEF SpecInv, SpecTypes
<1>5. TextRead' /\ DoneIndexed' /\ MarkedKept' /\ FailedAgain'
  BY <1>1, <1>2, <1>3 DEF SpecInv, SpecTypes, TextRead, DoneIndexed, MarkedKept, FailedAgain
<1>6. ASSUME whole, NEW p \in Untouched, Key[p] <= k PROVE S!Covered(p)
  <2>1. p \in Pairs /\ p \in Nat /\ run.end \in Nat /\ Key[p] \in Nat
    BY <1>3, KeysInOrder
  <2>2. ~ (run.end < p)
    BY <1>3, <1>6, <2>1, KeysInOrder
  <2>3. p = run.end \/ p < run.end
    BY <2>1, <2>2
  <2>4. CASE run.section = "normal"
    BY <1>3, <1>6, <2>1, <2>3, <2>4 DEF SpecInv, BehindCovered
  <2>5. CASE run.section = "failed"
    BY <1>3, <1>6, <2>3, <2>5 DEF SpecInv, BehindCovered, FailedAgain, S!Covered
  <2> QED
    BY <1>3, <2>4, <2>5
<1>7. BehindCovered'
  BY <1>1, <1>2, <1>3, <1>6 DEF SpecInv, SpecTypes, BehindCovered
<1> QED
  BY <1>4, <1>5, <1>7 DEF SpecInv

\* A failure is forgotten only for a pair that the run has embedded.
LEMMA SpecCleared ==
  ASSUME SpecInv, S!ClearOne
  PROVE  SpecInv'
<1>1. PICK d \in run.done \cap failed : failed' = failed \ {d}
  BY DEF S!ClearOne
<1>2. /\ run.pc = "end"
      /\ UNCHANGED <<kind, chunks, parsedAt, parse, indexed, cursor, run, tick, touched, lost,
                     whole>>
  BY DEF S!ClearOne, S!history
<1>3. Untouched' = Untouched /\ ~InBatch /\ ~InBatch' /\ Untouched \subseteq Pairs
  BY <1>2 DEF Untouched, InBatch
<1>4. d \in Untouched => indexed[d] = chunks[d]
  BY <1>1 DEF SpecInv, DoneIndexed
<1>5. \A p \in Untouched : S!Covered(p) => S!Covered(p)'
  BY <1>1, <1>2, <1>4 DEF S!Covered, S!Known
<1>6. SpecTypes'
  BY <1>1, <1>2, <1>3 DEF SpecInv, SpecTypes
<1>7. TextRead' /\ DoneIndexed' /\ MarkedKept' /\ FailedAgain'
  BY <1>1, <1>2, <1>3, <1>4 DEF SpecInv, TextRead, DoneIndexed, MarkedKept, FailedAgain
<1>8. BehindCovered'
  BY <1>1, <1>2, <1>3, <1>5 DEF SpecInv, BehindCovered
<1> QED
  BY <1>6, <1>7, <1>8 DEF SpecInv

\* A run that ends normally has covered what it should; any other leaves what a later
\* run finds.
LEMMA SpecEnded ==
  ASSUME SpecInv, S!End \/ S!Rest \/ S!BreakOff
  PROVE  SpecInv'
<1> DEFINE Over(r) == /\ r.pc \in {"idle", "ended"} /\ r.stale = FALSE /\ r.section = "normal"
                      /\ r.last = 0 /\ r.after = 0 /\ r.todo = {} /\ r.done = {}
                      /\ DOMAIN r = DOMAIN S!Idle
<1>1. Over(S!Idle) /\ S!Idle.pc = "idle"
  BY DEF S!Idle
<1>2. /\ UNCHANGED <<kind, chunks, parsedAt, parse, indexed, cursor, failed, tick, touched, lost>>
      /\ whole' \in BOOLEAN /\ (whole' => whole) /\ Over(run')
      /\ run'.pc = "ended" => run.pc = "end" /\ run'.marked = run.marked /\ whole' = whole
  <2>1. CASE S!End
    <3>1. run' = [[S!Idle EXCEPT !.pc = "ended"] EXCEPT !.marked = run.marked]
      BY <2>1 DEF S!End
    <3>2. Over(run') /\ run'.marked = run.marked
      BY <3>1 DEF S!Idle
    <3>3. whole \in BOOLEAN
      BY DEF SpecInv, SpecTypes
    <3> QED
      BY <2>1, <3>2, <3>3 DEF S!End, S!index, S!history
  <2>2. CASE S!Rest
    BY <2>2, <1>1 DEF S!Rest, S!index
  <2>3. CASE S!BreakOff
    <3>1. whole \in BOOLEAN
      BY DEF SpecInv, SpecTypes
    <3> QED
      BY <2>3, <3>1, <1>1 DEF S!BreakOff, S!index, S!history
  <2> QED
    BY <2>1, <2>2, <2>3
<1>3. Untouched' = Untouched /\ \A p : S!Covered(p)' = S!Covered(p)
  BY <1>2, SpecKeptIndex
<1>4. ~InBatch' /\ run'.pc \notin {"write", "embed", "cursor"}
  BY <1>2 DEF InBatch
<1>5. SpecTypes'
  <2>1. DOMAIN run' = {"pc", "stale", "section", "last", "failing", "after", "cutoff", "todo", "end",
                       "text", "done", "marked"}
    BY <1>2 DEF S!Idle
  <2>2. DOMAIN parsedAt' = Pairs /\ DOMAIN indexed' = Pairs /\ chunks' \in [Pairs -> Nat]
    BY <1>2 DEF SpecInv, SpecTypes
  <2>3. run'.last \in Nat /\ run'.after \in Nat /\ run'.section \in {"failed", "normal"}
    BY <1>2
  <2>4. run'.stale \in BOOLEAN
    BY <1>2, Zenon
  <2>5. run'.todo \subseteq Pairs /\ run'.done \subseteq Pairs
    BY <1>2
  <2> HIDE DEF Over
  <2> QED
    BY <1>2, <1>4, <2>1, <2>2, <2>3, <2>4, <2>5 DEF SpecInv, SpecTypes
<1>6. run'.stale = FALSE /\ run'.last = 0 /\ run'.done = {} /\ run'.pc \in {"idle", "ended"}
  BY <1>2
<1> HIDE DEF Over
<1>7. TextRead' /\ DoneIndexed' /\ FailedAgain'
  BY <1>2, <1>4, <1>6 DEF SpecInv, TextRead, DoneIndexed, FailedAgain
<1>8. MarkedKept'
  BY <1>2, <1>3, <1>6 DEF SpecInv, MarkedKept
<1>9. BehindCovered'
  <2>1. \A p \in Untouched : ~ (Key[p] <= 0)
    BY KeysInOrder DEF Untouched
  <2> QED
    BY <1>2, <1>3, <1>4, <1>6, <2>1 DEF SpecInv, BehindCovered
<1> QED
  BY <1>5, <1>7, <1>8, <1>9 DEF SpecInv

LEMMA SpecKept == SpecInv /\ [S!Next]_(S!vars) => SpecInv'
<1> SUFFICES ASSUME SpecInv, [S!Next]_(S!vars) PROVE SpecInv'
  OBVIOUS
<1>1. CASE UNCHANGED S!vars
  BY <1>1 DEF S!vars, S!index, S!history, SpecInv, SpecTypes, TextRead, DoneIndexed, MarkedKept,
              FailedAgain, BehindCovered, InBatch, Untouched, S!Current, S!Covered, S!Known
<1> QED
  BY <1>1, SpecParsed, SpecHooked, SpecStartedFresh, SpecResumed, SpecBatched, SpecWrittenFts,
     SpecRead, SpecEmbedded, SpecCursorSet, SpecCleared, SpecEnded
  DEF S!Next

LEMMA SpecCovers == SpecInv => S!RebuildCovers
  BY DEF SpecInv, SpecTypes, BehindCovered, MarkedKept, S!RebuildCovers, S!Covered, Untouched

\* When the cursor texts are in the order of the columns, rebuilds of all versions
\* (spec_doc_search_service.py, spec_doc_semantic_service.py), broken off and resumed
\* next to parses and failing embeddings, end with every version that was not parsed
\* meanwhile indexed or its failure recorded, and none forgets an earlier failure.
THEOREM SpecRebuildCovers == S!Spec => []S!RebuildCovers
  BY SpecsBegin, SpecKept, SpecCovers, PTL DEF S!Spec

----------------------------------------------------------------------------
(* The indexes side by side.                                                  *)

\* A behaviour stays with its index and takes the steps of that index.
LEMMA FocusSteps ==
  ASSUME [Next]_vars
  PROVE  /\ focus' = focus
         /\ focus = "text" => [F!Next]_(F!vars)
         /\ focus = "vectors" => [V!Next]_(V!vars)
         /\ focus = "specs" => [S!Next]_(S!vars)
<1>1. CASE UNCHANGED vars
  BY <1>1 DEF vars, inFV, onlyF, onlyV, onlyS, F!vars, F!sql, V!vars, V!source, V!index, S!vars,
              S!index, S!history
<1>2. CASE Next
  BY <1>2 DEF Next
<1> QED
  BY <1>1, <1>2

\* RebuildCovers of the run Indexes, for any behaviour of the indexes.
THEOREM RebuildCoversHolds == Spec => RebuildCovers
<1> DEFINE Inv == (focus = "text" => TextInv) /\ (focus = "specs" => SpecInv)
<1>1. Init => Inv
  BY TextBegins, SpecsBegin DEF Init
<1>2. Inv /\ [Next]_vars => Inv'
  BY TextKept, SpecKept, FocusSteps
<1>3. Inv /\ Inv' /\ [Next]_vars
        => [(focus = "text" => F!CoversStep) /\ (focus = "specs" => S!RebuildCovers')]_vars
  <2>1. SpecInv' => S!RebuildCovers'
    BY SpecCovers, PTL
  <2> QED
    BY <2>1, TextCovers, FocusSteps
<1> QED
  BY <1>1, <1>2, <1>3, PTL DEF Spec, RebuildCovers

\* RunEndsFresh of the run Indexes, for any behaviour of the indexes.
THEOREM RunEndsFreshHolds == Spec => RunEndsFresh
<1> DEFINE Inv == focus = "text" => TextInv
<1>1. Init => Inv
  BY TextBegins DEF Init
<1>2. Inv /\ [Next]_vars => Inv'
  BY TextKept, FocusSteps
<1>3. Inv /\ [Next]_vars => [focus = "text" => F!FreshStep]_vars
  BY TextFresh
<1> QED
  BY <1>1, <1>2, <1>3, PTL DEF Spec, RunEndsFresh

\* LateUploadsSeen of the run Indexes, for any behaviour of the indexes.
THEOREM LateUploadsSeenHolds == Spec => []LateUploadsSeen
<1> DEFINE Inv == focus = "vectors" => VectorInv
<1>1. Init => Inv
  BY VectorsBegin DEF Init
<1>2. Inv /\ [Next]_vars => Inv'
  BY VectorsKept, FocusSteps
<1>3. Inv => LateUploadsSeen
  BY LateSeen DEF LateUploadsSeen
<1> QED
  BY <1>1, <1>2, <1>3, PTL DEF Spec

\* OneModel of the run Indexes, for any behaviour of the indexes.
THEOREM OneModelHolds == Spec => []OneModel
<1> DEFINE Inv == focus = "vectors" => VectorInv
<1>1. Init => Inv
  BY VectorsBegin DEF Init
<1>2. Inv /\ [Next]_vars => Inv'
  BY VectorsKept, FocusSteps
<1>3. Inv => OneModel
  BY DEF VectorInv, OneModel
<1> QED
  BY <1>1, <1>2, <1>3, PTL DEF Spec
=============================================================================
