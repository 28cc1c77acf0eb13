--------------------------- MODULE PipelineProofs ---------------------------
(***************************************************************************)
(* Theorems about Pipeline for every set of calls, every batch size, every *)
(* capacity and every number of preparation threads.                       *)
(***************************************************************************)
EXTENDS Pipeline, FiniteSetTheorems, TLAPS

\* The permits of a state add up to the capacity, whichever way they are named.
GrantedIn(r) == {b \in Batches : r[b] = "granted"}
Counts(free, h, r) == free + Cardinality(h) + Cardinality(GrantedIn(r)) = Limit

\* Items leave the source in order.
InOrder ==
  \A b \in Batches :
    /\ next[b] \in 0 .. Size[b]
    /\ \A i \in 1 .. Size[b] : stage[<<b, i>>] = "source" <=> i > next[b]

\* A reservation stands for an item that is still to be submitted.
ReserveNeeded ==
  \A b \in Batches : reserve[b] # "none" => b \notin SyncBatches /\ next[b] < Size[b]

\* A call that has not begun submitted nothing; only a running one reserves.
IdleUntouched ==
  \A b \in Batches :
    /\ pc[b] = "idle" => next[b] = 0
    /\ reserve[b] # "none" => pc[b] = "running"

PermitInv ==
  /\ available \in Nat
  /\ IsFiniteSet(held) /\ held \subseteq Items
  /\ reserve \in [Batches -> Reserve]
  /\ stage \in [Items -> Stage]
  /\ outcome \in [Items -> Outcome]
  /\ next \in [Batches -> Nat]
  /\ Counts(available, held, reserve)
  /\ PendingHoldPermits
  /\ InOrder
  /\ ReserveNeeded

\* What only the rest of the state needs.
RestInv ==
  /\ result \in [Items -> {"none"} \cup PrepareResult \cup PersistResult]
  /\ committed \in SUBSET Items
  /\ flag \in [Batches -> BOOLEAN]
  /\ cancelled \in [Batches -> BOOLEAN]
  /\ fatal \in [Batches -> BOOLEAN]
  /\ pc \in [Batches -> {"idle", "running"} \cup Ended]
  /\ down \in {"up", "prepare", "all"}
  /\ IdleUntouched

Inv == PermitInv /\ RestInv

-----------------------------------------------------------------------------
\* Facts about counting.

\* Sizes of the sets that are counted are numbers.
LEMMA Numbers ==
  ASSUME NEW h, IsFiniteSet(h), NEW r
  PROVE  /\ Cardinality(h) \in Nat
         /\ IsFiniteSet(GrantedIn(r)) /\ Cardinality(GrantedIn(r)) \in Nat
<1>1. IsFiniteSet(GrantedIn(r))
  BY BatchKinds, FS_Subset DEF GrantedIn
<1> QED
  BY <1>1, FS_CardinalityType

\* A wake-up grants nothing and forgets no reservation.
LEMMA WakeKeeps ==
  ASSUME NEW r \in [Batches -> Reserve]
  PROVE  /\ Wake(r) \in [Batches -> Reserve]
         /\ GrantedIn(Wake(r)) = GrantedIn(r)
         /\ \A b \in Batches : Wake(r)[b] = "none" <=> r[b] = "none"
BY DEF Wake, Reserve, Unreserved, GrantedIn

\* A granted reservation that is taken or given back leaves the count.
LEMMA Ungrant ==
  ASSUME NEW r \in [Batches -> Reserve], NEW b \in Batches, r[b] = "granted"
  PROVE  /\ [r EXCEPT ![b] = "none"] \in [Batches -> Reserve]
         /\ Cardinality(GrantedIn([r EXCEPT ![b] = "none"])) + 1
              = Cardinality(GrantedIn(r))
<1> DEFINE q == [r EXCEPT ![b] = "none"]
<1>1. GrantedIn(q) = GrantedIn(r) \ {b} /\ b \in GrantedIn(r)
  BY DEF GrantedIn
<1>2. Cardinality(GrantedIn(q)) = Cardinality(GrantedIn(r)) - 1
  <2>1. IsFiniteSet(GrantedIn(r))
    BY BatchKinds, FS_Subset DEF GrantedIn
  <2> QED
    BY <1>1, <2>1, FS_RemoveElement
<1>3. Cardinality(GrantedIn(r)) \in Nat
  BY BatchKinds, FS_Subset, FS_CardinalityType DEF GrantedIn
<1> QED
  BY <1>2, <1>3 DEF Reserve

\* Any other change of a reservation that is not granted keeps the count.
LEMMA NotGranted ==
  ASSUME NEW r \in [Batches -> Reserve], NEW b \in Batches, r[b] # "granted",
         NEW v \in Reserve \ {"granted"}
  PROVE  /\ [r EXCEPT ![b] = v] \in [Batches -> Reserve]
         /\ GrantedIn([r EXCEPT ![b] = v]) = GrantedIn(r)
BY DEF GrantedIn

\* Items of a batch are items.
LEMMA ItemOf ==
  ASSUME NEW b \in Batches
  PROVE  /\ ItemsOf(b) \subseteq Items
         /\ \A i \in 1 .. Size[b] : <<b, i>> \in ItemsOf(b)
         /\ \A x \in ItemsOf(b) : x[1] = b /\ x[2] \in 1 .. Size[b] /\ x = <<b, x[2]>>
BY DEF Items, ItemsOf

\* Every item is one of a batch.
LEMMA ItemHasBatch ==
  ASSUME NEW x \in Items
  PROVE  x[1] \in Batches /\ x \in ItemsOf(x[1])
BY DEF Items, ItemsOf

-----------------------------------------------------------------------------
\* The building blocks of the steps.

\* A pending item gives its permit back.
LEMMA ReleaseCounts ==
  ASSUME PermitInv, NEW x \in Items, stage[x] \in Pending, Release(x)
  PROVE  /\ available' \in Nat
         /\ IsFiniteSet(held') /\ held' = held \ {x}
         /\ reserve' \in [Batches -> Reserve]
         /\ Counts(available', held', reserve')
         /\ \A b \in Batches : reserve'[b] = "none" <=> reserve[b] = "none"
<1>1. x \in held
  BY DEF PermitInv, PendingHoldPermits
<1>2. available' = available + 1 /\ held' = held \ {x} /\ reserve' = Wake(reserve)
  BY <1>1 DEF Release
<1>3. IsFiniteSet(held') /\ Cardinality(held') = Cardinality(held) - 1
  BY <1>1, <1>2, FS_RemoveElement DEF PermitInv
<1>4. Cardinality(held) \in Nat /\ Cardinality(GrantedIn(reserve)) \in Nat
  BY Numbers DEF PermitInv
<1>5. available \in Nat /\ reserve \in [Batches -> Reserve] /\ Counts(available, held, reserve)
  BY DEF PermitInv
<1>6. GrantedIn(reserve') = GrantedIn(reserve)
  BY <1>2, <1>5, WakeKeeps
<1> QED
  BY <1>2, <1>3, <1>4, <1>5, <1>6, WakeKeeps DEF Counts

\* Where the permit invariant only depends on the stage through "pending".
LEMMA StageKeeps ==
  ASSUME PermitInv, NEW x \in Items, stage[x] \in Pending,
         NEW s \in Pending, stage' = [stage EXCEPT ![x] = s],
         UNCHANGED <<permitVars, outcome, next>>
  PROVE  PermitInv'
<1>1. stage' \in [Items -> Stage] /\ s # "source" /\ stage[x] # "source"
  BY DEF PermitInv, Stage, Pending
<1>2. PendingHoldPermits'
  BY <1>1 DEF PermitInv, PendingHoldPermits, permitVars
<1>3. InOrder'
  BY <1>1, ItemOf DEF PermitInv, InOrder
<1>4. ReserveNeeded' /\ Counts(available', held', reserve')
  BY DEF PermitInv, ReserveNeeded, permitVars
<1> QED
  BY <1>1, <1>2, <1>3, <1>4 DEF PermitInv, permitVars

\* An item that is recorded, dropped or handed on without its permit.
LEMMA Retire ==
  ASSUME PermitInv, NEW x \in Items, stage[x] \in Pending, Release(x),
         NEW s \in {"recorded", "dropped"}, stage' = [stage EXCEPT ![x] = s],
         outcome' \in [Items -> Outcome], next' = next
  PROVE  PermitInv'
<1>1. stage' \in [Items -> Stage] /\ s # "source" /\ stage[x] # "source" /\ s \notin Pending
  BY DEF PermitInv, Stage, Pending
<1>2. /\ available' \in Nat /\ IsFiniteSet(held') /\ held' = held \ {x}
      /\ reserve' \in [Batches -> Reserve] /\ Counts(available', held', reserve')
      /\ \A b \in Batches : reserve'[b] = "none" <=> reserve[b] = "none"
  BY ReleaseCounts
<1>3. PendingHoldPermits'
  BY <1>1, <1>2 DEF PermitInv, PendingHoldPermits
<1>4. InOrder'
  BY <1>1, ItemOf DEF PermitInv, InOrder
<1>5. ReserveNeeded'
  BY <1>2 DEF PermitInv, ReserveNeeded
<1> QED
  BY <1>1, <1>2, <1>3, <1>4, <1>5 DEF PermitInv

\* A recorded outcome is an outcome.
LEMMA RecordTyped ==
  ASSUME PermitInv, NEW x \in Items, NEW out \in Outcome, Record(x, out)
  PROVE  /\ stage' = [stage EXCEPT ![x] = "recorded"]
         /\ outcome' \in [Items -> Outcome]
BY DEF PermitInv, Record

\* Submission with a permit in hand, accepted or rejected.
LEMMA SubmitKeeps ==
  ASSUME PermitInv, NEW b \in Batches, next[b] < Size[b],
         NEW free \in Nat, NEW r \in [Batches -> Reserve],
         free + Cardinality(held) + Cardinality(GrantedIn(r)) + 1 = Limit,
         r[b] = "none", \A c \in Batches : r[c] # "none" => reserve[c] # "none",
         Submit(b, free, r)
  PROVE  PermitInv' /\ next' = [next EXCEPT ![b] = @ + 1]
<1> DEFINE x == <<b, next[b] + 1>>
<1>1. next[b] \in 0 .. Size[b] /\ Size[b] \in Nat /\ next[b] + 1 \in 1 .. Size[b]
  BY Sizes DEF PermitInv, InOrder
<1>2. x \in Items /\ stage[x] = "source"
  BY <1>1, ItemOf DEF PermitInv, InOrder
<1>3. x \notin held
  BY <1>2 DEF PermitInv, PendingHoldPermits, Pending
<1>4. Cardinality(held) \in Nat /\ Cardinality(GrantedIn(r)) \in Nat
  BY Numbers DEF PermitInv
<1>5. next' = [next EXCEPT ![b] = @ + 1]
  BY DEF Submit
<1>6. ASSUME NEW s \in Stage \ {"source"}, stage' = [stage EXCEPT ![x] = s]
      PROVE  stage' \in [Items -> Stage] /\ InOrder'
  <2>1. stage' \in [Items -> Stage]
    BY <1>6 DEF PermitInv
  <2>3. ASSUME NEW c \in Batches
        PROVE  /\ next'[c] \in 0 .. Size[c]
               /\ \A i \in 1 .. Size[c] : stage'[<<c, i>>] = "source" <=> i > next'[c]
    <3>1. CASE c # b
      <4>1. next'[c] = next[c] /\ \A i \in 1 .. Size[c] : stage'[<<c, i>>] = stage[<<c, i>>]
        BY <3>1, <1>5, <1>6, ItemOf DEF PermitInv
      <4> QED
        BY <4>1 DEF PermitInv, InOrder
    <3>2. CASE c = b
      <4>1. next'[b] = next[b] + 1
        BY <1>5 DEF PermitInv
      <4>2. ASSUME NEW i \in 1 .. Size[b], i # next[b] + 1
            PROVE  stage'[<<b, i>>] = "source" <=> i > next[b] + 1
        <5>1. stage'[<<b, i>>] = stage[<<b, i>>] /\ (stage[<<b, i>>] = "source" <=> i > next[b])
          BY <4>2, <1>6, ItemOf DEF PermitInv, InOrder
        <5> QED
          BY <5>1, <4>2, <1>1
      <4>3. stage'[x] # "source"
        BY <1>2, <1>6 DEF PermitInv
      <4> QED
        BY <3>2, <4>1, <4>2, <4>3, <1>1
    <3> QED
      BY <3>1, <3>2
  <2> QED
    BY <2>1, <2>3 DEF InOrder
<1>7. next' \in [Batches -> Nat]
  BY <1>1, <1>5 DEF PermitInv
<1>8. ASSUME \A c \in Batches : reserve'[c] # "none" => r[c] # "none"
      PROVE  ReserveNeeded'
  <2> SUFFICES ASSUME NEW c \in Batches, reserve'[c] # "none"
               PROVE  c \notin SyncBatches /\ next'[c] < Size[c]
    BY DEF ReserveNeeded
  <2>1. c # b /\ c \notin SyncBatches /\ next[c] < Size[c]
    BY <1>8 DEF PermitInv, ReserveNeeded
  <2> QED
    BY <2>1, <1>5 DEF PermitInv
<1>9. CASE down = "up"
  <2>1. /\ stage' = [stage EXCEPT ![x] = "prepQueued"] /\ held' = held \cup {x}
        /\ available' = free /\ reserve' = r /\ outcome' = outcome
    BY <1>9 DEF Submit
  <2>2. IsFiniteSet(held') /\ Cardinality(held') = Cardinality(held) + 1
    BY <2>1, <1>3, FS_AddElement DEF PermitInv
  <2>3. Counts(available', held', reserve')
    BY <2>1, <2>2, <1>4 DEF Counts
  <2>4. PendingHoldPermits'
    BY <2>1, <1>2 DEF PermitInv, PendingHoldPermits, Pending
  <2>5. stage' \in [Items -> Stage] /\ InOrder'
    BY <2>1, <1>6 DEF Stage, Pending
  <2> QED
    BY <2>1, <2>2, <2>3, <2>4, <2>5, <1>2, <1>5, <1>7, <1>8 DEF PermitInv
<1>10. CASE down # "up"
  <2>1. /\ stage' = [stage EXCEPT ![x] = "recorded"] /\ held' = held
        /\ outcome' = [outcome EXCEPT ![x] = "failed"]
        /\ available' = free + 1 /\ reserve' = Wake(r)
    BY <1>10 DEF Submit, Record
  <2>2. /\ reserve' \in [Batches -> Reserve] /\ GrantedIn(reserve') = GrantedIn(r)
        /\ \A c \in Batches : reserve'[c] = "none" <=> r[c] = "none"
    BY <2>1, WakeKeeps
  <2>3. Counts(available', held', reserve')
    BY <2>1, <2>2, <1>4 DEF Counts
  <2>4. PendingHoldPermits'
    BY <2>1, <1>2, <1>3 DEF PermitInv, PendingHoldPermits, Pending
  <2>5. stage' \in [Items -> Stage] /\ InOrder'
    BY <2>1, <1>6 DEF Stage, Pending
  <2>6. outcome' \in [Items -> Outcome]
    BY <2>1 DEF PermitInv, Outcome
  <2>7. ReserveNeeded'
    BY <2>2, <1>8
  <2> QED
    BY <2>1, <2>2, <2>3, <2>4, <2>5, <2>6, <2>7, <1>5, <1>7 DEF PermitInv
<1> QED
  BY <1>5, <1>9, <1>10

-----------------------------------------------------------------------------
\* The permit invariant over the steps that move a permit or an item.

\* Taking a slot or queueing for one.
LEMMA AcquireKeeps ==
  ASSUME PermitInv, NEW b \in Batches, Acquire(b)
  PROVE  PermitInv'
<1>1. /\ reserve[b] # "granted" /\ reserve[b] # "none"
      /\ UNCHANGED <<held, stage, outcome, next>>
  BY DEF Acquire
<1>2. CASE available > 0 /\ available' = available - 1
           /\ reserve' = [reserve EXCEPT ![b] = "granted"]
  <2>1. GrantedIn(reserve') = GrantedIn(reserve) \cup {b} /\ b \notin GrantedIn(reserve)
    BY <1>1, <1>2 DEF GrantedIn, PermitInv
  <2>2. Cardinality(GrantedIn(reserve')) = Cardinality(GrantedIn(reserve)) + 1
    BY <2>1, Numbers, FS_AddElement DEF PermitInv
  <2>3. Counts(available', held', reserve')
    BY <1>1, <1>2, <2>2, Numbers DEF PermitInv, Counts
  <2>4. reserve' \in [Batches -> Reserve] /\ available' \in Nat
    BY <1>2 DEF PermitInv, Reserve
  <2>5. ReserveNeeded'
    BY <1>1, <1>2 DEF PermitInv, ReserveNeeded
  <2> QED
    BY <1>1, <2>3, <2>4, <2>5 DEF PermitInv, PendingHoldPermits, InOrder
<1>3. CASE available' = available /\ reserve' = [reserve EXCEPT ![b] = "waiting"]
  <2>1. reserve' \in [Batches -> Reserve] /\ GrantedIn(reserve') = GrantedIn(reserve)
    BY <1>1, <1>3, NotGranted DEF PermitInv, Reserve, Unreserved
  <2>2. Counts(available', held', reserve')
    BY <1>1, <1>3, <2>1 DEF PermitInv, Counts
  <2>3. ReserveNeeded'
    BY <1>1, <1>3 DEF PermitInv, ReserveNeeded
  <2> QED
    BY <1>1, <1>3, <2>1, <2>2, <2>3 DEF PermitInv, PendingHoldPermits, InOrder
<1> QED
  BY <1>2, <1>3 DEF Acquire

\* Starting or abandoning a reservation that holds no permit.
LEMMA ReservationKeeps ==
  ASSUME PermitInv, NEW b \in Batches, reserve[b] # "granted",
         NEW v \in {"none", "trying"}, reserve' = [reserve EXCEPT ![b] = v],
         v = "none" \/ (b \notin SyncBatches /\ next[b] < Size[b]),
         UNCHANGED <<available, held, stage, outcome, next>>
  PROVE  PermitInv'
<1>1. reserve' \in [Batches -> Reserve] /\ GrantedIn(reserve') = GrantedIn(reserve)
  BY NotGranted DEF PermitInv, Reserve, Unreserved
<1>2. Counts(available', held', reserve')
  BY <1>1 DEF PermitInv, Counts
<1>3. ReserveNeeded'
  BY DEF PermitInv, ReserveNeeded
<1> QED
  BY <1>1, <1>2, <1>3 DEF PermitInv, PendingHoldPermits, InOrder

\* A granted reservation is submitted.
LEMMA GrantSubmits ==
  ASSUME PermitInv, NEW b \in Batches, reserve[b] = "granted",
         Submit(b, available, [reserve EXCEPT ![b] = "none"])
  PROVE  PermitInv' /\ next' = [next EXCEPT ![b] = @ + 1]
<1> DEFINE r == [reserve EXCEPT ![b] = "none"]
<1>1. r \in [Batches -> Reserve]
      /\ Cardinality(GrantedIn(r)) + 1 = Cardinality(GrantedIn(reserve))
  BY Ungrant DEF PermitInv
<1>2. available + Cardinality(held) + Cardinality(GrantedIn(r)) + 1 = Limit
  BY <1>1, Numbers DEF PermitInv, Counts
<1>3. r[b] = "none" /\ \A c \in Batches : r[c] # "none" => reserve[c] # "none"
  BY DEF PermitInv
<1>4. next[b] < Size[b] /\ available \in Nat
  BY DEF PermitInv, ReserveNeeded
<1> HIDE DEF r
<1>5. Submit(b, available, r)
  BY DEF r
<1> QED
  BY <1>1, <1>2, <1>3, <1>4, <1>5, SubmitKeeps

\* The loop takes its granted permit.
LEMMA TakePermitKeeps ==
  ASSUME PermitInv, NEW b \in Batches, TakePermit(b)
  PROVE  PermitInv' /\ next' \in {next, [next EXCEPT ![b] = @ + 1]}
<1>1. reserve[b] = "granted"
  BY DEF TakePermit
<1>2. CASE /\ available' = available + 1
           /\ reserve' = Wake([reserve EXCEPT ![b] = "none"])
           /\ UNCHANGED <<held, stage, outcome, next>>
  <2> DEFINE r == [reserve EXCEPT ![b] = "none"]
  <2>1. r \in [Batches -> Reserve]
        /\ Cardinality(GrantedIn(r)) + 1 = Cardinality(GrantedIn(reserve))
    BY <1>1, Ungrant DEF PermitInv
  <2>2. /\ reserve' \in [Batches -> Reserve] /\ GrantedIn(reserve') = GrantedIn(r)
        /\ \A c \in Batches : reserve'[c] = "none" <=> r[c] = "none"
    BY <1>2, <2>1, WakeKeeps
  <2>3. \A c \in Batches : r[c] # "none" => reserve[c] # "none"
    BY DEF PermitInv
  <2> HIDE DEF r
  <2>4. ReserveNeeded'
    BY <1>2, <2>2, <2>3 DEF PermitInv, ReserveNeeded
  <2>5. /\ Cardinality(held) \in Nat /\ Cardinality(GrantedIn(r)) \in Nat
        /\ available \in Nat /\ available' = available + 1
        /\ UNCHANGED <<held, stage, outcome, next>>
    BY <1>2, Numbers DEF PermitInv
  <2>6. Counts(available', held', reserve')
    BY <2>1, <2>2, <2>5 DEF PermitInv, Counts
  <2> QED
    BY <2>2, <2>4, <2>5, <2>6 DEF PermitInv, PendingHoldPermits, InOrder
<1>3. CASE Submit(b, available, [reserve EXCEPT ![b] = "none"])
  BY <1>1, <1>3, GrantSubmits
<1> QED
  BY <1>2, <1>3 DEF TakePermit

\* A polling call takes a slot and submits.
LEMMA TryReserveKeeps ==
  ASSUME PermitInv, NEW b \in Batches, TryReserve(b)
  PROVE  PermitInv' /\ next' = [next EXCEPT ![b] = @ + 1]
<1>1. /\ b \in SyncBatches /\ next[b] < Size[b] /\ available > 0
      /\ Submit(b, available - 1, reserve)
  BY DEF TryReserve
<1>2. available - 1 \in Nat /\ reserve \in [Batches -> Reserve]
  BY <1>1 DEF PermitInv
<1>3. (available - 1) + Cardinality(held) + Cardinality(GrantedIn(reserve)) + 1 = Limit
  BY <1>1, Numbers DEF PermitInv, Counts
<1>4. reserve[b] = "none"
  BY <1>1 DEF PermitInv, ReserveNeeded
<1> QED
  BY <1>1, <1>2, <1>3, <1>4, SubmitKeeps

\* An item whose future ended is retired, or handed to the writer.
LEMMA ProcessKeeps ==
  ASSUME PermitInv, NEW b \in Batches, NEW x \in ItemsOf(b),
         \/ ProcessPrepared(b, x) \/ ProcessPersisted(b, x)
         \/ DirectPrepared(b, x) \/ DirectPersisted(b, x)
  PROVE  PermitInv' /\ next' = next
<1>1. x \in Items /\ stage[x] \in Pending
  BY ItemOf DEF ProcessPrepared, ProcessPersisted, DirectPrepared, DirectPersisted, Pending
<1>2. next' = next
  BY DEF ProcessPrepared, ProcessPersisted, DirectPrepared, DirectPersisted
<1>3. ASSUME NEW out \in {"success", "skipped", "failed"}, Release(x), Record(x, out)
      PROVE  PermitInv'
  BY <1>1, <1>2, <1>3, RecordTyped, Retire DEF Outcome
<1>4. ASSUME Release(x), Drop(x)
      PROVE  PermitInv'
  <2>1. outcome' \in [Items -> Outcome] /\ stage' = [stage EXCEPT ![x] = "dropped"]
    BY <1>4 DEF Drop, PermitInv
  <2> QED
    BY <1>1, <1>2, <1>4, <2>1, Retire
<1>5. ASSUME HandOver(x)
      PROVE  PermitInv'
  BY <1>1, <1>2, <1>5, StageKeeps DEF HandOver, Pending
<1>6. CASE ProcessPrepared(b, x)
  BY <1>3, <1>4, <1>5, <1>6 DEF ProcessPrepared, RecordException, Discard
<1>7. CASE ProcessPersisted(b, x)
  BY <1>3, <1>4, <1>7 DEF ProcessPersisted, RecordException
<1>8. CASE DirectPrepared(b, x)
  BY <1>3, <1>4, <1>5, <1>8 DEF DirectPrepared, DirectRaised
<1>9. CASE DirectPersisted(b, x)
  BY <1>3, <1>4, <1>9 DEF DirectPersisted, DirectRaised
<1> QED
  BY <1>2, <1>6, <1>7, <1>8, <1>9

\* The pool threads move pending items only.
LEMMA ThreadsKeep ==
  ASSUME PermitInv, Threads
  PROVE  PermitInv'
<1>1. PICK x \in Items :
        \/ PrepareStart(x) \/ PersistStart(x)
        \/ \E res \in PrepareResult : PrepareEnd(x, res)
        \/ \E res \in PersistResult : PersistEnd(x, res)
  BY DEF Threads
<1>2. UNCHANGED <<permitVars, outcome, next>>
  BY <1>1 DEF PrepareStart, PersistStart, PrepareEnd, PersistEnd
<1>3. \E s \in Pending : stage' = [stage EXCEPT ![x] = s]
  BY <1>1 DEF PrepareStart, PersistStart, PrepareEnd, PersistEnd, Pending
<1>4. stage[x] \in Pending
  BY <1>1 DEF PrepareStart, PersistStart, PrepareEnd, PersistEnd, Pending
<1> QED
  BY <1>2, <1>3, <1>4, StageKeeps

\* Shutdown turns queued preparations into finished ones.
LEMMA ShutdownKeeps ==
  ASSUME PermitInv, Shutdown
  PROVE  PermitInv'
<1>1. UNCHANGED <<permitVars, outcome, next>>
      /\ stage' = [x \in Items |-> IF stage[x] = "prepQueued" THEN "prepDone" ELSE stage[x]]
  BY DEF Shutdown
<1>2. /\ stage' \in [Items -> Stage]
      /\ \A x \in Items : stage'[x] \in Pending <=> stage[x] \in Pending
      /\ \A x \in Items : stage'[x] = "source" <=> stage[x] = "source"
  BY <1>1 DEF PermitInv, Stage, Pending
<1>3. PendingHoldPermits'
  BY <1>1, <1>2 DEF PermitInv, PendingHoldPermits, permitVars
<1>4. InOrder'
  BY <1>1, <1>2, ItemOf DEF PermitInv, InOrder
<1> QED
  BY <1>1, <1>2, <1>3, <1>4 DEF PermitInv, permitVars, ReserveNeeded

-----------------------------------------------------------------------------
\* The whole step.

\* A call that begins; only the spec document handler reserves at once.
LEMMA StartKeeps ==
  ASSUME PermitInv, IdleUntouched, NEW b \in Batches, Start(b)
  PROVE  PermitInv'
<1>1. /\ pc[b] = "idle" /\ next[b] = 0 /\ reserve[b] = "none"
      /\ UNCHANGED <<available, held, stage, outcome, next>>
  BY DEF Start, IdleUntouched
<1>2. CASE b \in DirectBatches
  <2>1. reserve' = [reserve EXCEPT ![b] = "trying"] /\ b \notin SyncBatches /\ next[b] < Size[b]
    BY <1>1, <1>2, BatchKinds, Sizes DEF Start
  <2> QED
    BY <1>1, <2>1, ReservationKeeps
<1>3. CASE b \notin DirectBatches
  BY <1>1, <1>3 DEF Start, PermitInv, PendingHoldPermits, InOrder, ReserveNeeded
<1> QED
  BY <1>2, <1>3

\* A step reserves for running calls only, and keeps the order of submissions.
LEMMA StepReserves ==
  ASSUME Inv, NEW b \in Batches,
         Start(b) \/ RequestCancel(b) \/ Loop(b)
  PROVE  /\ PermitInv'
         /\ \A c \in Batches : reserve'[c] # "none" => reserve[c] # "none" \/ pc'[c] = "running"
         /\ \A c \in Batches : c # b => next'[c] = next[c]
<1> USE DEF Inv
<1>1. PermitInv /\ reserve \in [Batches -> Reserve] /\ next \in [Batches -> Nat]
      /\ pc \in [Batches -> {"idle", "running"} \cup Ended]
  BY DEF PermitInv, RestInv
<1>2. CASE Start(b)
  <2>1. PermitInv'
    BY <1>2, StartKeeps DEF RestInv
  <2> QED
    BY <1>1, <1>2, <2>1, Sizes DEF Start
<1>3. CASE RequestCancel(b)
  BY <1>1, <1>3 DEF RequestCancel, permitVars, PermitInv, PendingHoldPermits, InOrder, ReserveNeeded
<1>4. CASE NoticeStop(b)
  <2>1. CASE reserve[b] \in Unreserved
    BY <1>1, <1>4, <2>1, ReservationKeeps DEF NoticeStop, Unreserved
  <2>2. CASE reserve[b] \notin Unreserved
    <3>1. UNCHANGED <<available, held, stage, outcome, next, reserve>>
      BY <1>1, <1>4, <2>2 DEF NoticeStop
    <3> QED
      BY <1>1, <3>1 DEF PermitInv, PendingHoldPermits, InOrder, ReserveNeeded
  <2> QED
    BY <2>1, <2>2
<1>5. CASE StartReserve(b)
  <2>1. PermitInv'
    BY <1>1, <1>5, ReservationKeeps DEF StartReserve
  <2> QED
    BY <1>1, <1>5, <2>1 DEF StartReserve, Runs
<1>6. CASE Acquire(b)
  BY <1>1, <1>6, AcquireKeeps DEF Acquire
<1>7. ASSUME NEW free, NEW r \in [Batches -> Reserve], Submit(b, free, r),
             \A c \in Batches : r[c] # "none" => reserve[c] # "none"
      PROVE  /\ \A c \in Batches : reserve'[c] # "none" => reserve[c] # "none"
             /\ \A c \in Batches : c # b => next'[c] = next[c]
  <2>1. reserve' = r \/ reserve' = Wake(r)
    BY <1>7 DEF Submit
  <2>2. next' = [next EXCEPT ![b] = @ + 1]
    BY <1>7 DEF Submit
  <2> QED
    BY <1>1, <1>7, <2>1, <2>2, WakeKeeps
<1>8. /\ [reserve EXCEPT ![b] = "none"] \in [Batches -> Reserve]
      /\ \A c \in Batches : [reserve EXCEPT ![b] = "none"][c] # "none" => reserve[c] # "none"
  BY <1>1 DEF Reserve
<1>9. CASE TakePermit(b)
  <2>1. PermitInv'
    BY <1>1, <1>9, TakePermitKeeps
  <2>2. CASE Submit(b, available, [reserve EXCEPT ![b] = "none"])
    BY <2>1, <2>2, <1>7, <1>8
  <2>3. CASE reserve' = Wake([reserve EXCEPT ![b] = "none"]) /\ next' = next
    BY <2>1, <2>3, <1>8, WakeKeeps
  <2> QED
    BY <1>9, <2>2, <2>3 DEF TakePermit
<1>10. CASE TryReserve(b)
  <2>1. PermitInv' /\ Submit(b, available - 1, reserve)
    BY <1>1, <1>10, TryReserveKeeps DEF TryReserve
  <2> QED
    BY <1>1, <1>7, <2>1
<1>11. CASE Finish(b)
  BY <1>1, <1>11 DEF Finish, permitVars, PermitInv, PendingHoldPermits, InOrder, ReserveNeeded
<1>12. CASE DirectSubmit(b)
  <2>1. PermitInv' /\ Submit(b, available, [reserve EXCEPT ![b] = "none"])
    BY <1>1, <1>12, GrantSubmits DEF DirectSubmit
  <2> QED
    BY <2>1, <1>7, <1>8
<1>13. CASE Process(b)
  <2>1. PICK x \in ItemsOf(b) :
          \/ ProcessPrepared(b, x) \/ ProcessPersisted(b, x)
          \/ DirectPrepared(b, x) \/ DirectPersisted(b, x)
    BY <1>13 DEF Process
  <2>2. PermitInv' /\ next' = next
    BY <1>1, <2>1, ProcessKeeps
  <2>3. reserve' = reserve \/ reserve' = Wake(reserve)
    BY <2>1 DEF ProcessPrepared, ProcessPersisted, DirectPrepared, DirectPersisted,
                RecordException, Discard, DirectRaised, HandOver, Release, permitVars
  <2> QED
    BY <1>1, <2>2, <2>3, WakeKeeps
<1> QED
  BY <1>2, <1>3, <1>4, <1>5, <1>6, <1>9, <1>10, <1>11, <1>12, <1>13 DEF Loop

\* A batch's own step: how it moves the variables that are not about permits.
LEMMA StepRest ==
  ASSUME Inv, NEW b \in Batches,
         Start(b) \/ RequestCancel(b) \/ Loop(b)
  PROVE  /\ UNCHANGED <<result, committed, down>>
         /\ \E v \in BOOLEAN : flag' = [flag EXCEPT ![b] = v \/ @]
         /\ \E v \in BOOLEAN : cancelled' = [cancelled EXCEPT ![b] = v]
         /\ \E v \in BOOLEAN : fatal' = [fatal EXCEPT ![b] = v]
         /\ pc' = pc \/ \E v \in {"running"} \cup Ended : pc' = [pc EXCEPT ![b] = v]
         /\ pc'[b] = "idle" => next'[b] = next[b] /\ pc[b] = "idle"
<1>1. /\ flag \in [Batches -> BOOLEAN] /\ cancelled \in [Batches -> BOOLEAN]
      /\ fatal \in [Batches -> BOOLEAN]
      /\ pc \in [Batches -> {"idle", "running"} \cup Ended]
  BY DEF Inv, RestInv
<1>2. /\ \E v \in BOOLEAN : flag = [flag EXCEPT ![b] = v \/ @]
      /\ \E v \in BOOLEAN : cancelled = [cancelled EXCEPT ![b] = v]
      /\ \E v \in BOOLEAN : fatal = [fatal EXCEPT ![b] = v]
  <2>1. /\ flag = [flag EXCEPT ![b] = FALSE \/ @]
        /\ cancelled = [cancelled EXCEPT ![b] = cancelled[b]]
        /\ fatal = [fatal EXCEPT ![b] = fatal[b]]
    BY <1>1
  <2> QED
    BY <1>1, <2>1
<1>3. CASE Start(b)
  BY <1>1, <1>2, <1>3 DEF Start, stopVars, Ended
<1>4. CASE RequestCancel(b)
  BY <1>1, <1>2, <1>4 DEF RequestCancel, stopVars
<1>5. CASE NoticeStop(b)
  BY <1>1, <1>2, <1>5 DEF NoticeStop, Runs
<1>6. CASE StartReserve(b) \/ Acquire(b)
  BY <1>1, <1>2, <1>6 DEF StartReserve, Acquire, stopVars
<1>7. ASSUME NEW checks \in BOOLEAN, Emit(b, checks)
      PROVE  /\ \E v \in BOOLEAN : cancelled' = [cancelled EXCEPT ![b] = v]
             /\ \E v \in BOOLEAN : fatal' = [fatal EXCEPT ![b] = v]
  BY <1>1, <1>7 DEF Emit
<1>8. CASE TakePermit(b)
  BY <1>1, <1>2, <1>7, <1>8 DEF TakePermit, Runs, stopVars, CheckCancelled
<1>9. CASE TryReserve(b)
  BY <1>1, <1>2, <1>7, <1>9 DEF TryReserve, Runs, stopVars
<1>10. CASE Finish(b)
  BY <1>1, <1>2, <1>10 DEF Finish, Runs, CheckCancelled, Ended
<1>11. CASE DirectSubmit(b)
  BY <1>1, <1>2, <1>11 DEF DirectSubmit, RunsDirect, stopVars, EndDirect, Ended
<1>12. CASE Process(b)
  <2>1. PICK x \in ItemsOf(b) :
          \/ ProcessPrepared(b, x) \/ ProcessPersisted(b, x)
          \/ DirectPrepared(b, x) \/ DirectPersisted(b, x)
    BY <1>12 DEF Process
  <2>2. ASSUME RecordException(b, x) \/ Discard(b, x)
        PROVE  /\ \E v \in BOOLEAN : cancelled' = [cancelled EXCEPT ![b] = v]
               /\ \E v \in BOOLEAN : fatal' = [fatal EXCEPT ![b] = v]
    BY <1>1, <1>2, <1>7, <2>2 DEF RecordException, Discard, CheckCancelled
  <2>3. CASE ProcessPrepared(b, x)
    BY <1>1, <1>2, <1>7, <2>2, <2>3 DEF ProcessPrepared, Runs, HandOver, stopVars
  <2>4. CASE ProcessPersisted(b, x)
    BY <1>1, <1>2, <1>7, <2>2, <2>4 DEF ProcessPersisted, Runs
  <2>5. CASE DirectPrepared(b, x)
    BY <1>1, <1>2, <2>5 DEF DirectPrepared, DirectRaised, RunsDirect, HandOver, stopVars,
                            EndDirect, Ended
  <2>6. CASE DirectPersisted(b, x)
    BY <1>1, <1>2, <2>6 DEF DirectPersisted, DirectRaised, RunsDirect, stopVars, EndDirect, Ended
  <2> QED
    BY <2>1, <2>3, <2>4, <2>5, <2>6
<1> QED
  BY <1>3, <1>4, <1>5, <1>6, <1>8, <1>9, <1>10, <1>11, <1>12 DEF Loop

\* A spec document job has one item: once that is submitted, it holds no
\* reservation any more.
LEMMA DirectSpent ==
  ASSUME PermitInv, NEW b \in DirectBatches, NEW x \in ItemsOf(b), stage[x] # "source"
  PROVE  reserve[b] = "none"
<1>1. b \in Batches /\ Size[b] = 1
  BY BatchKinds, Sizes
<1>2. x = <<b, 1>> /\ 1 \in 1 .. Size[b]
  BY <1>1, ItemOf
<1>3. next[b] \in 0 .. 1 /\ ~ (1 > next[b])
  BY <1>1, <1>2 DEF PermitInv, InOrder
<1> QED
  BY <1>1, <1>3 DEF PermitInv, ReserveNeeded

\* A call that ends leaves no reservation behind.
LEMMA StepRuns ==
  ASSUME Inv, NEW b \in Batches,
         Start(b) \/ RequestCancel(b) \/ Loop(b), reserve'[b] # "none"
  PROVE  pc'[b] = "running"
<1>1. /\ pc \in [Batches -> {"idle", "running"} \cup Ended]
      /\ reserve \in [Batches -> Reserve]
      /\ reserve[b] # "none" => pc[b] = "running"
  BY DEF Inv, RestInv, PermitInv, IdleUntouched
<1>2. CASE Start(b)
  <2>1. b \in DirectBatches /\ Size[b] = 1
    BY <1>1, <1>2, Sizes DEF Start
  <2> QED
    BY <1>1, <1>2, <2>1 DEF Start
<1>3. reserve[b] # "none" \/ pc'[b] = "running"
  BY <1>2, StepReserves
<1>4. CASE reserve[b] # "none"
  <2>1. pc[b] = "running"
    BY <1>1, <1>4
  <2>2. CASE RequestCancel(b) \/ NoticeStop(b) \/ StartReserve(b) \/ Acquire(b)
             \/ TakePermit(b) \/ TryReserve(b)
    BY <2>1, <2>2 DEF RequestCancel, NoticeStop, StartReserve, Acquire, TakePermit, TryReserve
  <2>3. CASE Finish(b)
    BY <1>4, <2>3 DEF Finish
  <2>4. CASE DirectSubmit(b)
    <3>1. reserve' = [reserve EXCEPT ![b] = "none"] \/ reserve' = Wake([reserve EXCEPT ![b] = "none"])
      BY <2>4 DEF DirectSubmit, Submit
    <3>2. [reserve EXCEPT ![b] = "none"] \in [Batches -> Reserve]
          /\ [reserve EXCEPT ![b] = "none"][b] = "none"
      BY <1>1 DEF Reserve
    <3> QED
      BY <3>1, <3>2, WakeKeeps
  <2>5. CASE Process(b)
    <3>1. PICK x \in ItemsOf(b) :
            \/ ProcessPrepared(b, x) \/ ProcessPersisted(b, x)
            \/ DirectPrepared(b, x) \/ DirectPersisted(b, x)
      BY <2>5 DEF Process
    <3>2. CASE ProcessPrepared(b, x) \/ ProcessPersisted(b, x)
      BY <2>1, <3>2 DEF ProcessPrepared, ProcessPersisted
    <3>3. CASE DirectPrepared(b, x) \/ DirectPersisted(b, x)
      <4>1. b \in DirectBatches /\ stage[x] # "source"
        BY <3>3 DEF DirectPrepared, DirectPersisted, RunsDirect
      <4> QED
        BY <4>1, <1>4, DirectSpent DEF Inv
    <3> QED
      BY <3>1, <3>2, <3>3
  <2> QED
    BY <1>2, <2>2, <2>3, <2>4, <2>5 DEF Loop, Start, Inv, RestInv, IdleUntouched
<1> QED
  BY <1>3, <1>4

\* A thread's step, and the two halves of shutdown, leave the calls alone.
LEMMA PoolRest ==
  ASSUME Inv, Threads \/ Shutdown \/ ShutdownPersist
  PROVE  /\ PermitInv'
         /\ UNCHANGED <<reserve, next, flag, stopVars, pc>>
         /\ result' \in [Items -> {"none"} \cup PrepareResult \cup PersistResult]
         /\ committed' \in SUBSET Items
         /\ down' \in {"up", "prepare", "all"}
<1>1. CASE Threads
  <2>1. PICK x \in Items :
          \/ PrepareStart(x) \/ PersistStart(x)
          \/ \E res \in PrepareResult : PrepareEnd(x, res)
          \/ \E res \in PersistResult : PersistEnd(x, res)
    BY <1>1 DEF Threads
  <2>2. UNCHANGED <<reserve, next, flag, stopVars, pc, down>>
    BY <2>1 DEF PrepareStart, PersistStart, PrepareEnd, PersistEnd, permitVars
  <2>3. /\ result' \in [Items -> {"none"} \cup PrepareResult \cup PersistResult]
        /\ committed' \in SUBSET Items
    BY <2>1 DEF PrepareStart, PersistStart, PrepareEnd, PersistEnd, Inv, RestInv
  <2> QED
    BY <1>1, <2>2, <2>3, ThreadsKeep DEF Inv, RestInv
<1>2. CASE Shutdown
  BY <1>2, ShutdownKeeps DEF Shutdown, Inv, RestInv, permitVars, PrepareResult, Raised
<1>3. CASE ShutdownPersist
  BY <1>3 DEF ShutdownPersist, Inv, RestInv, PermitInv, permitVars, PendingHoldPermits, InOrder,
              ReserveNeeded
<1> QED
  BY <1>1, <1>2, <1>3

\* The invariant is inductive.
LEMMA InvKept == Inv /\ [Next]_vars => Inv'
<1> SUFFICES ASSUME Inv, [Next]_vars PROVE Inv'
  OBVIOUS
<1>1. CASE UNCHANGED vars
  BY <1>1 DEF vars, Inv, PermitInv, RestInv, PendingHoldPermits, InOrder, ReserveNeeded,
              IdleUntouched
<1>2. ASSUME NEW b \in Batches, Start(b) \/ RequestCancel(b) \/ Loop(b)
      PROVE  Inv'
  <2>1. PermitInv'
    BY <1>2, StepReserves
  <2>2. /\ UNCHANGED <<result, committed, down>>
        /\ flag' \in [Batches -> BOOLEAN]
        /\ cancelled' \in [Batches -> BOOLEAN]
        /\ fatal' \in [Batches -> BOOLEAN]
        /\ pc' \in [Batches -> {"idle", "running"} \cup Ended]
    BY <1>2, StepRest DEF Inv, RestInv
  <2>3. \A c \in Batches : pc'[c] = "idle" => pc[c] = "idle" /\ next'[c] = next[c]
    BY <1>2, StepRest, StepReserves DEF Inv, RestInv
  <2>4. \A c \in Batches : reserve'[c] # "none" => pc'[c] = "running"
    <3> SUFFICES ASSUME NEW c \in Batches, reserve'[c] # "none" PROVE pc'[c] = "running"
      OBVIOUS
    <3>1. CASE c = b
      BY <1>2, <3>1, StepRuns
    <3>2. CASE c # b
      <4>1. pc'[c] = pc[c]
        BY <1>2, <3>2, StepRest DEF Inv, RestInv
      <4>2. reserve[c] # "none" \/ pc'[c] = "running"
        BY <1>2, StepReserves
      <4> QED
        BY <4>1, <4>2 DEF Inv, RestInv, IdleUntouched
    <3> QED
      BY <3>1, <3>2
  <2> QED
    BY <2>1, <2>2, <2>3, <2>4 DEF Inv, RestInv, IdleUntouched
<1>3. CASE Threads \/ Shutdown \/ ShutdownPersist
  BY <1>3, PoolRest DEF Inv, RestInv, IdleUntouched, stopVars
<1> QED
  BY <1>1, <1>2, <1>3 DEF Next

\* The initial state satisfies the invariant.
LEMMA InvInit == Init => Inv
<1> SUFFICES ASSUME Init PROVE Inv
  OBVIOUS
<1>1. IsFiniteSet(held) /\ Cardinality(held) = 0 /\ held \subseteq Items
  BY FS_EmptySet DEF Init
<1>2. GrantedIn(reserve) = {} /\ Cardinality(GrantedIn(reserve)) = 0
  BY FS_EmptySet DEF Init, GrantedIn
<1>3. Counts(available, held, reserve) /\ available \in Nat
  BY <1>1, <1>2, LimitPositive DEF Init, Counts
<1>4. InOrder
  BY Sizes, ItemOf DEF Init, InOrder
<1>5. /\ reserve \in [Batches -> Reserve] /\ stage \in [Items -> Stage]
      /\ outcome \in [Items -> Outcome] /\ next \in [Batches -> Nat]
  BY DEF Init, Reserve, Stage, Outcome
<1>6. PendingHoldPermits /\ ReserveNeeded
  BY DEF Init, PendingHoldPermits, ReserveNeeded, Pending
<1>7. RestInv
  BY DEF Init, RestInv, IdleUntouched
<1> QED
  BY <1>1, <1>3, <1>4, <1>5, <1>6, <1>7 DEF Inv, PermitInv

\* The invariant holds in every reachable state.
THEOREM Invariant == Spec => []Inv
BY InvInit, InvKept, PTL DEF Spec

\* Every variable keeps its type; the free slots stay between none and all.
THEOREM TypeCorrect == Spec => []TypeOK
<1>1. Inv => TypeOK
  <2> SUFFICES ASSUME Inv PROVE TypeOK
    OBVIOUS
  <2>1. available \in 0 .. Limit
    BY Numbers, LimitPositive DEF Inv, PermitInv, Counts
  <2> QED
    BY <2>1 DEF TypeOK, Inv, PermitInv, RestInv
<1> QED
  BY <1>1, Invariant, PTL

\* Permits are neither lost nor made up, and exactly the items between their
\* submission and their outcome hold one.
THEOREM PermitsKept == Spec => [](PermitConservation /\ PendingHoldPermits)
<1>1. Inv => PermitConservation /\ PendingHoldPermits
  BY DEF Inv, PermitInv, Counts, GrantedIn, PermitConservation, Granted
<1> QED
  BY <1>1, Invariant, PTL

-----------------------------------------------------------------------------
\* Draining.

\* No item of a call that ended is in a pool.
EndedIsDrained == \A b \in Batches : pc[b] \in Ended => PendingOf(b) = {}

\* A call's own step ends it only when its last item is out of the pools.
LEMMA OwnDrain ==
  ASSUME Inv, EndedIsDrained, NEW b \in Batches,
         Start(b) \/ RequestCancel(b) \/ Loop(b), pc'[b] \in Ended
  PROVE  PendingOf(b)' = {}
<1>1. /\ pc \in [Batches -> {"idle", "running"} \cup Ended]
      /\ stage \in [Items -> Stage]
  BY DEF Inv, RestInv, PermitInv
<1>2. CASE Start(b)
  <2>1. ItemsOf(b) = {}
    <3>1. Size[b] = 0
      BY <1>1, <1>2 DEF Start, Ended
    <3> QED
      BY <3>1 DEF ItemsOf
  <2> QED
    BY <2>1 DEF PendingOf
<1>3. CASE RequestCancel(b)
  BY <1>3 DEF RequestCancel, Ended, EndedIsDrained
<1>4. CASE NoticeStop(b) \/ StartReserve(b) \/ TakePermit(b) \/ TryReserve(b)
  BY <1>4 DEF NoticeStop, StartReserve, TakePermit, TryReserve, Runs, Ended
<1>5. CASE Acquire(b)
  BY <1>5 DEF Acquire, EndedIsDrained, PendingOf, Ended, Inv, RestInv, IdleUntouched
<1>6. CASE Finish(b)
  BY <1>6 DEF Finish, PendingOf
<1>7. ASSUME b \in DirectBatches, NEW x \in ItemsOf(b), stage'[x] \notin Pending
      PROVE  PendingOf(b)' = {}
  <2>1. ItemsOf(b) = {x}
    BY <1>7, Sizes DEF ItemsOf
  <2> QED
    BY <1>7, <2>1 DEF PendingOf
<1>8. CASE DirectSubmit(b)
  <2>1. down # "up" /\ b \in DirectBatches /\ Submit(b, available, [reserve EXCEPT ![b] = "none"])
        /\ reserve[b] = "granted"
    BY <1>8 DEF DirectSubmit, RunsDirect, Ended
  <2>2. next[b] \in Nat /\ next[b] < Size[b] /\ Size[b] = 1
    BY <2>1, Sizes DEF Inv, PermitInv, ReserveNeeded
  <2>3. next[b] + 1 = 1 /\ <<b, 1>> \in ItemsOf(b)
    BY <2>2, ItemOf
  <2>4. stage' = [stage EXCEPT ![<<b, 1>>] = "recorded"]
    BY <2>1, <2>3 DEF Submit, Record
  <2>5. stage'[<<b, 1>>] = "recorded"
    BY <1>1, <2>3, <2>4, ItemOf
  <2> QED
    BY <1>7, <2>1, <2>3, <2>5 DEF Pending
<1>9. CASE Process(b)
  <2>1. PICK x \in ItemsOf(b) :
          \/ ProcessPrepared(b, x) \/ ProcessPersisted(b, x)
          \/ DirectPrepared(b, x) \/ DirectPersisted(b, x)
    BY <1>9 DEF Process
  <2>2. CASE ProcessPrepared(b, x) \/ ProcessPersisted(b, x)
    BY <2>2 DEF ProcessPrepared, ProcessPersisted, Runs, Ended
  <2>3. CASE DirectPrepared(b, x) \/ DirectPersisted(b, x)
    <3>1. b \in DirectBatches /\ pc[b] = "running" /\ x \in Items
      BY <2>3, ItemOf DEF DirectPrepared, DirectPersisted, RunsDirect
    <3>2. stage'[x] \in {"recorded", "dropped"}
      BY <1>1, <2>3, <3>1 DEF DirectPrepared, DirectPersisted, DirectRaised, Record, Drop, Ended
    <3> QED
      BY <1>7, <3>1, <3>2 DEF Pending
  <2> QED
    BY <2>1, <2>2, <2>3
<1> QED
  BY <1>2, <1>3, <1>4, <1>5, <1>6, <1>8, <1>9 DEF Loop

\* A call's step moves its own items only.
LEMMA OwnItems ==
  ASSUME Inv, NEW b \in Batches,
         Start(b) \/ RequestCancel(b) \/ Loop(b),
         NEW x \in Items, x[1] # b
  PROVE  stage'[x] = stage[x]
<1>1. stage \in [Items -> Stage]
  BY DEF Inv, PermitInv
<1>2. ASSUME NEW free, NEW r, Submit(b, free, r)
      PROVE  stage'[x] = stage[x]
  BY <1>1, <1>2 DEF Submit, Record
<1>3. CASE Start(b) \/ RequestCancel(b) \/ NoticeStop(b) \/ StartReserve(b) \/ Acquire(b)
           \/ Finish(b)
  BY <1>3 DEF Start, RequestCancel, NoticeStop, StartReserve, Acquire, Finish
<1>4. CASE TakePermit(b)
  BY <1>2, <1>4 DEF TakePermit
<1>5. CASE TryReserve(b) \/ DirectSubmit(b)
  BY <1>2, <1>5 DEF TryReserve, DirectSubmit
<1>6. CASE Process(b)
  <2>1. PICK y \in ItemsOf(b) :
          \/ ProcessPrepared(b, y) \/ ProcessPersisted(b, y)
          \/ DirectPrepared(b, y) \/ DirectPersisted(b, y)
    BY <1>6 DEF Process
  <2>2. y # x
    BY ItemOf
  <2>3. \E v : stage' = [stage EXCEPT ![y] = v]
    BY <2>1 DEF ProcessPrepared, ProcessPersisted, DirectPrepared, DirectPersisted,
                RecordException, Discard, DirectRaised, HandOver, Record, Drop
  <2> QED
    BY <1>1, <2>2, <2>3
<1> QED
  BY <1>3, <1>4, <1>5, <1>6 DEF Loop

\* Threads and shutdown put no item into the pools and take none out.
LEMMA PoolItems ==
  ASSUME Inv, Threads \/ Shutdown \/ ShutdownPersist, NEW x \in Items
  PROVE  /\ stage'[x] \in Pending <=> stage[x] \in Pending
         /\ stage'[x] = "source" <=> stage[x] = "source"
<1>1. stage \in [Items -> Stage]
  BY DEF Inv, PermitInv
<1>2. CASE Threads
  BY <1>1, <1>2 DEF Threads, PrepareStart, PersistStart, PrepareEnd, PersistEnd, Pending
<1>3. CASE Shutdown \/ ShutdownPersist
  BY <1>1, <1>3 DEF Shutdown, ShutdownPersist, Pending
<1> QED
  BY <1>2, <1>3

\* A call that ended, however it ended, left no reservation, no permit and no
\* item in a pool behind.
THEOREM EndsDrained == Spec => []DrainedAtEnd
<1>1. Init => EndedIsDrained
  BY DEF Init, EndedIsDrained, Ended
<1>2. Inv /\ EndedIsDrained /\ [Next]_vars => EndedIsDrained'
  <2> SUFFICES ASSUME Inv, EndedIsDrained, [Next]_vars, NEW c \in Batches, pc'[c] \in Ended
               PROVE  PendingOf(c)' = {}
    BY DEF EndedIsDrained
  <2>1. CASE UNCHANGED vars
    BY <2>1 DEF vars, EndedIsDrained, PendingOf
  <2>2. ASSUME NEW b \in Batches, Start(b) \/ RequestCancel(b) \/ Loop(b)
        PROVE  PendingOf(c)' = {}
    <3>1. CASE b = c
      BY <2>2, <3>1, OwnDrain
    <3>2. CASE b # c
      <4>1. pc[c] \in Ended
        BY <2>2, <3>2, StepRest DEF Inv, RestInv
      <4>2. \A x \in ItemsOf(c) : stage'[x] = stage[x]
        BY <2>2, <3>2, ItemOf, OwnItems
      <4> QED
        BY <4>1, <4>2 DEF EndedIsDrained, PendingOf
    <3> QED
      BY <3>1, <3>2
  <2>3. CASE Threads \/ Shutdown \/ ShutdownPersist
    <3>1. pc[c] \in Ended
      BY <2>3, PoolRest
    <3>2. \A x \in ItemsOf(c) : stage'[x] \in Pending <=> stage[x] \in Pending
      BY <2>3, PoolItems, ItemOf
    <3> QED
      BY <3>1, <3>2 DEF EndedIsDrained, PendingOf
  <2> QED
    BY <2>1, <2>2, <2>3 DEF Next
<1>3. Inv /\ EndedIsDrained => DrainedAtEnd
  <2> SUFFICES ASSUME Inv, EndedIsDrained, NEW b \in Batches, pc[b] \in Ended
               PROVE  reserve[b] = "none" /\ PendingOf(b) = {} /\ held \cap ItemsOf(b) = {}
    BY DEF DrainedAtEnd
  <2>1. reserve[b] = "none"
    BY DEF Inv, RestInv, IdleUntouched, Ended
  <2>2. held \cap ItemsOf(b) = {}
    BY ItemOf DEF EndedIsDrained, PendingOf, Inv, PermitInv, PendingHoldPermits
  <2> QED
    BY <2>1, <2>2 DEF EndedIsDrained
<1> QED
  BY <1>1, <1>2, <1>3, Invariant, PTL DEF Spec

-----------------------------------------------------------------------------
\* Shutdown.

\* The executors stop only after every call that runs was told to.
Announced == down # "up" => \A b \in Batches : pc[b] = "running" => flag[b]

\* Every call has been told to stop before a pool rejects work, so no loop loses
\* an item to a rejected submission.
THEOREM ShutdownRejectsNothing == Spec => NoRejectedSubmission
<1>1. Init => Announced
  BY DEF Init, Announced
<1>2. Inv /\ Announced /\ [Next]_vars => Announced'
  <2> SUFFICES ASSUME Inv, Announced, [Next]_vars PROVE Announced'
    OBVIOUS
  <2>1. CASE UNCHANGED vars
    BY <2>1 DEF vars, Announced
  <2>2. ASSUME NEW b \in Batches, Start(b) \/ RequestCancel(b) \/ Loop(b)
        PROVE  Announced'
    <3> SUFFICES ASSUME down' # "up", NEW c \in Batches, pc'[c] = "running"
                 PROVE  flag'[c]
      BY DEF Announced
    <3>1. down # "up"
      BY <2>2, StepRest
    <3>2. CASE pc[c] = "running"
      BY <2>2, <3>1, <3>2, StepRest DEF Inv, RestInv, Announced
    <3>3. CASE pc[c] # "running"
      <4>1. CASE c = b
        <5>1. ~ Start(b)
          BY <3>1 DEF Start
        <5>2. pc' = pc
          BY <2>2, <3>3, <4>1, <5>1 DEF RequestCancel, Loop, NoticeStop, StartReserve, Acquire,
             TakePermit, TryReserve, Finish, DirectSubmit, Process, ProcessPrepared,
             ProcessPersisted, DirectPrepared, DirectPersisted, Runs, RunsDirect
        <5> QED
          BY <3>3, <4>1, <5>2
      <4>2. CASE c # b
        BY <2>2, <3>3, <4>2, StepRest DEF Inv, RestInv
      <4> QED
        BY <4>1, <4>2
    <3> QED
      BY <3>2, <3>3
  <2>3. CASE Threads \/ Shutdown \/ ShutdownPersist
    <3>1. UNCHANGED <<flag, pc>>
      BY <2>3, PoolRest
    <3>2. CASE Threads
      BY <3>1, <3>2 DEF Announced, Threads, PrepareStart, PersistStart, PrepareEnd, PersistEnd
    <3> QED
      BY <2>3, <3>1, <3>2 DEF Announced, Shutdown, ShutdownPersist
  <2> QED
    BY <2>1, <2>2, <2>3 DEF Next
<1>3. Inv /\ Announced /\ [Next]_vars =>
        [\A x \in Items : x[1] \notin DirectBatches /\ down # "up" /\ stage[x] = "source"
                            => stage'[x] = "source"]_vars
  <2> SUFFICES ASSUME Inv, Announced, Next,
                      NEW x \in Items, x[1] \notin DirectBatches, down # "up",
                      stage[x] = "source"
               PROVE  stage'[x] = "source"
    OBVIOUS
  <2>1. ASSUME NEW b \in Batches, Start(b) \/ RequestCancel(b) \/ Loop(b), x[1] = b
        PROVE  stage'[x] = "source"
    <3>1. flag[b] \/ pc[b] # "running"
      BY DEF Announced, Ended
    <3>2. CASE Start(b) \/ RequestCancel(b) \/ NoticeStop(b) \/ StartReserve(b) \/ Acquire(b)
               \/ Finish(b)
      BY <3>2 DEF Start, RequestCancel, NoticeStop, StartReserve, Acquire, Finish
    <3>3. CASE TakePermit(b)
      BY <3>1, <3>3 DEF TakePermit, Runs, StopSeen
    <3>4. ~ TryReserve(b) /\ ~ DirectSubmit(b)
      BY <3>1, <2>1 DEF TryReserve, DirectSubmit, Runs, RunsDirect, StopSeen
    <3>5. CASE Process(b)
      <4>1. PICK y \in ItemsOf(b) :
              \/ ProcessPrepared(b, y) \/ ProcessPersisted(b, y)
              \/ DirectPrepared(b, y) \/ DirectPersisted(b, y)
        BY <3>5 DEF Process
      <4>2. stage[y] # "source"
        BY <4>1 DEF ProcessPrepared, ProcessPersisted, DirectPrepared, DirectPersisted
      <4>3. \E v : stage' = [stage EXCEPT ![y] = v]
        BY <4>1 DEF ProcessPrepared, ProcessPersisted, DirectPrepared, DirectPersisted,
                    RecordException, Discard, DirectRaised, HandOver, Record, Drop
      <4> QED
        BY <4>2, <4>3 DEF Inv, PermitInv
    <3> QED
      BY <2>1, <3>2, <3>3, <3>4, <3>5 DEF Loop
  <2>2. ASSUME NEW b \in Batches, Start(b) \/ RequestCancel(b) \/ Loop(b), x[1] # b
        PROVE  stage'[x] = "source"
    BY <2>2, OwnItems
  <2>3. CASE Threads \/ Shutdown \/ ShutdownPersist
    BY <2>3, PoolItems
  <2> QED
    BY <2>1, <2>2, <2>3 DEF Next
<1> QED
  BY <1>1, <1>2, <1>3, Invariant, PTL DEF Spec, NoRejectedSubmission, SubmitsNothing

-----------------------------------------------------------------------------
\* Cancellation.

\* The spec document handler keeps no cancellation of its own.
DirectForgets == \A b \in DirectBatches : ~ cancelled[b]

\* A TDocPipeline call that has seen a cancellation starts no preparation and no
\* write any more, whatever is granted to it or finishes for it afterwards.
THEOREM CancelStops == Spec => NothingNewAfterCancel
<1>1. Init => DirectForgets
  BY BatchKinds DEF Init, DirectForgets
<1>2. Inv /\ DirectForgets /\ [Next]_vars => DirectForgets'
  <2> SUFFICES ASSUME Inv, DirectForgets, [Next]_vars, NEW c \in DirectBatches
               PROVE  ~ cancelled'[c]
    BY DEF DirectForgets
  <2>1. c \in Batches /\ ~ cancelled[c] /\ cancelled \in [Batches -> BOOLEAN]
    BY BatchKinds DEF DirectForgets, Inv, RestInv
  <2>2. CASE UNCHANGED vars
    BY <2>1, <2>2 DEF vars
  <2>3. ASSUME NEW b \in Batches, Start(b) \/ RequestCancel(b) \/ Loop(b)
        PROVE  ~ cancelled'[c]
    <3>1. CASE b # c
      BY <2>1, <2>3, <3>1, StepRest
    <3>2. CASE b = c
      <4>1. ~ Runs(b)
        BY <3>2 DEF Runs
      <4>2. UNCHANGED cancelled
        BY <2>3, <4>1 DEF Start, RequestCancel, Loop, NoticeStop, StartReserve, Acquire,
           TakePermit, TryReserve, Finish, DirectSubmit, Process, ProcessPrepared,
           ProcessPersisted, DirectPrepared, DirectPersisted, HandOver, stopVars
      <4> QED
        BY <2>1, <4>2
    <3> QED
      BY <3>1, <3>2
  <2>4. CASE Threads \/ Shutdown \/ ShutdownPersist
    BY <2>1, <2>4, PoolRest DEF stopVars
  <2> QED
    BY <2>2, <2>3, <2>4 DEF Next
<1>3. Inv /\ DirectForgets /\ [Next]_vars =>
        [\A x \in Items :
           cancelled[x[1]] =>
             /\ stage[x] = "source" => stage'[x] = "source"
             /\ stage[x] = "prepDone" => stage'[x] # "perQueued"]_vars
  <2> SUFFICES ASSUME Inv, DirectForgets, Next, NEW x \in Items, cancelled[x[1]]
               PROVE  /\ stage[x] = "source" => stage'[x] = "source"
                      /\ stage[x] = "prepDone" => stage'[x] # "perQueued"
    OBVIOUS
  <2>1. x[1] \in Batches \ DirectBatches /\ stage \in [Items -> Stage]
    BY ItemHasBatch DEF DirectForgets, Inv, PermitInv
  <2>2. ASSUME NEW b \in Batches, Start(b) \/ RequestCancel(b) \/ Loop(b), x[1] = b
        PROVE  stage'[x] = stage[x] \/ (stage[x] # "source" /\ stage'[x] # "perQueued")
    <3>1. StopSeen(b) /\ ~ RunsDirect(b)
      BY <2>1, <2>2 DEF StopSeen, Stopping, RunsDirect
    <3>2. CASE Start(b) \/ RequestCancel(b) \/ NoticeStop(b) \/ StartReserve(b) \/ Acquire(b)
               \/ Finish(b)
      BY <3>2 DEF Start, RequestCancel, NoticeStop, StartReserve, Acquire, Finish
    <3>3. CASE TakePermit(b)
      BY <3>1, <3>3 DEF TakePermit
    <3>4. ~ TryReserve(b) /\ ~ DirectSubmit(b)
      BY <3>1 DEF TryReserve, DirectSubmit
    <3>5. CASE Process(b)
      <4>1. PICK y \in ItemsOf(b) : ProcessPrepared(b, y) \/ ProcessPersisted(b, y)
        BY <3>1, <3>5 DEF Process, DirectPrepared, DirectPersisted
      <4>2. stage[y] # "source"
        BY <4>1 DEF ProcessPrepared, ProcessPersisted
      <4>3. \E v \in {"recorded", "dropped"} : stage' = [stage EXCEPT ![y] = v]
        BY <3>1, <4>1 DEF ProcessPrepared, ProcessPersisted, RecordException, Discard, Record, Drop
      <4> QED
        BY <2>1, <4>2, <4>3
    <3> QED
      BY <2>2, <3>2, <3>3, <3>4, <3>5 DEF Loop
  <2>3. ASSUME NEW b \in Batches, Start(b) \/ RequestCancel(b) \/ Loop(b), x[1] # b
        PROVE  stage'[x] = stage[x]
    BY <2>3, OwnItems
  <2>4. CASE Threads \/ Shutdown \/ ShutdownPersist
    <3>1. stage[x] = "prepDone" => stage'[x] # "perQueued"
      BY <2>1, <2>4 DEF Threads, PrepareStart, PersistStart, PrepareEnd, PersistEnd, Shutdown,
                        ShutdownPersist
    <3> QED
      BY <2>4, <3>1, PoolItems
  <2> QED
    BY <2>2, <2>3, <2>4 DEF Next
<1> QED
  BY <1>1, <1>2, <1>3, Invariant, PTL DEF Spec, NothingNewAfterCancel, OnlyDrains

\* Both together: who is stopped begins nothing.
THEOREM StopsBeginNothing == Spec => StoppedBeginsNothing
BY ShutdownRejectsNothing, CancelStops, PTL
   DEF StoppedBeginsNothing, NoRejectedSubmission, NothingNewAfterCancel

-----------------------------------------------------------------------------
\* Reports.

\* What the report says of an item, while its call runs as well.
Truth(x) ==
  /\ x \in committed => outcome[x] = "success" \/ (stage[x] = "perDone" /\ result[x] = "ok")
  /\ stage[x] = "perDone" /\ result[x] = "ok" => x \in committed
  /\ outcome[x] = "success" => x \in committed \/ result[x] = "complete"
  /\ outcome[x] # "none" <=> stage[x] = "recorded"
  /\ stage[x] = "dropped" =>
       cancelled[x[1]] \/ fatal[x[1]] \/ pc[x[1]] \in {"cancelled", "fatal"}
TruthInv == \A x \in Items : Truth(x)

\* A call that returns has been through all its items and dropped none.
ReturnedWhole ==
  \A b \in Batches : pc[b] = "returned" =>
    next[b] = Size[b] /\ \A x \in ItemsOf(b) : stage[x] # "dropped"

\* How a call's step may move an item of its own.
Moved(b, x) ==
  \/ stage'[x] = stage[x] /\ outcome'[x] = outcome[x]
  \/ stage[x] = "source" /\ stage'[x] = "prepQueued" /\ outcome'[x] = outcome[x]
  \/ stage[x] = "source" /\ stage'[x] = "recorded" /\ outcome'[x] = "failed"
  \/ stage[x] = "prepDone" /\ stage'[x] = "perQueued" /\ outcome'[x] = outcome[x]
  \/ /\ stage[x] \in {"prepDone", "perDone"} /\ (stage[x] = "perDone" => result[x] # "ok")
     /\ \/ /\ stage'[x] = "dropped" /\ outcome'[x] = outcome[x]
           /\ cancelled'[b] \/ fatal'[b] \/ pc'[b] \in {"cancelled", "fatal"}
        \/ stage'[x] = "recorded" /\ outcome'[x] \in {"skipped", "failed"}
  \/ /\ \/ stage[x] = "prepDone" /\ result[x] = "complete"
        \/ stage[x] = "perDone" /\ result[x] = "ok"
     /\ stage'[x] = "recorded" /\ outcome'[x] = "success"

\* A call's stop is final, and so is its end.
LEMMA StopsStay ==
  ASSUME Inv, NEW b \in Batches, Start(b) \/ RequestCancel(b) \/ Loop(b)
  PROVE  /\ cancelled[b] => cancelled'[b]
         /\ fatal[b] => fatal'[b]
         /\ pc[b] \in Ended => pc' = pc
<1>1. /\ cancelled \in [Batches -> BOOLEAN] /\ fatal \in [Batches -> BOOLEAN]
      /\ flag \in [Batches -> BOOLEAN]
  BY DEF Inv, RestInv
<1>2. CASE Start(b) \/ RequestCancel(b) \/ StartReserve(b)
  BY <1>2 DEF Start, RequestCancel, StartReserve, stopVars, Runs, Ended
<1>3. CASE NoticeStop(b) \/ Finish(b)
  BY <1>1, <1>3 DEF NoticeStop, Finish, CheckCancelled, Runs, Ended
<1>4. CASE Acquire(b)
  BY <1>4 DEF Acquire, stopVars
<1>5. ASSUME NEW checks \in BOOLEAN, Emit(b, checks)
      PROVE  (cancelled[b] => cancelled'[b]) /\ (fatal[b] => fatal'[b])
  BY <1>1, <1>5 DEF Emit
<1>6. CASE TakePermit(b) \/ TryReserve(b)
  BY <1>1, <1>5, <1>6 DEF TakePermit, TryReserve, CheckCancelled, stopVars
<1>7. CASE DirectSubmit(b)
  BY <1>7 DEF DirectSubmit, RunsDirect, stopVars, Ended
<1>8. CASE Process(b)
  <2>1. PICK x \in ItemsOf(b) :
          \/ ProcessPrepared(b, x) \/ ProcessPersisted(b, x)
          \/ DirectPrepared(b, x) \/ DirectPersisted(b, x)
    BY <1>8 DEF Process
  <2>2. ASSUME RecordException(b, x) \/ Discard(b, x)
        PROVE  (cancelled[b] => cancelled'[b]) /\ (fatal[b] => fatal'[b])
    BY <1>1, <1>5, <2>2 DEF RecordException, Discard, CheckCancelled
  <2>3. CASE ProcessPrepared(b, x) \/ ProcessPersisted(b, x)
    BY <1>5, <2>2, <2>3 DEF ProcessPrepared, ProcessPersisted, HandOver, stopVars, Runs, Ended
  <2>4. CASE DirectPrepared(b, x) \/ DirectPersisted(b, x)
    BY <2>4 DEF DirectPrepared, DirectPersisted, RunsDirect, HandOver, stopVars, Ended
  <2> QED
    BY <2>1, <2>3, <2>4
<1> QED
  BY <1>2, <1>3, <1>4, <1>6, <1>7, <1>8 DEF Loop

\* Each step of a call moves each of its items in one of those ways.
LEMMA OwnMoves ==
  ASSUME Inv, NEW b \in Batches, Start(b) \/ RequestCancel(b) \/ Loop(b),
         NEW x \in ItemsOf(b)
  PROVE  Moved(b, x)
<1>1. /\ stage \in [Items -> Stage] /\ outcome \in [Items -> Outcome]
      /\ cancelled \in [Batches -> BOOLEAN] /\ fatal \in [Batches -> BOOLEAN]
      /\ flag \in [Batches -> BOOLEAN]
      /\ pc \in [Batches -> {"idle", "running"} \cup Ended]
  BY DEF Inv, PermitInv, RestInv
<1>2. x \in Items
  BY ItemOf
<1>3. CASE Start(b) \/ RequestCancel(b) \/ NoticeStop(b) \/ StartReserve(b) \/ Acquire(b)
           \/ Finish(b)
  BY <1>3 DEF Start, RequestCancel, NoticeStop, StartReserve, Acquire, Finish, Moved
<1>4. ASSUME NEW free, NEW r, Submit(b, free, r), next[b] < Size[b]
      PROVE  Moved(b, x)
  <2> DEFINE y == <<b, next[b] + 1>>
  <2>1. y \in Items /\ stage[y] = "source"
    <3>1. next[b] \in Nat /\ Size[b] \in Nat
      BY Sizes DEF Inv, PermitInv
    <3>2. next[b] + 1 \in 1 .. Size[b] /\ next[b] + 1 > next[b]
      BY <1>4, <3>1
    <3>3. \A i \in 1 .. Size[b] : stage[<<b, i>>] = "source" <=> i > next[b]
      BY DEF Inv, PermitInv, InOrder
    <3> QED
      BY <3>2, <3>3, ItemOf
  <2>2. CASE x = y
    <3>1. stage[x] = "source"
      BY <2>1, <2>2
    <3>2. \/ stage' = [stage EXCEPT ![x] = "prepQueued"] /\ outcome' = outcome
          \/ stage' = [stage EXCEPT ![x] = "recorded"] /\ outcome' = [outcome EXCEPT ![x] = "failed"]
      BY <1>4, <2>2 DEF Submit, Record
    <3> QED
      BY <1>1, <1>2, <3>1, <3>2 DEF Moved
  <2>3. CASE x # y
    <3>1. \E v : stage' = [stage EXCEPT ![y] = v]
      BY <1>4 DEF Submit, Record
    <3>2. outcome' = outcome \/ \E v : outcome' = [outcome EXCEPT ![y] = v]
      BY <1>4 DEF Submit, Record
    <3> QED
      BY <1>1, <1>2, <2>3, <3>1, <3>2 DEF Moved
  <2> QED
    BY <2>2, <2>3
<1>5. reserve[b] # "none" => next[b] < Size[b]
  BY DEF Inv, PermitInv, ReserveNeeded
<1>6. CASE TakePermit(b) \/ DirectSubmit(b)
  BY <1>4, <1>5, <1>6 DEF TakePermit, DirectSubmit, Moved
<1>7. CASE TryReserve(b)
  BY <1>4, <1>7 DEF TryReserve
<1>8. CASE Process(b)
  <2>1. PICK y \in ItemsOf(b) :
          \/ ProcessPrepared(b, y) \/ ProcessPersisted(b, y)
          \/ DirectPrepared(b, y) \/ DirectPersisted(b, y)
    BY <1>8 DEF Process
  <2>2. CASE x # y
    <3>1. /\ \E v : stage' = [stage EXCEPT ![y] = v]
          /\ outcome' = outcome \/ \E v : outcome' = [outcome EXCEPT ![y] = v]
      BY <2>1 DEF ProcessPrepared, ProcessPersisted, DirectPrepared, DirectPersisted,
                  RecordException, Discard, DirectRaised, HandOver, Record, Drop
    <3> QED
      BY <1>1, <1>2, <2>2, <3>1 DEF Moved
  <2>3. ASSUME x = y, NEW out, Record(y, out)
        PROVE  stage'[x] = "recorded" /\ outcome'[x] = out
    BY <1>1, <1>2, <2>3 DEF Record
  <2>4. ASSUME x = y, Drop(y)
        PROVE  stage'[x] = "dropped" /\ outcome'[x] = outcome[x]
    BY <1>1, <1>2, <2>4 DEF Drop
  <2>5. ASSUME x = y, RecordException(b, y), stage[y] \in {"prepDone", "perDone"}
        PROVE  Moved(b, x)
    <3>1. result[x] \in Raised /\ result[x] # "ok"
      BY <2>5 DEF RecordException, Raised
    <3>2. CASE Drop(y)
      <4>1. ~ \E out \in {"skipped", "failed"} : Record(y, out)
        BY <2>3, <2>4, <2>5, <3>2
      <4>2. cancelled' = [cancelled EXCEPT ![b] = TRUE] \/ fatal' = [fatal EXCEPT ![b] = TRUE]
        BY <2>5, <4>1 DEF RecordException
      <4>3. cancelled'[b] \/ fatal'[b]
        BY <1>1, <4>2
      <4> QED
        BY <2>4, <2>5, <3>1, <3>2, <4>3 DEF Moved
    <3>3. CASE \E out \in {"skipped", "failed"} : Record(y, out)
      BY <2>3, <2>5, <3>1, <3>3 DEF Moved
    <3> QED
      BY <2>5, <3>2, <3>3 DEF RecordException
  <2>6. ASSUME x = y, DirectRaised(b, y), stage[y] \in {"prepDone", "perDone"}
        PROVE  Moved(b, x)
    <3>1. result[x] \in Raised /\ result[x] # "ok"
      BY <2>6 DEF DirectRaised, Raised
    <3>2. CASE Drop(y) /\ result[y] \in {"cancelled", "fatal"} /\ pc' = [pc EXCEPT ![b] = result[y]]
      <4>1. pc'[b] \in {"cancelled", "fatal"}
        BY <1>1, <3>2
      <4> QED
        BY <2>4, <2>6, <3>1, <3>2, <4>1 DEF Moved
    <3>3. CASE \E out \in {"skipped", "failed"} : Record(y, out)
      BY <2>3, <2>6, <3>1, <3>3 DEF Moved
    <3> QED
      BY <2>6, <3>2, <3>3 DEF DirectRaised
  <2>7. ASSUME x = y, Discard(b, y), stage[y] = "prepDone"
        PROVE  Moved(b, x)
    <3>1. cancelled'[b] \/ fatal'[b]
      BY <1>1, <2>7 DEF Discard, CheckCancelled, StopSeen, Stopping
    <3>2. Drop(y)
      BY <2>7 DEF Discard
    <3> QED
      BY <2>4, <2>7, <3>1, <3>2 DEF Moved
  <2>8. ASSUME x = y, HandOver(y), stage[y] = "prepDone"
        PROVE  Moved(b, x)
    BY <1>1, <1>2, <2>8 DEF HandOver, Moved
  <2>9. CASE x = y /\ ProcessPrepared(b, y)
    <3>1. stage[y] = "prepDone"
      BY <2>9 DEF ProcessPrepared
    <3>2. CASE RecordException(b, y) \/ Discard(b, y) \/ HandOver(y)
      BY <2>5, <2>7, <2>8, <2>9, <3>1, <3>2
    <3>3. CASE (result[y] = "complete" /\ Record(y, "success")) \/ Record(y, "failed")
      BY <2>3, <2>9, <3>1, <3>3 DEF Moved
    <3> QED
      BY <2>9, <3>2, <3>3 DEF ProcessPrepared
  <2>10. CASE x = y /\ ProcessPersisted(b, y)
    <3>1. stage[y] = "perDone"
      BY <2>10 DEF ProcessPersisted
    <3>2. CASE RecordException(b, y)
      BY <2>5, <2>10, <3>1, <3>2
    <3>3. CASE result[y] = "ok" /\ Record(y, "success")
      BY <2>3, <2>10, <3>1, <3>3 DEF Moved
    <3> QED
      BY <2>10, <3>2, <3>3 DEF ProcessPersisted
  <2>11. CASE x = y /\ DirectPrepared(b, y)
    <3>1. stage[y] = "prepDone"
      BY <2>11 DEF DirectPrepared
    <3>2. CASE DirectRaised(b, y) \/ HandOver(y)
      BY <2>6, <2>8, <2>11, <3>1, <3>2
    <3>3. CASE Record(y, "skipped") \/ Record(y, "failed")
      BY <2>3, <2>11, <3>1, <3>3 DEF Moved
    <3>4. CASE Drop(y) /\ pc' = [pc EXCEPT ![b] = "cancelled"]
      <4>1. pc'[b] = "cancelled"
        BY <1>1, <3>4
      <4> QED
        BY <2>4, <2>11, <3>1, <3>4, <4>1 DEF Moved
    <3> QED
      BY <2>11, <3>2, <3>3, <3>4 DEF DirectPrepared
  <2>12. CASE x = y /\ DirectPersisted(b, y)
    <3>1. stage[y] = "perDone"
      BY <2>12 DEF DirectPersisted
    <3>2. CASE DirectRaised(b, y)
      BY <2>6, <2>12, <3>1, <3>2
    <3>3. CASE result[y] = "ok" /\ Record(y, "success")
      BY <2>3, <2>12, <3>1, <3>3 DEF Moved
    <3> QED
      BY <2>12, <3>2, <3>3 DEF DirectPersisted
  <2> QED
    BY <2>1, <2>2, <2>9, <2>10, <2>11, <2>12
<1> QED
  BY <1>3, <1>6, <1>7, <1>8 DEF Loop

\* A call's step touches no outcome but those of its own items.
LEMMA OwnOutcomes ==
  ASSUME Inv, NEW b \in Batches, Start(b) \/ RequestCancel(b) \/ Loop(b),
         NEW x \in Items, x[1] # b
  PROVE  outcome'[x] = outcome[x]
<1>1. outcome \in [Items -> Outcome]
  BY DEF Inv, PermitInv
<1>2. ASSUME NEW free, NEW r, Submit(b, free, r)
      PROVE  outcome'[x] = outcome[x]
  BY <1>1, <1>2 DEF Submit, Record
<1>3. CASE Start(b) \/ RequestCancel(b) \/ NoticeStop(b) \/ StartReserve(b) \/ Acquire(b)
           \/ Finish(b)
  BY <1>3 DEF Start, RequestCancel, NoticeStop, StartReserve, Acquire, Finish
<1>4. CASE TakePermit(b) \/ TryReserve(b) \/ DirectSubmit(b)
  BY <1>2, <1>4 DEF TakePermit, TryReserve, DirectSubmit
<1>5. CASE Process(b)
  <2>1. PICK y \in ItemsOf(b) :
          \/ ProcessPrepared(b, y) \/ ProcessPersisted(b, y)
          \/ DirectPrepared(b, y) \/ DirectPersisted(b, y)
    BY <1>5 DEF Process
  <2>2. y # x
    BY ItemOf
  <2>3. outcome' = outcome \/ \E v : outcome' = [outcome EXCEPT ![y] = v]
    BY <2>1 DEF ProcessPrepared, ProcessPersisted, DirectPrepared, DirectPersisted,
                RecordException, Discard, DirectRaised, HandOver, Record, Drop
  <2> QED
    BY <1>1, <2>2, <2>3
<1> QED
  BY <1>3, <1>4, <1>5 DEF Loop

\* The report stays true over a step of a call.
LEMMA CallTruth ==
  ASSUME Inv, TruthInv, NEW b \in Batches, Start(b) \/ RequestCancel(b) \/ Loop(b)
  PROVE  TruthInv'
<1> SUFFICES ASSUME NEW x \in Items PROVE Truth(x)'
  BY DEF TruthInv
<1>1. Truth(x) /\ UNCHANGED <<result, committed>>
  BY StepRest DEF TruthInv
<1>2. CASE x[1] = b
  <2>1. Moved(b, x)
    BY <1>2, ItemHasBatch, OwnMoves
  <2>2. stage[x] = "dropped" => cancelled'[b] \/ fatal'[b] \/ pc'[b] \in {"cancelled", "fatal"}
    BY <1>1, <1>2, StopsStay DEF Truth, Ended
  <2> QED
    BY <1>1, <1>2, <2>1, <2>2 DEF Moved, Truth
<1>3. CASE x[1] # b
  <2>1. stage'[x] = stage[x] /\ outcome'[x] = outcome[x]
    BY <1>3, OwnItems, OwnOutcomes
  <2>2. /\ cancelled'[x[1]] = cancelled[x[1]] /\ fatal'[x[1]] = fatal[x[1]]
        /\ pc'[x[1]] = pc[x[1]]
    <3>1. /\ cancelled \in [Batches -> BOOLEAN] /\ fatal \in [Batches -> BOOLEAN]
          /\ pc \in [Batches -> {"idle", "running"} \cup Ended]
      BY DEF Inv, RestInv
    <3> QED
      BY <1>3, <3>1, StepRest, ItemHasBatch
  <2> QED
    BY <1>1, <2>1, <2>2 DEF Truth
<1> QED
  BY <1>2, <1>3

\* And over a step of the threads or of the shutdown.
LEMMA PoolTruth ==
  ASSUME Inv, TruthInv, Threads \/ Shutdown \/ ShutdownPersist
  PROVE  TruthInv'
<1> SUFFICES ASSUME NEW x \in Items PROVE Truth(x)'
  BY DEF TruthInv
<1>1. /\ Truth(x) /\ UNCHANGED <<cancelled, fatal, pc>>
      /\ stage \in [Items -> Stage] /\ outcome \in [Items -> Outcome]
      /\ result \in [Items -> {"none"} \cup PrepareResult \cup PersistResult]
  BY PoolRest DEF TruthInv, stopVars, Inv, PermitInv, RestInv
<1>2. CASE Threads
  <2>1. PICK y \in Items :
          \/ PrepareStart(y) \/ PersistStart(y)
          \/ \E res \in PrepareResult : PrepareEnd(y, res)
          \/ \E res \in PersistResult : PersistEnd(y, res)
    BY <1>2 DEF Threads
  <2>2. CASE PrepareStart(y) \/ PersistStart(y)
    <3>1. /\ UNCHANGED <<result, outcome, committed>>
          /\ stage'[x] = stage[x] \/ (stage[x] \in {"prepQueued", "perQueued"}
                                      /\ stage'[x] \in {"preparing", "persisting"})
      BY <1>1, <2>2 DEF PrepareStart, PersistStart
    <3> QED
      BY <1>1, <3>1 DEF Truth
  <2>3. ASSUME NEW res \in PrepareResult, PrepareEnd(y, res)
        PROVE  Truth(x)'
    <3>1. UNCHANGED <<outcome, committed>> /\ stage[y] = "preparing"
      BY <2>3 DEF PrepareEnd
    <3>2. CASE x = y
      <4>1. stage'[x] = "prepDone"
        BY <1>1, <2>3, <3>2 DEF PrepareEnd
      <4> QED
        BY <1>1, <3>1, <3>2, <4>1 DEF Truth
    <3>3. CASE x # y
      <4>1. stage'[x] = stage[x] /\ result'[x] = result[x]
        BY <1>1, <2>3, <3>3 DEF PrepareEnd
      <4> QED
        BY <1>1, <3>1, <4>1 DEF Truth
    <3> QED
      BY <3>2, <3>3
  <2>4. ASSUME NEW res \in PersistResult, PersistEnd(y, res)
        PROVE  Truth(x)'
    <3>1. UNCHANGED outcome /\ stage[y] = "persisting"
      BY <2>4 DEF PersistEnd
    <3>2. CASE x = y
      <4>1. stage'[x] = "perDone" /\ result'[x] = res /\ outcome[x] = "none" /\ x \notin committed
        BY <1>1, <2>4, <3>1, <3>2 DEF PersistEnd, Truth
      <4>2. x \in committed' <=> res = "ok"
        BY <2>4, <3>2, <4>1 DEF PersistEnd
      <4> QED
        BY <1>1, <3>1, <4>1, <4>2 DEF Truth
    <3>3. CASE x # y
      <4>1. stage'[x] = stage[x] /\ result'[x] = result[x] /\ (x \in committed' <=> x \in committed)
        BY <1>1, <2>4, <3>3 DEF PersistEnd
      <4> QED
        BY <1>1, <3>1, <4>1 DEF Truth
    <3> QED
      BY <3>2, <3>3
  <2> QED
    BY <2>1, <2>2, <2>3, <2>4
<1>3. CASE Shutdown
  <2>1. /\ UNCHANGED <<outcome, committed>>
        /\ \/ stage'[x] = stage[x] /\ result'[x] = result[x]
           \/ stage[x] = "prepQueued" /\ stage'[x] = "prepDone" /\ result'[x] = "cancelled"
    BY <1>3 DEF Shutdown
  <2> QED
    BY <1>1, <2>1 DEF Truth
<1>4. CASE ShutdownPersist
  BY <1>1, <1>4 DEF ShutdownPersist, Truth
<1> QED
  BY <1>2, <1>3, <1>4

\* A call's own step makes it return only when no item is left out.
LEMMA OwnReturn ==
  ASSUME Inv, TruthInv, ReturnedWhole, NEW b \in Batches,
         Start(b) \/ RequestCancel(b) \/ Loop(b), pc'[b] = "returned"
  PROVE  next'[b] = Size[b] /\ \A x \in ItemsOf(b) : stage'[x] # "dropped"
<1>1. /\ pc \in [Batches -> {"idle", "running"} \cup Ended]
      /\ stage \in [Items -> Stage] /\ next \in [Batches -> Nat]
      /\ cancelled \in [Batches -> BOOLEAN] /\ fatal \in [Batches -> BOOLEAN]
  BY DEF Inv, RestInv, PermitInv
<1>2. CASE pc[b] = "returned"
  <2>1. ~ Runs(b) /\ ~ RunsDirect(b) /\ reserve[b] = "none"
    BY <1>2 DEF Runs, RunsDirect, Inv, RestInv, IdleUntouched
  <2>2. UNCHANGED <<stage, next>>
    BY <1>2, <2>1 DEF Start, RequestCancel, Loop, NoticeStop, StartReserve, Acquire, TakePermit,
       TryReserve, Finish, DirectSubmit, Process, ProcessPrepared, ProcessPersisted,
       DirectPrepared, DirectPersisted
  <2> QED
    BY <1>2, <2>2 DEF ReturnedWhole
<1>3. CASE Start(b)
  <2>1. Size[b] = 0 /\ UNCHANGED next /\ next[b] = 0
    BY <1>1, <1>3 DEF Start, Inv, RestInv, IdleUntouched
  <2>2. ItemsOf(b) = {}
    BY <2>1 DEF ItemsOf
  <2> QED
    BY <2>1, <2>2
<1>4. CASE Finish(b)
  <2>1. /\ ~ cancelled'[b] /\ ~ fatal[b] /\ UNCHANGED <<stage, next>> /\ pc[b] = "running"
    BY <1>1, <1>4 DEF Finish, Runs
  <2>2. ~ cancelled[b]
    BY <1>4, <2>1, StopsStay DEF Loop
  <2>3. next[b] = Size[b]
    BY <1>4, <2>1, <2>2 DEF Finish, Stopping
  <2>4. \A x \in ItemsOf(b) : stage[x] # "dropped"
    BY <2>1, <2>2, ItemOf DEF TruthInv, Truth
  <2> QED
    BY <2>1, <2>3, <2>4
<1>5. ASSUME b \in DirectBatches, NEW x \in ItemsOf(b), stage'[x] = "recorded"
      PROVE  \A y \in ItemsOf(b) : stage'[y] # "dropped"
  <2>1. ItemsOf(b) = {x}
    BY <1>5, Sizes DEF ItemsOf
  <2> QED
    BY <1>5, <2>1
<1>6. CASE DirectSubmit(b) /\ pc[b] # "returned"
  <2>1. down # "up" /\ b \in DirectBatches /\ Submit(b, available, [reserve EXCEPT ![b] = "none"])
        /\ reserve[b] = "granted"
    BY <1>6 DEF DirectSubmit, RunsDirect
  <2>2. next[b] \in Nat /\ next[b] < Size[b] /\ Size[b] = 1
    BY <2>1, Sizes DEF Inv, PermitInv, ReserveNeeded
  <2>3. next[b] + 1 = 1 /\ <<b, 1>> \in ItemsOf(b)
    BY <2>2, ItemOf
  <2>4. stage' = [stage EXCEPT ![<<b, 1>>] = "recorded"] /\ next' = [next EXCEPT ![b] = @ + 1]
    BY <2>1, <2>3 DEF Submit, Record
  <2>5. stage'[<<b, 1>>] = "recorded" /\ next'[b] = 1
    BY <1>1, <2>3, <2>4, ItemOf
  <2> QED
    BY <1>5, <2>1, <2>2, <2>3, <2>5
<1>7. CASE Process(b) /\ pc[b] # "returned"
  <2>1. PICK x \in ItemsOf(b) :
          \/ ProcessPrepared(b, x) \/ ProcessPersisted(b, x)
          \/ DirectPrepared(b, x) \/ DirectPersisted(b, x)
    BY <1>7 DEF Process
  <2>2. ~ ProcessPrepared(b, x) /\ ~ ProcessPersisted(b, x)
    BY <1>7 DEF ProcessPrepared, ProcessPersisted
  <2>3. /\ b \in DirectBatches /\ x \in Items /\ UNCHANGED next
        /\ stage[x] \in {"prepDone", "perDone"}
    BY <2>1, <2>2, ItemOf DEF DirectPrepared, DirectPersisted, RunsDirect
  <2>4. stage'[x] = "recorded"
    BY <1>1, <1>7, <2>1, <2>2, <2>3
       DEF DirectPrepared, DirectPersisted, DirectRaised, EndDirect, Record
  <2>5. next[b] = Size[b]
    <3>1. Size[b] = 1 /\ next[b] \in 0 .. Size[b]
      BY <2>3, Sizes DEF Inv, PermitInv, InOrder
    <3>2. x = <<b, 1>> /\ 1 \in 1 .. Size[b]
      BY <3>1, ItemOf
    <3>3. ~ (1 > next[b])
      BY <2>3, <3>2 DEF Inv, PermitInv, InOrder
    <3> QED
      BY <3>1, <3>3
  <2> QED
    BY <1>5, <2>3, <2>4, <2>5
<1>8. CASE RequestCancel(b) \/ NoticeStop(b) \/ StartReserve(b) \/ Acquire(b) \/ TakePermit(b)
           \/ TryReserve(b)
  <2>1. pc[b] = "returned"
    BY <1>8 DEF RequestCancel, NoticeStop, StartReserve, Acquire, TakePermit, TryReserve
  <2> QED
    BY <1>2, <2>1
<1> QED
  BY <1>2, <1>3, <1>4, <1>6, <1>7, <1>8 DEF Loop

\* A call that ended reported every committed write, reported success for nothing
\* else but complete results, and for every item when it returned.
THEOREM ReportsAreHonest == Spec => []HonestReport
<1>1. Init => TruthInv /\ ReturnedWhole
  BY DEF Init, TruthInv, Truth, ReturnedWhole
<1>2. Inv /\ TruthInv /\ [Next]_vars => TruthInv'
  <2> SUFFICES ASSUME Inv, TruthInv, [Next]_vars PROVE TruthInv'
    OBVIOUS
  <2>1. CASE UNCHANGED vars
    BY <2>1 DEF vars, TruthInv, Truth
  <2> QED
    BY <2>1, CallTruth, PoolTruth DEF Next
<1>3. Inv /\ TruthInv /\ ReturnedWhole /\ [Next]_vars => ReturnedWhole'
  <2> SUFFICES ASSUME Inv, TruthInv, ReturnedWhole, [Next]_vars,
                      NEW c \in Batches, pc'[c] = "returned"
               PROVE  next'[c] = Size[c] /\ \A x \in ItemsOf(c) : stage'[x] # "dropped"
    BY DEF ReturnedWhole
  <2>1. CASE UNCHANGED vars
    BY <2>1 DEF vars, ReturnedWhole
  <2>2. ASSUME NEW b \in Batches, Start(b) \/ RequestCancel(b) \/ Loop(b)
        PROVE  next'[c] = Size[c] /\ \A x \in ItemsOf(c) : stage'[x] # "dropped"
    <3>1. CASE b = c
      BY <2>2, <3>1, OwnReturn
    <3>2. CASE b # c
      <4>1. pc[c] = "returned"
        BY <2>2, <3>2, StepRest DEF Inv, RestInv
      <4>2. \A x \in ItemsOf(c) : stage'[x] = stage[x]
        BY <2>2, <3>2, ItemOf, OwnItems
      <4>3. next'[c] = next[c]
        <5>1. next \in [Batches -> Nat]
          BY DEF Inv, PermitInv
        <5>2. next' = next \/ next' = [next EXCEPT ![b] = @ + 1]
          BY <2>2 DEF Start, RequestCancel, Loop, NoticeStop, StartReserve, Acquire, TakePermit,
             TryReserve, Finish, DirectSubmit, Process, ProcessPrepared, ProcessPersisted,
             DirectPrepared, DirectPersisted, Submit
        <5> QED
          BY <3>2, <5>1, <5>2
      <4> QED
        BY <4>1, <4>2, <4>3 DEF ReturnedWhole
    <3> QED
      BY <3>1, <3>2
  <2>3. CASE Threads \/ Shutdown \/ ShutdownPersist
    <3>1. pc[c] = "returned" /\ UNCHANGED next
      BY <2>3, PoolRest
    <3>2. \A x \in ItemsOf(c) : stage'[x] = "dropped" => stage[x] = "dropped"
      <4>1. stage \in [Items -> Stage] /\ ItemsOf(c) \subseteq Items
        BY ItemOf DEF Inv, PermitInv
      <4> QED
        BY <2>3, <4>1 DEF Threads, PrepareStart, PersistStart, PrepareEnd, PersistEnd, Shutdown,
                          ShutdownPersist
    <3> QED
      BY <3>1, <3>2 DEF ReturnedWhole
  <2> QED
    BY <2>1, <2>2, <2>3 DEF Next
<1>4. Inv /\ DrainedAtEnd /\ TruthInv /\ ReturnedWhole => HonestReport
  <2> SUFFICES ASSUME Inv, DrainedAtEnd, TruthInv, ReturnedWhole,
                      NEW b \in Batches, NEW x \in ItemsOf(b)
               PROVE  /\ pc[b] \in Ended /\ x \in committed => outcome[x] = "success"
                      /\ outcome[x] = "success" => x \in committed \/ result[x] = "complete"
                      /\ pc[b] = "returned" => outcome[x] # "none"
    BY DEF HonestReport
  <2>1. x \in Items /\ Truth(x) /\ x[1] = b /\ x[2] \in 1 .. Size[b] /\ x = <<b, x[2]>>
    BY ItemOf DEF TruthInv
  <2>2. pc[b] \in Ended => stage[x] \notin Pending
    BY DEF DrainedAtEnd, PendingOf
  <2>3. ASSUME pc[b] = "returned" PROVE stage[x] = "recorded"
    <3>1. next[b] = Size[b] /\ stage[x] # "dropped" /\ stage[x] \notin Pending
      BY <2>2, <2>3 DEF ReturnedWhole, Ended
    <3>2. stage[x] # "source"
      <4>1. Size[b] \in Nat
        BY Sizes
      <4>2. stage[<<b, x[2]>>] = "source" <=> x[2] > next[b]
        BY <2>1 DEF Inv, PermitInv, InOrder
      <4> QED
        BY <2>1, <3>1, <4>1, <4>2
    <3> QED
      BY <2>1, <3>1, <3>2 DEF Inv, PermitInv, Stage
  <2> QED
    BY <2>1, <2>2, <2>3 DEF Truth, Pending
<1> QED
  BY <1>1, <1>2, <1>3, <1>4, Invariant, EndsDrained, PTL DEF Spec
=============================================================================
