---------------------------- MODULE ServerProofs ----------------------------
(***************************************************************************)
(* Theorems about a server and its parts, for every value of the constants: *)
(* the queue of the jobs, the verdict on a job, stored content, searches,   *)
(* the two doors of a question, and the pages of a list.  Each part has an  *)
(* inductive invariant of its own; the end of the module puts them side by  *)
(* side, as the module Server does.                                         *)
(***************************************************************************)
EXTENDS Server, FiniteSetTheorems, SequenceTheorems, WellFoundedInduction, TLAPS

----------------------------------------------------------------------------
(* The least and the greatest of finite sets of numbers, and the ranks of their
   elements: each rank is that of exactly one.                                 *)

LessNat == {ss \in Nat \X Nat : ss[1] < ss[2]}

\* Numbers have no endless descent.
LEMMA LessWF == IsWellFoundedOn(LessNat, Nat)
  BY NatLessThanWellFounded DEF OpToRel, LessNat

\* A set of numbers that is not empty has a least one.
LEMMA HasLeast ==
  ASSUME NEW T, T \subseteq Nat, T # {}
  PROVE  \E m \in T : \A n \in T : m <= n
<1>1. \E m \in T : \A n \in T : ~ (<<n, m>> \in LessNat)
  BY LessWF, WFMin
<1>2. PICK m \in T : \A n \in T : ~ (<<n, m>> \in LessNat)
  BY <1>1
<1>3. \A n \in T : ~ (n < m)
  BY <1>2 DEF LessNat
<1> QED
  BY <1>3

\* The smallest subset without a greatest element would have one more than another.
LEMMA HasGreatest ==
  ASSUME NEW T, T \subseteq Nat, T # {}, IsFiniteSet(T)
  PROVE  \E m \in T : \A n \in T : n <= m
<1> DEFINE HasMax(X) == \E m \in X : \A n \in X : n <= m
           Bad == {k \in Nat : \E X \in SUBSET T : X # {} /\ Cardinality(X) = k /\ ~HasMax(X)}
<1>1. Bad = {}
  <2> SUFFICES ASSUME Bad # {} PROVE FALSE
    OBVIOUS
  <2>1. PICK least \in Bad : \A n \in Bad : least <= n
    BY HasLeast
  <2>2. PICK X \in SUBSET T : X # {} /\ Cardinality(X) = least /\ ~HasMax(X)
    BY <2>1
  <2>3. PICK x \in X : TRUE
    BY <2>2
  <2> DEFINE Y == X \ {x}
  <2>4. IsFiniteSet(X) /\ Cardinality(X) \in Nat /\ Cardinality(Y) = Cardinality(X) - 1
        /\ IsFiniteSet(Y) /\ Cardinality(Y) \in Nat
    BY FS_Subset, FS_RemoveElement, FS_CardinalityType
  <2>5. Y # {}
    BY <2>2, <2>3
  <2>6. HasMax(Y)
    <3>1. Cardinality(Y) \in Nat /\ ~ (least <= Cardinality(Y))
      BY <2>1, <2>2, <2>4
    <3>2. Cardinality(Y) \notin Bad
      BY <2>1, <3>1
    <3> QED
      BY <2>5, <3>1, <3>2
  <2>7. PICK m \in Y : \A n \in Y : n <= m
    BY <2>6
  <2>8. \A n \in X : n <= (IF x <= m THEN m ELSE x)
    BY <2>7
  <2> QED
    BY <2>2, <2>8
<1> QED
  BY <1>1, FS_CardinalityType

\* One number is not after another, in an order that goes up or down.
Ahead(up, j, i) == IF up THEN j <= i ELSE j >= i
Upto(up, T, i) == {j \in T : Ahead(up, j, i)}
RankIn(up, T, i) == Cardinality(Upto(up, T, i))

\* A finite set of numbers has a first and a last in either order.
LEMMA HasFirstAndLast ==
  ASSUME NEW up, NEW T, T \subseteq Nat, T # {}, IsFiniteSet(T)
  PROVE  /\ \E m \in T : \A n \in T : Ahead(up, m, n)
         /\ \E m \in T : \A n \in T : Ahead(up, n, m)
<1>1. PICK least \in T : \A n \in T : least <= n
  BY HasLeast
<1>2. PICK greatest \in T : \A n \in T : n <= greatest
  BY HasGreatest
<1>3. \A m, n \in T : m >= n <=> n <= m
  OBVIOUS
<1> QED
  BY <1>1, <1>2, <1>3 DEF Ahead

\* Either order is total, and no two numbers are each ahead of the other.
LEMMA AheadIsOrder ==
  ASSUME NEW up, NEW i \in Nat, NEW j \in Nat, NEW k \in Nat
  PROVE  /\ Ahead(up, i, i) /\ (Ahead(up, i, j) \/ Ahead(up, j, i))
         /\ (Ahead(up, i, j) /\ Ahead(up, j, i) => i = j)
         /\ (Ahead(up, i, j) /\ Ahead(up, j, k) => Ahead(up, i, k))
  BY DEF Ahead

\* A rank is between one and the size of the set.
LEMMA RankType ==
  ASSUME NEW up, NEW T, T \subseteq Nat, IsFiniteSet(T), NEW i \in T
  PROVE  /\ Cardinality(T) \in Nat /\ RankIn(up, T, i) \in 1 .. Cardinality(T)
         /\ RankIn(up, T, i) \in Nat
<1> DEFINE P == Upto(up, T, i)
<1>1. P \in SUBSET T /\ i \in P
  BY AheadIsOrder DEF Upto
<1>2. IsFiniteSet(P) /\ Cardinality(P) <= Cardinality(T) /\ Cardinality(P) \in Nat /\ Cardinality(T) \in Nat
  BY <1>1, FS_Subset, FS_CardinalityType
<1>3. Cardinality(P) # 0
  BY <1>1, <1>2, FS_EmptySet
<1> QED
  BY <1>2, <1>3 DEF RankIn

\* What comes in does not move anyone forward.
LEMMA RankOfMore ==
  ASSUME NEW up, NEW T, T \subseteq Nat, IsFiniteSet(T), NEW U, U \subseteq T, NEW i
  PROVE  RankIn(up, U, i) <= RankIn(up, T, i)
<1>1. Upto(up, T, i) \in SUBSET T /\ Upto(up, U, i) \in SUBSET Upto(up, T, i)
  BY DEF Upto
<1>2. IsFiniteSet(Upto(up, T, i))
  BY <1>1, FS_Subset
<1> QED
  BY <1>1, <1>2, FS_Subset DEF RankIn

\* Who is ahead has the lower rank.
LEMMA RankGrows ==
  ASSUME NEW up, NEW T, T \subseteq Nat, IsFiniteSet(T), NEW i \in T, NEW j \in T,
         Ahead(up, i, j), i # j
  PROVE  RankIn(up, T, i) < RankIn(up, T, j)
<1> DEFINE P == Upto(up, T, i)
           R == Upto(up, T, j)
<1>0. i \in Nat /\ j \in Nat /\ \A k \in T : k \in Nat
  OBVIOUS
<1>1. R \in SUBSET T /\ P \in SUBSET R /\ j \in R /\ j \notin P
  <2>1. j \in R /\ j \notin P
    BY <1>0, AheadIsOrder DEF Upto
  <2>2. \A k \in P : k \in R
    BY <1>0, AheadIsOrder DEF Upto
  <2> QED
    BY <2>1, <2>2 DEF Upto
<1>2. IsFiniteSet(R) /\ Cardinality(R) \in Nat
  BY <1>1, FS_Subset, FS_CardinalityType
<1>3. IsFiniteSet(P) /\ Cardinality(P) \in Nat /\ Cardinality(P) <= Cardinality(R) /\ Cardinality(P) # Cardinality(R)
  BY <1>1, <1>2, FS_Subset, FS_CardinalityType
<1> QED
  BY <1>2, <1>3 DEF RankIn

\* No two elements have the same rank.
LEMMA RankIsOfOne ==
  ASSUME NEW up, NEW T, T \subseteq Nat, IsFiniteSet(T), NEW i \in T, NEW j \in T,
         RankIn(up, T, i) = RankIn(up, T, j)
  PROVE  i = j
<1>1. RankIn(up, T, i) \in Nat /\ RankIn(up, T, j) \in Nat
  BY RankType
<1>2. ASSUME i # j PROVE FALSE
  <2>1. Ahead(up, i, j) \/ Ahead(up, j, i)
    BY AheadIsOrder
  <2>2. RankIn(up, T, i) < RankIn(up, T, j) \/ RankIn(up, T, j) < RankIn(up, T, i)
    BY <1>2, <2>1, RankGrows
  <2> QED
    BY <2>2, <1>1
<1> QED
  BY <1>2

\* The first element of at least that rank has it: the one before has less.
LEMMA RankIsOfSome ==
  ASSUME NEW up, NEW T, T \subseteq Nat, IsFiniteSet(T), NEW r \in 1 .. Cardinality(T)
  PROVE  \E i \in T : RankIn(up, T, i) = r
<1> DEFINE High == {i \in T : RankIn(up, T, i) >= r}
<1>0. Cardinality(T) \in Nat /\ r \in Nat /\ 1 <= r /\ r <= Cardinality(T) /\ \A i \in T : i \in Nat
  BY FS_CardinalityType
<1>1. High # {} /\ High \subseteq Nat /\ IsFiniteSet(High)
  <2>1. T # {}
    BY <1>0, FS_EmptySet
  <2>2. PICK m \in T : \A n \in T : Ahead(up, n, m)
    BY <2>1, HasFirstAndLast
  <2>3. Upto(up, T, m) = T
    BY <2>2 DEF Upto
  <2>4. RankIn(up, T, m) = Cardinality(T)
    BY <2>3 DEF RankIn
  <2>5. High # {}
    BY <2>4, <1>0
  <2>6. High \in SUBSET T
    OBVIOUS
  <2> QED
    BY <2>5, <2>6, <1>0, FS_Subset
<1>2. PICK m \in High : \A n \in High : Ahead(up, m, n)
  BY <1>1, HasFirstAndLast
<1> DEFINE P == Upto(up, T, m)
           B == P \ {m}
<1>3. P \in SUBSET T /\ m \in P /\ B \in SUBSET T /\ m \in Nat
  BY <1>2, <1>0, AheadIsOrder DEF Upto
<1>4. IsFiniteSet(P) /\ IsFiniteSet(B) /\ Cardinality(B) = Cardinality(P) - 1 /\ Cardinality(P) \in Nat
      /\ Cardinality(B) \in Nat
  BY <1>3, FS_Subset, FS_RemoveElement, FS_CardinalityType
<1>5. RankIn(up, T, m) = Cardinality(P) /\ r <= Cardinality(P)
  BY <1>2, <1>4, <1>0 DEF RankIn
<1>6. CASE B = {}
  <2>1. Cardinality(B) = 0
    BY <1>6, FS_EmptySet
  <2> QED
    BY <2>1, <1>4, <1>5, <1>0, <1>2
<1>7. CASE B # {}
  <2>1. PICK p \in B : \A n \in B : Ahead(up, n, p)
    BY <1>7, <1>3, <1>4, HasFirstAndLast
  <2>2. p \in T /\ p \in Nat /\ Ahead(up, p, m) /\ p # m
    BY <2>1, <1>2, <1>0 DEF Upto
  <2>3. Upto(up, T, p) = B
    <3>1. ASSUME NEW j \in T, Ahead(up, j, p) PROVE j \in B
      BY <3>1, <2>2, <1>0, <1>3, AheadIsOrder DEF Upto
    <3>2. \A j \in B : j \in T /\ Ahead(up, j, p)
      BY <2>1, <1>3
    <3> QED
      BY <3>1, <3>2 DEF Upto
  <2>4. RankIn(up, T, p) = Cardinality(B)
    BY <2>3 DEF RankIn
  <2>5. ~ (Cardinality(B) >= r)
    <3>1. p \notin High
      BY <2>2, <1>2, <1>3, AheadIsOrder
    <3> QED
      BY <3>1, <2>2, <2>4
  <2> QED
    BY <2>5, <1>4, <1>5, <1>0, <1>2
<1> QED
  BY <1>6, <1>7

\* A part of a sequence, element by element.
LEMMA SubSeqIs ==
  ASSUME NEW Els, NEW s \in Seq(Els), NEW m \in Nat, NEW n \in Nat, m >= 1, n <= Len(s)
  PROVE  /\ SubSeq(s, m, n) \in Seq(Els)
         /\ Len(SubSeq(s, m, n)) = IF m <= n THEN n - m + 1 ELSE 0
         /\ \A i \in 1 .. (n - m + 1) : SubSeq(s, m, n)[i] = s[m + i - 1]
<1>1. \A i \in m .. n : s[i] \in Els
  <2>1. Len(s) \in Nat /\ \A i \in 1 .. Len(s) : s[i] \in Els
    OBVIOUS
  <2>2. \A i \in m .. n : i \in 1 .. Len(s)
    BY <2>1
  <2> QED
    BY <2>1, <2>2
<1> QED
  BY <1>1, SubSeqProperties

----------------------------------------------------------------------------
(* The queue, for every set of jobs, every number of processes and every bound:
   the table, the registries and the processes are well typed.                  *)

\* The creation rank is a number.
LEMMA RankIsNat ==
  ASSUME NEW some \in SUBSET Jobs
  PROVE  1 + Cardinality(some) \in Nat
BY JobsFinite, FS_Subset, FS_CardinalityType

\* Purge and the unguarded terminal writes keep the column well typed.
LEMMA PurgeTyped ==
  ASSUME TypeOK, NEW gone \in SUBSET Jobs, Purge(gone)
  PROVE  status' \in [Jobs -> Status]
BY DEF TypeOK, Purge, Status, Terminal

\* An unguarded terminal write (mark_failed and its siblings) keeps it well typed.
LEMMA MarkTyped ==
  ASSUME TypeOK, NEW j \in Jobs, NEW out \in Terminal, MarkTerminal(j, out)
  PROVE  status' \in [Jobs -> Status]
BY DEF TypeOK, MarkTerminal, Status, Terminal

\* Setting events keeps the registry well typed.
LEMMA SetEventsTyped ==
  ASSUME TypeOK, NEW w \in Workers, NEW some, SetEvents(w, some)
  PROVE  event' \in [Workers -> [Jobs -> Event]]
<1>1. [j \in Jobs |-> IF j \in some /\ event[w][j] # "none" THEN "set" ELSE event[w][j]]
        \in [Jobs -> Event]
  BY DEF TypeOK, Event
<1> QED
  BY <1>1 DEF TypeOK, SetEvents

\* Ending a task keeps tasks and registry well typed.
LEMMA EndTaskTyped ==
  ASSUME TypeOK, NEW w \in Workers, NEW j \in Jobs, EndTask(w, j)
  PROVE  /\ task' \in [Workers -> [Jobs -> Task]]
         /\ event' \in [Workers -> [Jobs -> Event]]
BY DEF TypeOK, EndTask, Task, Event

\* Every step keeps it well typed, those whose writes fail included.
LEMMA TypeKept == TypeOK /\ [FaultyNext]_vars => TypeOK'
<1> SUFFICES ASSUME TypeOK, [FaultyNext]_vars PROVE TypeOK'
  OBVIOUS
<1>1. CASE UNCHANGED vars
  BY <1>1 DEF vars, TypeOK
<1> SUFFICES ASSUME FaultyNext PROVE TypeOK'
  BY <1>1
<1>2. PICK w \in Workers :
        \/ Start(w) \/ EnterLoop(w) \/ Tick(w) \/ Cleanup(w)
        \/ Stop(w) \/ LoopCancelled(w) \/ Exit(w) \/ Crash(w)
        \/ StartBlind(w)
        \/ \E j \in Jobs :
             \/ Create(w, j) \/ Cancel(w, j) \/ RecoverOrphan(w, j)
             \/ TaskStep(w, j) \/ Abort(w, j) \/ DbFault(w, j)
  BY DEF Next, FaultyNext
<1>3. CASE Start(w) \/ StartBlind(w)
  <2>1. status' \in [Jobs -> Status]
    BY <1>3, PurgeTyped DEF Start, StartBlind
  <2>2. orphans' \in [Workers -> SUBSET Jobs]
    <3>1. PICK O \in SUBSET Jobs : orphans' = [orphans EXCEPT ![w] = O]
      <4>1. CASE Start(w)
        BY <4>1 DEF Start
      <4>2. CASE StartBlind(w)
        BY <4>2 DEF StartBlind
      <4> QED
        BY <1>3, <4>1, <4>2
    <3> QED
      BY <3>1 DEF TypeOK
  <2>3. phase' \in [Workers -> Phase]
    BY <1>3 DEF Start, StartBlind, TypeOK, Phase
  <2>4. UNCHANGED <<createdAt, task, event, runs, halts>>
    BY <1>3 DEF Start, StartBlind
  <2> QED
    BY <2>1, <2>2, <2>3, <2>4 DEF TypeOK
<1>4. CASE EnterLoop(w)
  BY <1>4 DEF EnterLoop, TypeOK, Phase
<1>5. CASE Tick(w)
  <2>1. [j \in Jobs |-> IF j \in Picked(w) THEN "spawned" ELSE task[w][j]]
          \in [Jobs -> Task]
    BY DEF TypeOK, Task
  <2> QED
    BY <1>5, <2>1 DEF Tick, TypeOK
<1>6. CASE Cleanup(w)
  <2>1. status' \in [Jobs -> Status]
    BY <1>6, PurgeTyped DEF Cleanup
  <2> QED
    BY <1>6, <2>1 DEF Cleanup, TypeOK
<1>7. CASE Stop(w)
  <2>1. event' \in [Workers -> [Jobs -> Event]]
    BY <1>7, SetEventsTyped DEF Stop
  <2>2. halts' \in Nat
    BY <1>7 DEF Stop, TypeOK
  <2>3. phase' \in [Workers -> Phase]
    BY <1>7 DEF Stop, TypeOK, Phase
  <2> QED
    BY <1>7, <2>1, <2>2, <2>3 DEF Stop, TypeOK
<1>8. CASE LoopCancelled(w)
  <2>1. event' \in [Workers -> [Jobs -> Event]]
    BY <1>8, SetEventsTyped DEF LoopCancelled
  <2> QED
    BY <1>8, <2>1 DEF LoopCancelled, TypeOK, Phase
<1>9. CASE Exit(w)
  BY <1>9 DEF Exit, TypeOK, Phase
<1>10. CASE Crash(w)
  BY <1>10 DEF Crash, TypeOK, Phase, Task, Event
<1>11. ASSUME NEW j \in Jobs, Create(w, j) PROVE TypeOK'
  <2>1. 1 + Cardinality({k \in Jobs : status[k] # "absent"}) \in Nat
    BY RankIsNat
  <2> QED
    BY <1>11, <2>1 DEF Create, TypeOK, Status
<1>12. ASSUME NEW j \in Jobs, Cancel(w, j) PROVE TypeOK'
  <2>1. event' \in [Workers -> [Jobs -> Event]]
    BY <1>12, SetEventsTyped DEF Cancel, TypeOK
  <2>2. status' \in [Jobs -> Status]
    BY <1>12 DEF Cancel, TypeOK, Status, Terminal
  <2> QED
    BY <1>12, <2>1, <2>2 DEF Cancel, TypeOK
<1>13. ASSUME NEW j \in Jobs, RecoverOrphan(w, j) PROVE TypeOK'
  <2>1. status' \in [Jobs -> Status]
    BY <1>13, MarkTyped DEF RecoverOrphan, TypeOK, Terminal
  <2> QED
    BY <1>13, <2>1 DEF RecoverOrphan, TypeOK
<1>14. ASSUME NEW j \in Jobs, TaskStep(w, j) PROVE TypeOK'
  <2>1. CASE ClaimWon(w, j)
    BY <2>1 DEF ClaimWon, TypeOK, Status, Task, Event
  <2>2. CASE ClaimLost(w, j)
    BY <2>2, EndTaskTyped DEF ClaimLost, TypeOK
  <2>3. ASSUME NEW out \in Terminal, Finish(w, j, out) PROVE TypeOK'
    <3>1. status' \in [Jobs -> Status]
      BY <2>3, MarkTyped DEF Finish
    <3> QED
      BY <2>3, <3>1, EndTaskTyped DEF Finish, TypeOK
  <2> QED
    BY <1>14, <2>1, <2>2, <2>3 DEF TaskStep
<1>15. ASSUME NEW j \in Jobs, Abort(w, j) PROVE TypeOK'
  <2>1. status' \in [Jobs -> Status]
    BY <1>15, MarkTyped DEF Abort, Terminal
  <2> QED
    BY <1>15, <2>1, EndTaskTyped DEF Abort, TypeOK
<1>16. ASSUME NEW j \in Jobs, DbFault(w, j) PROVE TypeOK'
  <2>1. CASE RecoverFails(w, j)
    BY <2>1 DEF RecoverFails, TypeOK
  <2>2. CASE ClaimRaises(w, j)
    BY <2>2 DEF ClaimRaises, TypeOK, Task, Event
  <2>3. CASE FailClaim(w, j)
    <3>1. status' \in [Jobs -> Status]
      BY <2>3, MarkTyped DEF FailClaim, TypeOK, Terminal
    <3> QED
      BY <2>3, <3>1, EndTaskTyped DEF FailClaim, TypeOK
  <2>4. CASE FinishLost(w, j)
    BY <2>4, EndTaskTyped DEF FinishLost, TypeOK
  <2> QED
    BY <1>16, <2>1, <2>2, <2>3, <2>4 DEF DbFault
<1> QED
  BY <1>2, <1>3, <1>4, <1>5, <1>6, <1>7, <1>8, <1>9, <1>10, <1>11, <1>12,
     <1>13, <1>14, <1>15, <1>16

\* Every variable keeps its type, whatever the processes and the database do.
THEOREM TypeCorrect == FaultySpec => []TypeOK
<1>1. Init => TypeOK
  BY DEF Init, TypeOK, Status, Phase, Task, Event
<1>2. TypeOK /\ [FaultyNext]_vars => TypeOK'
  BY TypeKept
<1> QED
  BY <1>1, <1>2, PTL DEF FaultySpec

\* A behaviour whose writes all succeed is one in which they may fail.
LEMMA WritesSucceed == Spec => FaultySpec
<1>1. [Next]_vars => [FaultyNext]_vars
  BY DEF FaultyNext
<1> QED
  BY <1>1, PTL DEF Spec, FaultySpec

-----------------------------------------------------------------------------
(***************************************************************************)
(* Claim exclusivity.  A row that is absent or queued has never run, and a *)
(* handler runs only for a row that left the queue; both facts survive     *)
(* every unguarded write, because no statement puts a row back to queued.  *)
(***************************************************************************)
NeverRun == \A j \in Jobs : status[j] \in {"absent", "queued"} => runs[j] = 0

HandlingLeftQueue ==
  \A w \in Workers, j \in Jobs :
    task[w][j] = "handling" => status[j] \notin {"absent", "queued"}

ClaimInv == TypeOK /\ RunAtMostOnce /\ NeverRun /\ HandlingLeftQueue /\ ExclusiveRun

\* No statement but create and mark_running touches a row that is absent or
\* queued without moving it on, and none moves a row back.
LEMMA NoRequeue ==
  ASSUME TypeOK, NEW j \in Jobs, status'[j] \in {"absent", "queued"},
         \/ \E gone \in SUBSET Jobs : Purge(gone)
         \/ \E k \in Jobs, out \in Terminal : MarkTerminal(k, out)
  PROVE  status[j] = status'[j]
BY DEF TypeOK, Purge, MarkTerminal, Terminal, Exists

\* A step that starts no handler and moves no row back keeps ClaimInv.
LEMMA ClaimInvKept ==
  ASSUME ClaimInv, TypeOK', runs' = runs,
         \A j \in Jobs : status'[j] \in {"absent", "queued"} =>
                           status[j] \in {"absent", "queued"},
         \A w \in Workers, j \in Jobs :
           task'[w][j] = "handling" => task[w][j] = "handling"
  PROVE  ClaimInv'
<1>1. RunAtMostOnce'
  BY DEF ClaimInv, RunAtMostOnce
<1>2. NeverRun'
  BY DEF ClaimInv, NeverRun
<1>3. HandlingLeftQueue'
  BY DEF ClaimInv, HandlingLeftQueue
<1>4. ExclusiveRun'
  BY DEF ClaimInv, ExclusiveRun
<1> QED
  BY <1>1, <1>2, <1>3, <1>4 DEF ClaimInv

\* No job has run at first, and every step keeps ClaimInv.
LEMMA ClaimsBegin == Init => ClaimInv
BY DEF Init, ClaimInv, TypeOK, Status, Phase, Task, Event, RunAtMostOnce,
       NeverRun, HandlingLeftQueue, ExclusiveRun

\* Every step keeps ClaimInv, those whose writes fail included.
LEMMA ClaimsKept == TypeOK' /\ ClaimInv /\ [FaultyNext]_vars => ClaimInv'
<1> SUFFICES ASSUME TypeOK', ClaimInv, [FaultyNext]_vars PROVE ClaimInv'
  OBVIOUS
<1> TypeOK
  BY DEF ClaimInv
<1> DEFINE Steady == /\ runs' = runs
                     /\ \A j \in Jobs : status'[j] \in {"absent", "queued"} =>
                                          status[j] \in {"absent", "queued"}
                     /\ \A w \in Workers, j \in Jobs :
                          task'[w][j] = "handling" => task[w][j] = "handling"
<1>0. Steady => ClaimInv'
  BY ClaimInvKept
<1> HIDE DEF Steady
<1>1. CASE UNCHANGED vars
  <2>1. Steady
    BY <1>1 DEF vars, Steady
  <2> QED
    BY <2>1, <1>0
<1> SUFFICES ASSUME FaultyNext PROVE ClaimInv'
  BY <1>1
<1>2. PICK w \in Workers :
        \/ Start(w) \/ EnterLoop(w) \/ Tick(w) \/ Cleanup(w)
        \/ Stop(w) \/ LoopCancelled(w) \/ Exit(w) \/ Crash(w)
        \/ StartBlind(w)
        \/ \E j \in Jobs :
             \/ Create(w, j) \/ Cancel(w, j) \/ RecoverOrphan(w, j)
             \/ TaskStep(w, j) \/ Abort(w, j) \/ DbFault(w, j)
  BY DEF Next, FaultyNext
<1>3. ASSUME Start(w) \/ StartBlind(w) \/ Cleanup(w) PROVE Steady
  <2>1. \E gone \in SUBSET Jobs : Purge(gone)
    BY <1>3 DEF Start, StartBlind, Cleanup
  <2> QED
    BY <1>3, <2>1, NoRequeue DEF Start, StartBlind, Cleanup, Steady
<1>4. ASSUME EnterLoop(w) \/ Stop(w) \/ LoopCancelled(w) \/ Exit(w) PROVE Steady
  BY <1>4 DEF EnterLoop, Stop, LoopCancelled, Exit, Steady
<1>5. ASSUME Tick(w) \/ Crash(w) PROVE Steady
  BY <1>5 DEF Tick, Crash, Steady, TypeOK
<1>6. ASSUME NEW j \in Jobs, Create(w, j) \/ Cancel(w, j) PROVE Steady
  BY <1>6 DEF Create, Cancel, Steady, TypeOK
<1>7. ASSUME NEW j \in Jobs, RecoverOrphan(w, j) PROVE Steady
  <2>1. MarkTerminal(j, "failed")
    BY <1>7 DEF RecoverOrphan
  <2> QED
    BY <1>7, <2>1, NoRequeue DEF RecoverOrphan, Steady, Terminal
<1>8. ASSUME NEW j \in Jobs, Abort(w, j) PROVE Steady
  BY <1>8, NoRequeue DEF Abort, EndTask, Steady, Terminal, TypeOK
<1>9. ASSUME NEW j \in Jobs, TaskStep(w, j), ~ ClaimWon(w, j) PROVE Steady
  <2>1. CASE ClaimLost(w, j)
    <3>1. UNCHANGED <<status, runs>> /\ EndTask(w, j)
      BY <2>1 DEF ClaimLost
    <3> QED
      BY <3>1 DEF EndTask, Steady, TypeOK
  <2>2. ASSUME NEW out \in Terminal, Finish(w, j, out) PROVE Steady
    <3>1. MarkTerminal(j, out) /\ EndTask(w, j) /\ runs' = runs
      BY <2>2 DEF Finish
    <3>2. \A k \in Jobs : status'[k] \in {"absent", "queued"} =>
                           status[k] \in {"absent", "queued"}
      BY <3>1, NoRequeue
    <3>3. \A v \in Workers, k \in Jobs :
            task'[v][k] = "handling" => task[v][k] = "handling"
      BY <3>1 DEF EndTask, TypeOK
    <3> QED
      BY <3>1, <3>2, <3>3 DEF Steady
  <2> QED
    BY <1>9, <2>1, <2>2 DEF TaskStep
<1>11. ASSUME NEW j \in Jobs, DbFault(w, j) PROVE Steady
  <2>1. CASE RecoverFails(w, j)
    BY <2>1 DEF RecoverFails, Steady
  <2>2. CASE ClaimRaises(w, j)
    BY <2>2 DEF ClaimRaises, Steady, TypeOK
  <2>3. CASE FailClaim(w, j)
    <3>1. MarkTerminal(j, "failed") \/ UNCHANGED status
      BY <2>3 DEF FailClaim
    <3>2. \A k \in Jobs : status'[k] \in {"absent", "queued"} =>
                           status[k] \in {"absent", "queued"}
      BY <3>1, NoRequeue DEF Terminal
    <3>3. \A v \in Workers, k \in Jobs :
            task'[v][k] = "handling" => task[v][k] = "handling"
      BY <2>3 DEF FailClaim, EndTask, TypeOK
    <3> QED
      BY <2>3, <3>2, <3>3 DEF FailClaim, Steady
  <2>4. CASE FinishLost(w, j)
    <3>1. UNCHANGED <<status, runs>> /\ EndTask(w, j)
      BY <2>4 DEF FinishLost
    <3> QED
      BY <3>1 DEF EndTask, Steady, TypeOK
  <2> QED
    BY <1>11, <2>1, <2>2, <2>3, <2>4 DEF DbFault
<1>10. ASSUME NEW j \in Jobs, ClaimWon(w, j) PROVE ClaimInv'
  <2>1. runs[j] = 0
    BY <1>10 DEF ClaimWon, ClaimInv, NeverRun
  <2>2. \A v \in Workers : task[v][j] # "handling"
    BY <1>10 DEF ClaimWon, ClaimInv, HandlingLeftQueue
  <2>3. RunAtMostOnce'
    BY <1>10, <2>1 DEF ClaimWon, ClaimInv, RunAtMostOnce, TypeOK
  <2>4. NeverRun' /\ HandlingLeftQueue'
    BY <1>10 DEF ClaimWon, ClaimInv, NeverRun, HandlingLeftQueue, TypeOK
  <2>5. ExclusiveRun'
    BY <1>10, <2>2 DEF ClaimWon, ClaimInv, ExclusiveRun, TypeOK
  <2> QED
    BY <2>3, <2>4, <2>5 DEF ClaimInv
<1> QED
  BY <1>0, <1>2, <1>3, <1>4, <1>5, <1>6, <1>7, <1>8, <1>9, <1>10, <1>11

\* Claim exclusivity for any number of processes, with crashes, restarts and
\* failing writes: the handler of a job is started at most once, so never on
\* two processes at a time.
THEOREM ClaimExclusive == FaultySpec => [](RunAtMostOnce /\ ExclusiveRun)
<1>1. Init => ClaimInv
  BY ClaimsBegin
<1>2. TypeOK' /\ ClaimInv /\ [FaultyNext]_vars => ClaimInv'
  BY ClaimsKept
<1>3. ClaimInv => RunAtMostOnce /\ ExclusiveRun
  BY DEF ClaimInv
<1> QED
  BY <1>1, <1>2, <1>3, TypeCorrect, PTL DEF FaultySpec

-----------------------------------------------------------------------------
(***************************************************************************)
(* One process per database and writes that succeed, which is how          *)
(* docs/processes.md says the server is to be deployed.                    *)
(***************************************************************************)
SingleProcess == \A w, v \in Workers : w = v

Live == {"polling", "stopping", "draining"}

\* A running row is exactly one with a live handler, or, between processes and
\* during recovery, one that the next EnterLoop has yet to see failed.
HandlersOwnRunning ==
  \A w \in Workers, j \in Jobs :
    task[w][j] = "handling" <=> phase[w] \in Live /\ status[j] = "running"

OrphansAreRunning ==
  \A w \in Workers :
    orphans[w] = IF phase[w] = "recovering"
                 THEN {j \in Jobs : status[j] = "running"} ELSE {}

SpawnedWhileUp ==
  \A w \in Workers, j \in Jobs :
    task[w][j] = "spawned" => phase[w] \in {"polling", "stopping"}

NoHalfStep == \A w \in Workers, j \in Jobs : task[w][j] # "failing"

OwnInv ==
  /\ TypeOK /\ HandlersOwnRunning /\ OrphansAreRunning
  /\ SpawnedWhileUp /\ NoHalfStep /\ RegistryTracksTasks

\* Under OwnInv, a set cancel event belongs to a running handler.
LEMMA SetEventOwned ==
  ASSUME OwnInv, NEW w \in Workers, NEW j \in Jobs, event[w][j] # "none"
  PROVE  task[w][j] = "handling" /\ status[j] = "running" /\ phase[w] \in Live
BY DEF OwnInv, RegistryTracksTasks, NoHalfStep, HandlersOwnRunning

\* SetEvents neither creates nor drops an event.
LEMMA SetEventsKeeps ==
  ASSUME TypeOK, NEW w \in Workers, NEW some, SetEvents(w, some),
         NEW v \in Workers, NEW j \in Jobs
  PROVE  event'[v][j] = "none" <=> event[v][j] = "none"
BY DEF TypeOK, SetEvents

\* The ownership invariant holds from start-up through recovery, running,
\* shutdown, crash and the next start-up.
LEMMA OwnInvStep ==
  ASSUME SingleProcess, TypeOK', OwnInv, [Next]_vars
  PROVE  OwnInv'
<1>0. TypeOK
  BY DEF OwnInv
<1>1. CASE UNCHANGED vars
  BY <1>1 DEF vars, OwnInv, TypeOK, HandlersOwnRunning, OrphansAreRunning,
              SpawnedWhileUp, NoHalfStep, RegistryTracksTasks
<1> SUFFICES ASSUME Next PROVE OwnInv'
  BY <1>1
<1>2. PICK w \in Workers :
        \/ Start(w) \/ EnterLoop(w) \/ Tick(w) \/ Cleanup(w)
        \/ Stop(w) \/ LoopCancelled(w) \/ Exit(w) \/ Crash(w)
        \/ \E j \in Jobs :
             \/ Create(w, j) \/ Cancel(w, j) \/ RecoverOrphan(w, j)
             \/ TaskStep(w, j) \/ Abort(w, j)
  BY DEF Next
<1>3. \A v \in Workers : v = w
  BY DEF SingleProcess
\* What the invariant says of the only process.
<1> DEFINE Here(st, ph, orp, tk, ev) ==
             /\ \A j \in Jobs : tk[j] = "handling" <=> ph \in Live /\ st[j] = "running"
             /\ orp = IF ph = "recovering" THEN {j \in Jobs : st[j] = "running"} ELSE {}
             /\ \A j \in Jobs : tk[j] = "spawned" => ph \in {"polling", "stopping"}
             /\ \A j \in Jobs : tk[j] # "failing"
             /\ \A j \in Jobs : ev[j] # "none" <=> tk[j] \in {"handling", "failing"}
           Hyp == Here(status, phase[w], orphans[w], task[w], event[w])
           Goal == Here(status', phase'[w], orphans'[w], task'[w], event'[w])
<1>5. Hyp
  BY DEF OwnInv, HandlersOwnRunning, OrphansAreRunning, SpawnedWhileUp,
         NoHalfStep, RegistryTracksTasks
<1>6. ASSUME Goal PROVE OwnInv'
  <2>1. HandlersOwnRunning'
    BY <1>3, <1>6 DEF HandlersOwnRunning
  <2>2. OrphansAreRunning'
    BY <1>3, <1>6 DEF OrphansAreRunning
  <2>3. SpawnedWhileUp'
    BY <1>3, <1>6 DEF SpawnedWhileUp
  <2>4. NoHalfStep'
    BY <1>3, <1>6 DEF NoHalfStep
  <2>5. RegistryTracksTasks'
    BY <1>3, <1>6 DEF RegistryTracksTasks
  <2> QED
    BY <2>1, <2>2, <2>3, <2>4, <2>5 DEF OwnInv
<1>7. ASSUME Start(w) PROVE Goal
  <2>1. /\ phase[w] = "down" /\ phase'[w] = "recovering"
        /\ task'[w] = task[w] /\ event'[w] = event[w]
        /\ orphans'[w] = {j \in Jobs : status[j] = "running"}
    BY <1>0, <1>7 DEF Start, TypeOK
  <2>2. PICK gone \in SUBSET Jobs : Purge(gone)
    BY <1>7 DEF Start
  <2>3. \A j \in Jobs : status'[j] = "running" <=> status[j] = "running"
    BY <2>2 DEF Purge, Terminal
  <2> QED
    BY <1>5, <2>1, <2>3 DEF Live
<1>8. ASSUME EnterLoop(w) PROVE Goal
  BY <1>0, <1>5, <1>8 DEF EnterLoop, TypeOK, Live
<1>9. ASSUME Tick(w) PROVE Goal
  BY <1>0, <1>5, <1>9 DEF Tick, Picked, Queued, TypeOK, Live
<1>10. ASSUME Cleanup(w) PROVE Goal
  BY <1>0, <1>5, <1>10 DEF Cleanup, Purge, TypeOK, Live, Terminal
<1>11. ASSUME Stop(w) PROVE Goal
  BY <1>0, <1>5, <1>11, SetEventsKeeps DEF Stop, TypeOK, Live
<1>12. ASSUME LoopCancelled(w) PROVE Goal
  BY <1>0, <1>5, <1>12, SetEventsKeeps DEF LoopCancelled, Spawned, TypeOK, Live
<1>13. ASSUME Exit(w) PROVE Goal
  BY <1>0, <1>5, <1>13 DEF Exit, InFlight, TypeOK, Live
<1>14. ASSUME Crash(w) PROVE Goal
  BY <1>0, <1>5, <1>14 DEF Crash, TypeOK, Live
<1>15. ASSUME NEW j \in Jobs, Create(w, j) PROVE Goal
  BY <1>0, <1>5, <1>15 DEF Create, TypeOK, Live
<1>16. ASSUME NEW j \in Jobs, Cancel(w, j) PROVE Goal
  BY <1>0, <1>5, <1>16, SetEventsKeeps DEF Cancel, TypeOK, Live
<1>17. ASSUME NEW j \in Jobs, RecoverOrphan(w, j) PROVE Goal
  BY <1>0, <1>5, <1>17 DEF RecoverOrphan, MarkTerminal, Exists, TypeOK, Live
<1>18. ASSUME NEW j \in Jobs, ClaimWon(w, j) PROVE Goal
  BY <1>0, <1>5, <1>18 DEF ClaimWon, FirstStep, TypeOK, Live
<1>19. ASSUME NEW j \in Jobs, ClaimLost(w, j) PROVE Goal
  BY <1>0, <1>5, <1>19 DEF ClaimLost, FirstStep, EndTask, TypeOK, Live
<1>20. ASSUME NEW j \in Jobs, NEW out \in Terminal, Finish(w, j, out) PROVE Goal
  BY <1>0, <1>5, <1>20 DEF Finish, MarkTerminal, Exists, EndTask, TypeOK, Live, Terminal
<1>21. ASSUME NEW j \in Jobs, Abort(w, j) PROVE Goal
  BY <1>0, <1>5, <1>21 DEF Abort, MarkTerminal, Exists, EndTask, TypeOK, Live
<1>22. ASSUME NEW j \in Jobs, TaskStep(w, j) PROVE Goal
  BY <1>18, <1>19, <1>20, <1>22 DEF TaskStep
<1> QED
  BY <1>2, <1>6, <1>7, <1>8, <1>9, <1>10, <1>11, <1>12, <1>13, <1>14, <1>15,
     <1>16, <1>17, <1>21, <1>22

\* OwnInv is an invariant when one process uses the table and writes succeed.
LEMMA OwnInvariant ==
  ASSUME SingleProcess
  PROVE  Spec => []OwnInv
<1>1. Init => OwnInv
  BY DEF Init, OwnInv, TypeOK, Status, Phase, Task, Event, HandlersOwnRunning,
         OrphansAreRunning, SpawnedWhileUp, NoHalfStep, RegistryTracksTasks, Live
<1>2. TypeOK' /\ OwnInv /\ [Next]_vars => OwnInv'
  BY OwnInvStep
<1> QED
  BY <1>1, <1>2, WritesSucceed, TypeCorrect, PTL DEF Spec

\* With one process and writes that succeed there are no zombie rows: while the
\* process polls, every RUNNING row has a live handler that a cancel reaches,
\* and no cancel event outlives its task.
THEOREM OwnershipHolds ==
  ASSUME SingleProcess
  PROVE  Spec => [](RunningIsOwned /\ RegistryTracksTasks)
<1>1. OwnInv => RunningIsOwned /\ RegistryTracksTasks
  BY DEF OwnInv, RunningIsOwned, RegistryTracksTasks, HandlersOwnRunning, Live
<1> QED
  BY <1>1, OwnInvariant, PTL

\* The refinement mapping of Lifecycle.
Asked == {j \in Jobs : \E w \in Workers : event[w][j] = "set"}

\* Each step of the queue is a step of the client-level contract, or none.
LEMMA LifecycleStep ==
  ASSUME SingleProcess, OwnInv, TypeOK', OwnInv', [Next]_vars
  PROVE  [Lifecycle!Next]_(Lifecycle!vars)
<1>0. TypeOK
  BY DEF OwnInv
<1>a. ASSUME UNCHANGED <<status, Asked>> PROVE UNCHANGED Lifecycle!vars
  BY <1>a DEF Lifecycle!vars, Asked
<1>1. CASE UNCHANGED vars
  <2>1. UNCHANGED <<status, Asked>>
    BY <1>1 DEF vars, Asked
  <2> QED
    BY <1>a, <2>1
<1> SUFFICES ASSUME Next, ~ UNCHANGED <<status, Asked>> PROVE Lifecycle!Next
  BY <1>1, <1>a
<1>2. PICK w \in Workers :
        \/ Start(w) \/ EnterLoop(w) \/ Tick(w) \/ Cleanup(w)
        \/ Stop(w) \/ LoopCancelled(w) \/ Exit(w) \/ Crash(w)
        \/ \E j \in Jobs :
             \/ Create(w, j) \/ Cancel(w, j) \/ RecoverOrphan(w, j)
             \/ TaskStep(w, j) \/ Abort(w, j)
  BY DEF Next
<1>3. \A v \in Workers : v = w
  BY DEF SingleProcess
<1>5. Asked = {j \in Jobs : event[w][j] = "set"}
  BY <1>3 DEF Asked
<1>6. Asked' = {j \in Jobs : event'[w][j] = "set"}
  BY <1>3 DEF Asked
<1>7. \A j \in Jobs : event[w][j] # "none" =>
        task[w][j] = "handling" /\ status[j] = "running" /\ phase[w] \in Live
  BY SetEventOwned
<1>8. ~ (EnterLoop(w) \/ Exit(w) \/ Tick(w))
  BY DEF EnterLoop, Exit, Tick, Asked
<1>9. ASSUME Start(w) \/ Cleanup(w) PROVE Lifecycle!Next
  <2>1. PICK gone \in SUBSET Jobs : Purge(gone)
    BY <1>9 DEF Start, Cleanup
  <2>2. UNCHANGED event
    BY <1>9 DEF Start, Cleanup
  <2>3. Lifecycle!Purge(gone)
    BY <2>1, <2>2 DEF Purge, Lifecycle!Purge, Terminal, Lifecycle!Terminal
  <2> QED
    BY <2>3 DEF Lifecycle!Next
<1>10. ASSUME NEW some \in SUBSET Jobs, SetEvents(w, some), UNCHANGED status
       PROVE  Lifecycle!Next
  <2>0. PICK A \in SUBSET Jobs : A = {j \in some : event[w][j] # "none"}
    OBVIOUS
  <2>1. \A j \in A : status[j] = "running"
    BY <1>7, <2>0
  <2>2. \A j \in Jobs : event'[w][j] = IF j \in A THEN "set" ELSE event[w][j]
    BY <1>0, <1>10, <2>0 DEF SetEvents, TypeOK
  <2>3. Asked' = Asked \cup A
    BY <1>5, <1>6, <2>2
  <2>4. Lifecycle!Ask(A)
    BY <1>10, <2>1, <2>3 DEF Lifecycle!Ask, Asked
  <2> QED
    BY <2>4 DEF Lifecycle!Next
<1>11. ASSUME Stop(w) \/ LoopCancelled(w) PROVE Lifecycle!Next
  BY <1>11, <1>10 DEF Stop, LoopCancelled, InFlight
<1>12. ASSUME Crash(w) PROVE Lifecycle!Next
  <2>1. Asked' = {}
    BY <1>0, <1>6, <1>12 DEF Crash, TypeOK
  <2>2. Lifecycle!Forget
    BY <1>12, <2>1 DEF Crash, Lifecycle!Forget, Asked
  <2> QED
    BY <2>2 DEF Lifecycle!Next
<1>13. ASSUME NEW j \in Jobs, Create(w, j) PROVE Lifecycle!Next
  <2>1. Lifecycle!Enqueue(j)
    BY <1>13 DEF Create, Lifecycle!Enqueue
  <2> QED
    BY <2>1 DEF Lifecycle!Next
<1>14. ASSUME NEW j \in Jobs, Cancel(w, j) PROVE Lifecycle!Next
  <2>1. CASE status[j] = "queued"
    <3>1. Lifecycle!CancelQueued(j)
      BY <1>14, <2>1 DEF Cancel, Lifecycle!CancelQueued
    <3> QED
      BY <3>1 DEF Lifecycle!Next
  <2>2. CASE status[j] # "queued"
    BY <1>10, <1>14, <2>2 DEF Cancel
  <2> QED
    BY <2>1, <2>2
\* A terminal write of a running row, with its event dropped, ends the run.
<1>15. ASSUME NEW j \in Jobs, NEW out \in Terminal, MarkTerminal(j, out),
              status[j] = "running",
              out = "succeeded" => j \notin Asked \cap Cooperative,
              Asked' = Asked \ {j}
       PROVE  Lifecycle!Next
  <2>1. status' = [status EXCEPT ![j] = out]
    BY <1>15 DEF MarkTerminal, Exists
  <2>2. Lifecycle!End(j)
    BY <1>15, <2>1 DEF Lifecycle!End, Lifecycle!Terminal, Terminal, Asked
  <2> QED
    BY <2>2 DEF Lifecycle!Next
<1>16. ASSUME NEW j \in Jobs, EndTask(w, j) PROVE Asked' = Asked \ {j}
  BY <1>0, <1>5, <1>6, <1>16 DEF EndTask, TypeOK
<1>17. ASSUME NEW j \in Jobs, RecoverOrphan(w, j) PROVE Lifecycle!Next
  <2>1. status[j] = "running" /\ phase[w] = "recovering"
    BY <1>17 DEF RecoverOrphan, OwnInv, OrphansAreRunning
  <2>2. Asked' = Asked \ {j}
    BY <1>5, <1>6, <1>7, <1>17, <2>1 DEF RecoverOrphan, Live
  <2>3. MarkTerminal(j, "failed")
    BY <1>17 DEF RecoverOrphan
  <2> QED
    BY <1>15, <2>1, <2>2, <2>3 DEF Terminal
<1>18. ASSUME NEW j \in Jobs, Abort(w, j) PROVE Lifecycle!Next
  <2>1. status[j] = "running"
    BY <1>18 DEF Abort, OwnInv, HandlersOwnRunning
  <2>2. Asked' = Asked \ {j}
    BY <1>16, <1>18 DEF Abort
  <2> QED
    BY <1>15, <1>18, <2>1, <2>2 DEF Abort, Terminal
<1>19. ASSUME NEW j \in Jobs, NEW out \in Terminal, Finish(w, j, out)
       PROVE  Lifecycle!Next
  <2>1. status[j] = "running"
    BY <1>19 DEF Finish, OwnInv, HandlersOwnRunning
  <2>2. Asked' = Asked \ {j}
    BY <1>16, <1>19 DEF Finish
  <2>3. out = "succeeded" => j \notin Asked \cap Cooperative
    BY <1>5, <1>19 DEF Finish
  <2> QED
    BY <1>15, <1>19, <2>1, <2>2, <2>3 DEF Finish
<1>20. ASSUME NEW j \in Jobs, ClaimWon(w, j) PROVE Lifecycle!Next
  <2>1. event[w][j] = "none"
    BY <1>7, <1>20 DEF ClaimWon
  <2>2. Asked' = Asked
    BY <1>0, <1>5, <1>6, <1>20, <2>1 DEF ClaimWon, TypeOK
  <2>3. Lifecycle!Claim(j)
    BY <1>20, <2>2 DEF ClaimWon, Lifecycle!Claim, Asked
  <2> QED
    BY <2>3 DEF Lifecycle!Next
<1>21. ASSUME NEW j \in Jobs, ClaimLost(w, j) PROVE FALSE
  <2>1. event[w][j] = "none"
    BY <1>7, <1>21 DEF ClaimLost, FirstStep
  <2>2. Asked' = Asked
    BY <1>5, <1>16, <1>21, <2>1 DEF ClaimLost
  <2> QED
    BY <1>21, <2>2 DEF ClaimLost
<1>22. ASSUME NEW j \in Jobs, TaskStep(w, j) PROVE Lifecycle!Next
  BY <1>19, <1>20, <1>21, <1>22 DEF TaskStep
<1> QED
  BY <1>2, <1>8, <1>9, <1>11, <1>12, <1>13, <1>14, <1>17, <1>18, <1>22

\* One process per database: the queue implements the client-level contract
\* (state diagram, cancellation, retention) for every set of jobs.
THEOREM QueueImplementsLifecycle ==
  ASSUME SingleProcess
  PROVE  Spec => LifecycleSpec
<1>1. Init => Lifecycle!Init
  BY DEF Init, Lifecycle!Init
<1>2. OwnInv /\ TypeOK' /\ OwnInv' /\ [Next]_vars => [Lifecycle!Next]_(Lifecycle!vars)
  BY LifecycleStep
<1> QED
  BY <1>1, <1>2, WritesSucceed, TypeCorrect, OwnInvariant, PTL DEF Spec, LifecycleSpec,
     Lifecycle!Spec

\* The contract never rewrites an outcome.
LEMMA LifecycleFinal ==
  ASSUME TypeOK, [Lifecycle!Next]_(Lifecycle!vars)
  PROVE  \A j \in Jobs : status[j] \in Terminal => status'[j] \in {status[j], "deleted"}
<1>1. CASE UNCHANGED Lifecycle!vars
  BY <1>1 DEF Lifecycle!vars
<1>2. ASSUME NEW k \in Jobs,
             Lifecycle!Enqueue(k) \/ Lifecycle!CancelQueued(k) \/ Lifecycle!Claim(k)
      PROVE  \A j \in Jobs : status[j] \in Terminal => status'[j] \in {status[j], "deleted"}
  BY <1>2 DEF Lifecycle!Enqueue, Lifecycle!CancelQueued, Lifecycle!Claim, Terminal, TypeOK
<1>3. ASSUME NEW k \in Jobs, Lifecycle!End(k)
      PROVE  \A j \in Jobs : status[j] \in Terminal => status'[j] \in {status[j], "deleted"}
  <2>1. status[k] = "running" /\ \A j \in Jobs \ {k} : status'[j] = status[j]
    BY <1>3 DEF Lifecycle!End, TypeOK
  <2> QED
    BY <2>1 DEF Terminal
<1>4. ASSUME NEW A \in SUBSET Jobs, Lifecycle!Ask(A) \/ Lifecycle!Purge(A)
      PROVE  \A j \in Jobs : status[j] \in Terminal => status'[j] \in {status[j], "deleted"}
  BY <1>4 DEF Lifecycle!Ask, Lifecycle!Purge
<1>5. ASSUME Lifecycle!Forget
      PROVE  \A j \in Jobs : status[j] \in Terminal => status'[j] \in {status[j], "deleted"}
  BY <1>5 DEF Lifecycle!Forget
<1> QED
  BY <1>1, <1>2, <1>3, <1>4, <1>5 DEF Lifecycle!Next

\* One process per database: although the terminal writes carry no guard on the
\* old status, none of them ever rewrites an outcome.
THEOREM OutcomeIsFinal ==
  ASSUME SingleProcess
  PROVE  Spec => TerminalIsFinal
<1>1. OwnInv /\ TypeOK' /\ OwnInv' /\ [Next]_vars =>
        [\A j \in Jobs : status[j] \in Terminal => status'[j] \in {status[j], "deleted"}]_vars
  BY LifecycleStep, LifecycleFinal DEF OwnInv
<1> QED
  BY <1>1, WritesSucceed, TypeCorrect, OwnInvariant, PTL DEF Spec, TerminalIsFinal

-----------------------------------------------------------------------------
(***************************************************************************)
(* The cap.  Creation ranks are distinct, so the rows the loop picks have  *)
(* distinct numbers of newer queued rows, all below the free places.       *)
(***************************************************************************)
Known == {k \in Jobs : status[k] # "absent"}

RanksInOrder ==
  /\ \A j \in Known : createdAt[j] <= Cardinality(Known)
  /\ \A j, k \in Known : createdAt[j] = createdAt[k] => j = k

CapInv == RanksInOrder /\ InFlightBounded

\* The rows a loop picks fit into the places that are free.
LEMMA PickedFits ==
  ASSUME TypeOK, RanksInOrder, NEW w \in Workers,
         Cardinality(InFlight(w)) <= MaxConcurrent
  PROVE  /\ IsFiniteSet(Picked(w)) /\ IsFiniteSet(InFlight(w))
         /\ Cardinality(Picked(w)) + Cardinality(InFlight(w)) <= MaxConcurrent
<1> DEFINE Newer(j) == {k \in Queued : createdAt[k] > createdAt[j]}
           c == Cardinality(InFlight(w))
           n == MaxConcurrent - c
<1>1. IsFiniteSet(InFlight(w)) /\ IsFiniteSet(Queued) /\ IsFiniteSet(Picked(w))
  BY JobsFinite, FS_Subset DEF InFlight, Queued, Picked
<1>2. c \in Nat /\ n \in Nat
  BY <1>1, FS_CardinalityType, MaxConcurrentPositive
<1>3. \A j \in Queued : IsFiniteSet(Newer(j)) /\ Cardinality(Newer(j)) \in Nat
  <2> SUFFICES ASSUME NEW j \in Queued PROVE IsFiniteSet(Newer(j)) /\ Cardinality(Newer(j)) \in Nat
    OBVIOUS
  <2>1. IsFiniteSet(Newer(j))
    BY <1>1, FS_Subset
  <2> QED
    BY <2>1, FS_CardinalityType
<1>4. \A x, y \in Queued : createdAt[x] > createdAt[y] => Cardinality(Newer(x)) < Cardinality(Newer(y))
  <2> SUFFICES ASSUME NEW x \in Queued, NEW y \in Queued, createdAt[x] > createdAt[y]
               PROVE  Cardinality(Newer(x)) < Cardinality(Newer(y))
    OBVIOUS
  <2>1. \A k \in Queued : createdAt[k] \in Nat
    BY DEF TypeOK, Queued
  <2>2. Newer(x) \in SUBSET Newer(y)
    BY <2>1
  <2>3. x \in Newer(y) /\ x \notin Newer(x)
    BY <2>1
  <2> HIDE DEF Newer
  <2>4. /\ Cardinality(Newer(x)) <= Cardinality(Newer(y))
        /\ Cardinality(Newer(x)) # Cardinality(Newer(y))
    BY <1>3, <2>2, <2>3, FS_Subset
  <2> QED
    BY <1>3, <2>4
<1>5. \A x, y \in Queued : createdAt[x] = createdAt[y] => x = y
  BY DEF RanksInOrder, Known, Queued
<1>6. Picked(w) = {j \in Queued : Cardinality(Newer(j)) + c < MaxConcurrent}
  BY DEF Picked
<1> HIDE DEF Newer, c
<1>7. Cardinality(Picked(w)) <= n
  <2> SUFFICES ASSUME Cardinality(Picked(w)) > n PROVE FALSE
    BY <1>1, <1>2, FS_CardinalityType
  <2> DEFINE f == [j \in Picked(w) |-> Cardinality(Newer(j))]
  <2>1. f \in [Picked(w) -> 0 .. (n - 1)]
    BY <1>2, <1>3, <1>6, MaxConcurrentPositive
  <2>2. IsFiniteSet(0 .. (n - 1)) /\ Cardinality(0 .. (n - 1)) = n
    <3> HIDE DEF f, n
    <3>1. 0 \in Int /\ n - 1 \in Int /\ n \in Nat
      BY <1>2
    <3>2. /\ IsFiniteSet(0 .. (n - 1))
          /\ Cardinality(0 .. (n - 1)) = IF 0 > n - 1 THEN 0 ELSE (n - 1) - 0 + 1
      BY <3>1, FS_Interval
    <3> QED
      BY <3>1, <3>2
  <2>c. Cardinality(Picked(w)) \in Nat
    BY <1>1, FS_CardinalityType
  <2>3. Cardinality(0 .. (n - 1)) < Cardinality(Picked(w))
    <3> HIDE DEF n
    <3> QED
      BY <2>2, <2>c, <1>2
  <2>4. PICK x, y \in Picked(w) : x # y /\ f[x] = f[y]
    <3> HIDE DEF f, n
    <3> QED
      BY <1>1, <2>1, <2>2, <2>3, FS_PigeonHole
  <2>5. x \in Queued /\ y \in Queued /\ Cardinality(Newer(x)) = Cardinality(Newer(y))
    BY <2>4, <1>6
  <2>6. createdAt[x] # createdAt[y] /\ createdAt[x] \in Nat /\ createdAt[y] \in Nat
    BY <2>4, <2>5, <1>5 DEF TypeOK, Queued
  <2> QED
    BY <2>5, <2>6, <1>3, <1>4
<1>8. Cardinality(Picked(w)) \in Nat
  BY <1>1, FS_CardinalityType
<1> QED
  BY <1>1, <1>2, <1>7, <1>8, MaxConcurrentPositive DEF c

\* No statement but create makes a row known, and none makes one unknown.
LEMMA KnownKept ==
  ASSUME TypeOK,
         \/ \E gone \in SUBSET Jobs : Purge(gone)
         \/ \E k \in Jobs, out \in Terminal : MarkTerminal(k, out)
  PROVE  Known' = Known
BY DEF TypeOK, Purge, MarkTerminal, Terminal, Exists, Known

\* A step that takes on no task and makes no row known keeps the cap.
LEMMA CapKept ==
  ASSUME TypeOK, TypeOK', CapInv, Known' = Known, createdAt' = createdAt,
         \A w \in Workers : InFlight(w)' \subseteq InFlight(w)
  PROVE  CapInv'
<1>1. RanksInOrder'
  BY DEF CapInv, RanksInOrder
<1>2. ASSUME NEW w \in Workers PROVE Cardinality(InFlight(w)') <= MaxConcurrent
  <2>1. IsFiniteSet(InFlight(w))
    BY JobsFinite, FS_Subset DEF InFlight
  <2>2. IsFiniteSet(InFlight(w)') /\ Cardinality(InFlight(w)') <= Cardinality(InFlight(w))
    BY <2>1, FS_Subset
  <2>3. Cardinality(InFlight(w)') \in Nat /\ Cardinality(InFlight(w)) \in Nat
    BY <2>1, <2>2, FS_CardinalityType
  <2>4. Cardinality(InFlight(w)) <= MaxConcurrent
    BY DEF CapInv, InFlightBounded
  <2> QED
    BY <2>2, <2>3, <2>4, MaxConcurrentPositive
<1> QED
  BY <1>1, <1>2 DEF CapInv, InFlightBounded

\* max_concurrent_jobs bounds the tasks of every process (run() in
\* job_worker.py), for any number of jobs and processes, with crashes, failing
\* writes and claims lost in any order.
THEOREM CapHolds == FaultySpec => []InFlightBounded
<1>1. Init => CapInv
  <2> SUFFICES ASSUME Init PROVE CapInv
    OBVIOUS
  <2>1. Known = {} /\ \A w \in Workers : InFlight(w) = {}
    BY DEF Init, Known, InFlight
  <2> QED
    BY <2>1, FS_EmptySet, MaxConcurrentPositive DEF CapInv, RanksInOrder, InFlightBounded
<1>2. TypeOK /\ TypeOK' /\ CapInv /\ [FaultyNext]_vars => CapInv'
  <2> SUFFICES ASSUME TypeOK, TypeOK', CapInv, [FaultyNext]_vars PROVE CapInv'
    OBVIOUS
  <2> DEFINE Steady == /\ Known' = Known /\ createdAt' = createdAt
                       /\ \A v \in Workers : InFlight(v)' \subseteq InFlight(v)
  <2>0. Steady => CapInv'
    BY CapKept
  <2> HIDE DEF Steady
  <2>1. CASE UNCHANGED vars
    <3>1. Steady
      BY <2>1 DEF vars, Steady, Known, InFlight
    <3> QED
      BY <3>1, <2>0
  <2> SUFFICES ASSUME FaultyNext PROVE CapInv'
    BY <2>1
  <2>2. PICK w \in Workers :
          \/ Start(w) \/ EnterLoop(w) \/ Tick(w) \/ Cleanup(w)
          \/ Stop(w) \/ LoopCancelled(w) \/ Exit(w) \/ Crash(w)
          \/ StartBlind(w)
          \/ \E j \in Jobs :
               \/ Create(w, j) \/ Cancel(w, j) \/ RecoverOrphan(w, j)
               \/ TaskStep(w, j) \/ Abort(w, j) \/ DbFault(w, j)
    BY DEF Next, FaultyNext
  <2>e. ASSUME NEW j \in Jobs, EndTask(w, j)
        PROVE  \A v \in Workers : InFlight(v)' \subseteq InFlight(v)
    BY <2>e DEF EndTask, InFlight, TypeOK
  <2>u. ASSUME task' = task PROVE \A v \in Workers : InFlight(v)' \subseteq InFlight(v)
    BY <2>u DEF InFlight
  <2>k. ASSUME status' = status PROVE Known' = Known
    BY <2>k DEF Known
  <2>3. ASSUME Start(w) \/ StartBlind(w) \/ Cleanup(w) PROVE Steady
    <3>1. (\E gone \in SUBSET Jobs : Purge(gone)) /\ task' = task /\ createdAt' = createdAt
      BY <2>3 DEF Start, StartBlind, Cleanup
    <3> QED
      BY <3>1, <2>u, KnownKept DEF Steady
  <2>4. ASSUME EnterLoop(w) \/ Stop(w) \/ LoopCancelled(w) \/ Exit(w) PROVE Steady
    <3>1. UNCHANGED <<status, createdAt, task>>
      BY <2>4 DEF EnterLoop, Stop, LoopCancelled, Exit
    <3> QED
      BY <3>1, <2>u, <2>k DEF Steady
  <2>5. ASSUME Crash(w) PROVE Steady
    <3>1. UNCHANGED <<status, createdAt>>
      BY <2>5 DEF Crash
    <3>2. \A v \in Workers : InFlight(v)' \subseteq InFlight(v)
      BY <2>5 DEF Crash, InFlight, TypeOK
    <3> QED
      BY <3>1, <3>2, <2>k DEF Steady
  <2>6. ASSUME NEW j \in Jobs, RecoverOrphan(w, j) PROVE Steady
    <3>1. MarkTerminal(j, "failed")
      BY <2>6 DEF RecoverOrphan
    <3>2. Known' = Known
      BY <3>1, KnownKept DEF Terminal
    <3>3. UNCHANGED <<createdAt, task>>
      BY <2>6 DEF RecoverOrphan
    <3> QED
      BY <3>2, <3>3, <2>u DEF Steady
  <2>7. ASSUME NEW j \in Jobs, Cancel(w, j) PROVE Steady
    <3>1. UNCHANGED <<createdAt, task>>
      BY <2>7 DEF Cancel
    <3>2. Known' = Known
      BY <2>7 DEF Cancel, Known, TypeOK
    <3> QED
      BY <3>1, <3>2, <2>u DEF Steady
  <2>8. ASSUME NEW j \in Jobs, Abort(w, j) PROVE Steady
    <3>1. MarkTerminal(j, "cancelled") /\ EndTask(w, j) /\ createdAt' = createdAt
      BY <2>8 DEF Abort
    <3> QED
      BY <3>1, <2>e, KnownKept DEF Steady, Terminal
  <2>9. ASSUME NEW j \in Jobs, TaskStep(w, j) PROVE Steady
    <3>1. CASE ClaimWon(w, j)
      <4>1. Known' = Known
        BY <3>1 DEF ClaimWon, Known, TypeOK
      <4>2. \A v \in Workers : InFlight(v)' \subseteq InFlight(v)
        BY <3>1 DEF ClaimWon, FirstStep, InFlight, TypeOK
      <4> QED
        BY <3>1, <4>1, <4>2 DEF ClaimWon, Steady
    <3>2. CASE ClaimLost(w, j)
      <4>1. UNCHANGED <<status, createdAt>> /\ EndTask(w, j)
        BY <3>2 DEF ClaimLost
      <4> QED
        BY <4>1, <2>e, <2>k DEF Steady
    <3>3. ASSUME NEW out \in Terminal, Finish(w, j, out) PROVE Steady
      <4>1. MarkTerminal(j, out) /\ EndTask(w, j) /\ createdAt' = createdAt
        BY <3>3 DEF Finish
      <4> QED
        BY <4>1, <2>e, KnownKept DEF Steady
    <3> QED
      BY <2>9, <3>1, <3>2, <3>3 DEF TaskStep
  <2>12. ASSUME NEW j \in Jobs, DbFault(w, j) PROVE Steady
    <3>1. CASE RecoverFails(w, j)
      BY <3>1, <2>u, <2>k DEF RecoverFails, Steady
    <3>2. CASE ClaimRaises(w, j)
      <4>1. \A v \in Workers : InFlight(v)' \subseteq InFlight(v)
        BY <3>2 DEF ClaimRaises, FirstStep, InFlight, TypeOK
      <4> QED
        BY <3>2, <4>1, <2>k DEF ClaimRaises, Steady
    <3>3. CASE FailClaim(w, j)
      <4>1. (MarkTerminal(j, "failed") \/ UNCHANGED status) /\ EndTask(w, j) /\ createdAt' = createdAt
        BY <3>3 DEF FailClaim
      <4>2. Known' = Known
        BY <4>1, <2>k, KnownKept DEF Terminal
      <4> QED
        BY <4>1, <4>2, <2>e DEF Steady
    <3>4. CASE FinishLost(w, j)
      <4>1. UNCHANGED <<status, createdAt>> /\ EndTask(w, j)
        BY <3>4 DEF FinishLost
      <4> QED
        BY <4>1, <2>e, <2>k DEF Steady
    <3> QED
      BY <2>12, <3>1, <3>2, <3>3, <3>4 DEF DbFault
  <2>10. CASE Tick(w)
    <3>1. /\ UNCHANGED <<status, createdAt>>
          /\ task' = [task EXCEPT ![w] =
                        [j \in Jobs |-> IF j \in Picked(w) THEN "spawned" ELSE task[w][j]]]
      BY <2>10 DEF Tick
    <3>2. \A v \in Workers \ {w} : InFlight(v)' = InFlight(v)
      BY <3>1 DEF InFlight, TypeOK
    <3>3. InFlight(w)' = InFlight(w) \cup Picked(w)
      BY <3>1 DEF InFlight, TypeOK, Picked, Queued
    <3>4. Cardinality(InFlight(w)) <= MaxConcurrent /\ RanksInOrder
      BY DEF CapInv, InFlightBounded
    <3>5. /\ IsFiniteSet(Picked(w)) /\ IsFiniteSet(InFlight(w))
          /\ Cardinality(Picked(w)) + Cardinality(InFlight(w)) <= MaxConcurrent
      BY <3>4, PickedFits
    <3>6. /\ IsFiniteSet(InFlight(w) \cap Picked(w))
          /\ Cardinality(InFlight(w) \cup Picked(w)) =
               Cardinality(InFlight(w)) + Cardinality(Picked(w)) - Cardinality(InFlight(w) \cap Picked(w))
      BY <3>5, FS_Union, FS_Intersection
    <3>7. /\ Cardinality(InFlight(w) \cap Picked(w)) \in Nat
          /\ Cardinality(InFlight(w)) \in Nat /\ Cardinality(Picked(w)) \in Nat
      BY <3>5, <3>6, FS_CardinalityType
    <3>8. Cardinality(InFlight(w)') <= MaxConcurrent
      BY <3>3, <3>5, <3>6, <3>7, MaxConcurrentPositive
    <3>9. InFlightBounded'
      BY <3>2, <3>8 DEF CapInv, InFlightBounded
    <3>10. RanksInOrder'
      BY <3>1, <3>4 DEF RanksInOrder, Known
    <3> QED
      BY <3>9, <3>10 DEF CapInv
  <2>11. ASSUME NEW j \in Jobs, Create(w, j) PROVE CapInv'
    <3>1. /\ task' = task /\ j \notin Known /\ Known' = Known \cup {j}
          /\ createdAt' = [createdAt EXCEPT ![j] = 1 + Cardinality(Known)]
      BY <2>11 DEF Create, Known, TypeOK
    <3>2. IsFiniteSet(Known)
      BY JobsFinite, FS_Subset DEF Known
    <3>3. Cardinality(Known) \in Nat /\ Cardinality(Known \cup {j}) = Cardinality(Known) + 1
      BY <3>1, <3>2, FS_CardinalityType, FS_AddElement
    <3>4. /\ createdAt'[j] = 1 + Cardinality(Known) /\ createdAt \in [Jobs -> Nat]
          /\ \A k \in Known : k \in Jobs /\ createdAt'[k] = createdAt[k]
      BY <3>1 DEF TypeOK, Known
    <3>5. Cardinality(Known)' = Cardinality(Known) + 1
      BY <3>1, <3>3
    <3>6. /\ \A i \in Known : createdAt[i] <= Cardinality(Known)
          /\ \A i, k \in Known : createdAt[i] = createdAt[k] => i = k
      BY DEF CapInv, RanksInOrder
    <3> HIDE DEF Known
    <3>7. ASSUME NEW i \in Known' PROVE createdAt'[i] <= Cardinality(Known)'
      BY <3>1, <3>3, <3>4, <3>5, <3>6
    <3>8. ASSUME NEW i \in Known', NEW k \in Known', createdAt'[i] = createdAt'[k] PROVE i = k
      BY <3>1, <3>3, <3>4, <3>6, <3>8
    <3>9. RanksInOrder'
      BY <3>7, <3>8 DEF RanksInOrder
    <3>10. InFlightBounded'
      BY <3>1 DEF CapInv, InFlightBounded, InFlight
    <3> QED
      BY <3>9, <3>10 DEF CapInv
  <2> QED
    BY <2>0, <2>2, <2>3, <2>4, <2>5, <2>6, <2>7, <2>8, <2>9, <2>10, <2>11, <2>12
<1>3. CapInv => InFlightBounded
  BY DEF CapInv
<1> QED
  BY <1>1, <1>2, <1>3, TypeCorrect, PTL DEF FaultySpec

----------------------------------------------------------------------------
(* The verdict on a job: what is left of its program tells what was counted and
   whether it has had the event loop to itself.                                *)

Steps == {"params", "known", "available", "gate", "work", "progress", "try", "quiet", "select", "list",
          "batch", "prepare", "persist"}
JobRec ==
  [status : {"none", "QUEUED", "RUNNING", "SUCCEEDED", "FAILED", "CANCELLED"},
   kind : J!Kinds \cup {"none"}, args : {"right", "empty", "useless"}, todo : Seq(Steps),
   cancel : BOOLEAN, away : BOOLEAN, chosen : Nat, begun : Nat, successes : Nat, skipped : Nat,
   failures : Nat]

Untouched(r) ==
  r.chosen = 0 /\ r.begun = 0 /\ r.successes = 0 /\ r.skipped = 0 /\ r.failures = 0
Counted(r) == J!Treated(r) <= r.begun /\ r.begun <= r.chosen

\* What is left is the end of the program.
Suffix(r) ==
  LET p == J!Program[r.kind] IN
  /\ Len(r.todo) \in 1 .. Len(p)
  /\ \A i \in 1 .. Len(r.todo) : r.todo[i] = p[Len(p) - Len(r.todo) + i]

\* A job that has not awaited anything has the loop (here), and no cancel.
Alone(r, here) == here /\ ~r.cancel

Under(r, here) ==
  LET k == r.kind
      n == Len(r.todo)
  IN /\ k = "rebuild_search" => Untouched(r) /\ Alone(r, here)
     /\ k = "parse_tdocs" /\ n >= 3 => Untouched(r) /\ Alone(r, here)
     /\ k = "parse_tdocs" /\ n < 3 => r.chosen >= 1 /\ Counted(r)
     /\ k = "parse_tdoc_url" /\ n >= 3 => Untouched(r)
     /\ k = "parse_tdoc_url" /\ n = 2 => Counted(r)
     /\ k = "parse_spec_docs" /\ n >= 4 => Untouched(r)
     /\ k = "parse_spec_docs" /\ n \in {2, 3} => r.chosen = 1 /\ J!Treated(r) = 0
     /\ k \in {"parse_tdoc_url", "parse_spec_docs"} /\ n = 1 => J!Treated(r) = r.chosen
     /\ k \notin {"rebuild_search", "parse_tdocs", "parse_tdoc_url", "parse_spec_docs"} => Untouched(r)

Honest(r) ==
  /\ ~r.cancel /\ J!Treated(r) = r.chosen
  /\ r.kind \in {"parse_tdocs", "parse_spec_docs"} /\ r.failures > 0 => r.successes + r.skipped > 0

JobOk(r, here) ==
  /\ r.status = "QUEUED" => r.kind \in J!Kinds /\ ~r.cancel /\ Untouched(r)
  /\ r.status = "RUNNING" => r.kind \in J!Kinds /\ Suffix(r) /\ Under(r, here)
  /\ r.status = "SUCCEEDED" => Honest(r)

JobsInv ==
  /\ job \in [Handled -> JobRec]
  /\ \A j \in Handled : JobOk(job[j], loop = j)

\* Every kind of job has a program of known steps.
LEMMA ProgramsTyped ==
  ASSUME NEW k \in J!Kinds
  PROVE  J!Program[k] \in Seq(Steps) /\ Len(J!Program[k]) \in Nat \ {0}
<1>1. k \in {"sync_meetings", "sync_wis", "sync_tdocs", "sync_tdocs_all", "sync_specs", "sync_testcases",
             "parse_tdocs", "parse_tdoc_url", "parse_spec_docs", "rebuild_search", "index_tdocs",
             "index_spec_docs", "cache_purge"}
  BY DEF J!Kinds, J!Program
<1>2. J!Program[k] \in
       {<<"params", "known", "gate", "work", "gate">>, <<"gate", "params", "work", "gate">>,
        <<"gate", "work", "gate">>, <<"available", "gate", "progress", "gate">>,
        <<"params", "work", "gate">>, <<"params", "select", "gate", "batch">>,
        <<"params", "quiet", "gate", "list", "batch", "gate">>,
        <<"params", "available", "gate", "prepare", "gate", "persist", "gate">>, <<"available", "try">>}
  BY <1>1 DEF J!Program, J!sync_meetings, J!sync_wis, J!sync_tdocs, J!sync_tdocs_all, J!sync_specs,
       J!sync_testcases, J!parse_tdocs, J!parse_tdoc_url, J!parse_spec_docs, J!rebuild_search,
       J!run_index, J!cache_purge
<1> DEFINE Fine(p) == p \in Seq(Steps) /\ Len(p) \in Nat \ {0}
<1>a0. Fine(<<"params", "known", "gate", "work", "gate">>)
  BY DEF Steps
<1>a1. Fine(<<"gate", "params", "work", "gate">>)
  BY DEF Steps
<1>a2. Fine(<<"gate", "work", "gate">>)
  BY DEF Steps
<1>a3. Fine(<<"available", "gate", "progress", "gate">>)
  BY DEF Steps
<1>a4. Fine(<<"params", "work", "gate">>)
  BY DEF Steps
<1>a5. Fine(<<"params", "select", "gate", "batch">>)
  BY DEF Steps
<1>a6. Fine(<<"params", "quiet", "gate", "list", "batch", "gate">>)
  BY DEF Steps
<1>a7. Fine(<<"params", "available", "gate", "prepare", "gate", "persist", "gate">>)
  BY DEF Steps
<1>a8. Fine(<<"available", "try">>)
  BY DEF Steps
<1> HIDE DEF Fine
<1>4. Fine(J!Program[k])
  BY <1>2, <1>a0, <1>a1, <1>a2, <1>a3, <1>a4, <1>a5, <1>a6, <1>a7, <1>a8
<1> QED
  BY <1>4 DEF Fine

\* Where the steps are that choose items, treat them or end a program: of kind k, with n
\* steps left, the next being s.
At(k, n, s) ==
  /\ s = "select" <=> k = "parse_tdocs" /\ n = 3
  /\ s = "list" <=> k = "parse_tdoc_url" /\ n = 3
  /\ s = "batch" <=> (k = "parse_tdocs" /\ n = 1) \/ (k = "parse_tdoc_url" /\ n = 2)
  /\ s = "prepare" <=> k = "parse_spec_docs" /\ n = 4
  /\ s = "persist" <=> k = "parse_spec_docs" /\ n = 2
  /\ s = "try" <=> k = "rebuild_search" /\ n = 1
  /\ n = 1 => s \in {"gate", "batch", "try"}
  /\ k = "rebuild_search" => s \in {"available", "try"}
  /\ k = "parse_tdocs" /\ n >= 3 => s \in {"params", "select"}
  /\ k = "parse_tdocs" => n \in 1..4
  /\ k = "parse_tdoc_url" => n \in 1..6
  /\ k = "parse_spec_docs" => n \in 1..7

\* The number of steps that are left and the step at hand fit together.
LEMMA Places ==
  ASSUME NEW r \in JobRec, r.kind \in J!Kinds, Suffix(r)
  PROVE  At(r.kind, Len(r.todo), Head(r.todo)) /\ Len(r.todo) \in Nat \ {0}
<1> DEFINE p == J!Program[r.kind]
           n == Len(r.todo)
           s == Head(r.todo)
<1>1. s = p[Len(p) - n + 1] /\ n \in 1 .. Len(p) /\ Len(p) \in Nat
  <2>1. r.todo \in Seq(Steps) /\ n \in 1 .. Len(p) /\ Len(p) \in Nat
    BY ProgramsTyped DEF Suffix, JobRec
  <2>2. 1 \in 1 .. n /\ s = r.todo[1]
    BY <2>1
  <2> QED
    BY <2>1, <2>2 DEF Suffix
<1> HIDE DEF n, s, p
<1>2. CASE r.kind = "parse_tdocs"
  <2>1. p = <<"params", "select", "gate", "batch">>
    BY <1>2 DEF J!Program, J!parse_tdocs, p
  <2>2. Len(p) = 4 /\ p[1] = "params" /\ p[2] = "select" /\ p[3] = "gate" /\ p[4] = "batch"
    BY <2>1
  <2>3. n \in 1 .. 4 /\ s = p[5 - n]
    BY <1>1, <2>2
  <2>4. At("parse_tdocs", n, s)
    BY <2>2, <2>3 DEF At
  <2> QED
    BY <1>2, <2>3, <2>4 DEF n, s
<1>3. CASE r.kind = "parse_tdoc_url"
  <2>1. p = <<"params", "quiet", "gate", "list", "batch", "gate">>
    BY <1>3 DEF J!Program, J!parse_tdoc_url, p
  <2>2. /\ Len(p) = 6 /\ p[1] = "params" /\ p[2] = "quiet" /\ p[3] = "gate" /\ p[4] = "list"
        /\ p[5] = "batch" /\ p[6] = "gate"
    BY <2>1
  <2>3. n \in 1 .. 6 /\ s = p[7 - n]
    BY <1>1, <2>2
  <2>4. At("parse_tdoc_url", n, s)
    BY <2>2, <2>3 DEF At
  <2> QED
    BY <1>3, <2>3, <2>4 DEF n, s
<1>4. CASE r.kind = "parse_spec_docs"
  <2>1. p = <<"params", "available", "gate", "prepare", "gate", "persist", "gate">>
    BY <1>4 DEF J!Program, J!parse_spec_docs, p
  <2>2. /\ Len(p) = 7 /\ p[1] = "params" /\ p[2] = "available" /\ p[3] = "gate" /\ p[4] = "prepare"
        /\ p[5] = "gate" /\ p[6] = "persist" /\ p[7] = "gate"
    BY <2>1
  <2>3. n \in 1 .. 7 /\ s = p[8 - n]
    BY <1>1, <2>2
  <2>4. At("parse_spec_docs", n, s)
    BY <2>2, <2>3 DEF At
  <2> QED
    BY <1>4, <2>3, <2>4 DEF n, s
<1>5. CASE r.kind = "rebuild_search"
  <2>1. p = <<"available", "try">>
    BY <1>5 DEF J!Program, J!rebuild_search, p
  <2>2. Len(p) = 2 /\ p[1] = "available" /\ p[2] = "try"
    BY <2>1
  <2>3. n \in 1 .. 2 /\ s = p[3 - n]
    BY <1>1, <2>2
  <2>4. At("rebuild_search", n, s)
    BY <2>2, <2>3 DEF At
  <2> QED
    BY <1>5, <2>3, <2>4 DEF n, s
<1>6. CASE r.kind \notin {"rebuild_search", "parse_tdocs", "parse_tdoc_url", "parse_spec_docs"}
  <2>1. p \in {<<"params", "known", "gate", "work", "gate">>, <<"gate", "params", "work", "gate">>,
               <<"gate", "work", "gate">>, <<"available", "gate", "progress", "gate">>,
               <<"params", "work", "gate">>}
    BY <1>6 DEF J!Kinds, J!Program, J!sync_meetings, J!sync_wis, J!sync_tdocs, J!sync_tdocs_all,
       J!sync_specs, J!sync_testcases, J!run_index, J!cache_purge, p
  <2>2. /\ p[Len(p)] = "gate"
        /\ \A i \in 1 .. Len(p) : p[i] \in {"params", "known", "gate", "work", "available", "progress"}
    <3> DEFINE Fine(q) == /\ q[Len(q)] = "gate"
                          /\ \A i \in 1 .. Len(q) : q[i] \in {"params", "known", "gate", "work", "available", "progress"}
    <3>1. Fine(<<"params", "known", "gate", "work", "gate">>)
      OBVIOUS
    <3>2. Fine(<<"gate", "params", "work", "gate">>)
      OBVIOUS
    <3>3. Fine(<<"gate", "work", "gate">>) /\ Fine(<<"params", "work", "gate">>)
      OBVIOUS
    <3>4. Fine(<<"available", "gate", "progress", "gate">>)
      OBVIOUS
    <3> HIDE DEF Fine
    <3>5. Fine(p)
      BY <2>1, <3>1, <3>2, <3>3, <3>4
    <3> QED
      BY <3>5 DEF Fine
  <2>3. /\ n = 1 => s = "gate"
        /\ s \in {"params", "known", "gate", "work", "available", "progress"}
    BY <1>1, <2>2
  <2>4. At(r.kind, n, s)
    BY <1>6, <2>3 DEF At
  <2> QED
    BY <1>1, <2>4 DEF n, s
<1> QED
  BY <1>2, <1>3, <1>4, <1>5, <1>6

\* A step of one job is no concern of the others.
LEMMA OneJobSteps ==
  ASSUME JobsInv, NEW j \in Handled, NEW q \in JobRec, job' = [job EXCEPT ![j] = q],
         loop \in {0, j}, loop' \in {0, j}, JobOk(q, loop' = j)
  PROVE  JobsInv'
<1>1. job' \in [Handled -> JobRec] /\ job'[j] = q
  BY DEF JobsInv
<1>2. ASSUME NEW i \in Handled, i # j PROVE JobOk(job'[i], loop' = i)
  <2>1. job'[i] = job[i] /\ (loop' = i <=> FALSE) /\ (loop = i <=> FALSE)
    BY <1>2, HandledIsNoZero DEF JobsInv
  <2>2. JobOk(job[i], loop = i)
    BY DEF JobsInv
  <2> QED
    BY <2>1, <2>2
<1> QED
  BY <1>1, <1>2 DEF JobsInv

\* A job may fail, or be cancelled, at any time.
LEMMA JobFails ==
  ASSUME JobsInv, NEW j \in Handled, loop \in {0, j}, NEW s \in {"FAILED", "CANCELLED"}, J!End(j, s)
  PROVE  JobsInv'
<1> DEFINE q == [job[j] EXCEPT !.status = s, !.todo = <<>>, !.away = FALSE]
<1>1. job' = [job EXCEPT ![j] = q] /\ loop' = 0
  BY DEF J!End, J!None, JobsInv
<1>2. <<>> \in Seq(Steps) /\ job[j] \in JobRec
  BY EmptySeq DEF JobsInv
<1>3. q \in JobRec /\ q.status = s
  BY <1>2 DEF JobRec
<1>4. JobOk(q, loop' = j)
  BY <1>3 DEF JobOk
<1> QED
  BY <1>1, <1>3, <1>4, OneJobSteps

\* What is left after a step is an end of the program, too.
LEMMA TailIsSuffix ==
  ASSUME NEW r \in JobRec, r.kind \in J!Kinds, Suffix(r), Len(r.todo) > 1,
         NEW q \in JobRec, q.todo = Tail(r.todo), q.kind = r.kind
  PROVE  Suffix(q) /\ Len(q.todo) = Len(r.todo) - 1
<1> DEFINE p == J!Program[r.kind]
<1>1. /\ Len(p) \in Nat /\ Len(r.todo) \in 1 .. Len(p) /\ r.todo \in Seq(Steps)
      /\ \A i \in 1 .. Len(r.todo) : r.todo[i] = p[Len(p) - Len(r.todo) + i]
  BY ProgramsTyped DEF Suffix, JobRec
<1> HIDE DEF p
<1>2. r.todo # <<>>
  BY <1>1
<1>3. /\ Len(q.todo) = Len(r.todo) - 1
      /\ \A i \in 1 .. Len(q.todo) : q.todo[i] = r.todo[i + 1]
  BY <1>1, <1>2, HeadTailProperties
<1>4. ASSUME NEW i \in 1 .. Len(q.todo) PROVE q.todo[i] = p[Len(p) - Len(q.todo) + i]
  <2>1. i + 1 \in 1 .. Len(r.todo) /\ i \in Nat
    BY <1>1, <1>3
  <2>2. q.todo[i] = r.todo[i + 1]
    BY <1>3
  <2>3. r.todo[i + 1] = p[Len(p) - Len(r.todo) + (i + 1)]
    BY <1>1, <2>1
  <2>4. Len(p) - Len(r.todo) + (i + 1) = Len(p) - (Len(r.todo) - 1) + i
    BY <1>1, <2>1
  <2> QED
    BY <1>3, <2>2, <2>3, <2>4
<1>5. Len(q.todo) \in 1 .. Len(p)
  BY <1>1, <1>3
<1> QED
  BY <1>3, <1>4, <1>5 DEF Suffix, p

\* Whatever the next step finds, it finds the job in order.
Onward(r) ==
  \A q \in JobRec :
    (\A f \in (DOMAIN r) \ {"todo", "away"} : q[f] = r[f]) /\ Len(q.todo) = Len(r.todo) - 1 => Under(q, TRUE)

\* The numbers of steps that the halves of a document compare.
LEMMA SmallNumbers ==
  \A n : /\ n = 1 => n < 3 /\ ~ (n > 1)
         /\ n = 2 => n >= 2 /\ n > 1 /\ n \in Nat
         /\ n = 4 => n >= 2 /\ n >= 4 /\ n \in Nat
OBVIOUS

\* A job that is not at its last step has another.
LEMMA OneOrMore ==
  ASSUME NEW n \in Nat \ {0}
  PROVE  (n = 1 \/ n > 1) /\ (n > 1 => ~ (n = 1))
OBVIOUS

\* A job that goes on keeps JobsInv, if what it has counted fits what is left; at its
\* last step it must have treated what it chose.
LEMMA JobGoesOn ==
  ASSUME JobsInv, NEW j \in Handled, loop \in {0, j},
         NEW r \in JobRec, r.status = "RUNNING", r.kind \in J!Kinds, Suffix(r), J!GoOn(j, r),
         Len(r.todo) = 1 => ~r.cancel /\ J!Treated(r) = r.chosen, Len(r.todo) > 1 => Onward(r)
  PROVE  JobsInv'
<1>0. r.todo \in Seq(Steps) /\ Len(r.todo) \in Nat \ {0} /\ (Len(r.todo) = 1 \/ Len(r.todo) > 1)
  <2>1. Len(r.todo) \in Nat \ {0}
    BY Places
  <2>2. r.todo \in Seq(Steps)
    BY DEF JobRec
  <2> QED
    BY <2>1, <2>2, OneOrMore
<1>1. CASE Len(r.todo) = 1
  <2> DEFINE q == [r EXCEPT !.status = J!Verdict(r), !.todo = <<>>, !.away = FALSE]
  <2>1. job' = [job EXCEPT ![j] = q] /\ loop' = 0
    BY <1>1 DEF J!GoOn, J!None
  <2>2. J!Verdict(r) \in {"SUCCEEDED", "FAILED"}
    BY DEF J!Verdict
  <2>3. <<>> \in Seq(Steps)
    BY EmptySeq
  <2>5. q \in JobRec
    BY <2>2, <2>3 DEF JobRec
  <2>4. J!Verdict(r) = "SUCCEEDED" => Honest(q)
    BY <1>1 DEF Honest, J!Treated, J!Verdict, JobRec
  <2> QED
    BY <2>1, <2>2, <2>5, <2>4, OneJobSteps DEF JobOk, JobRec
<1>2. CASE Len(r.todo) > 1
  <2> DEFINE q == [r EXCEPT !.todo = Tail(@), !.away = FALSE]
  <2>1. job' = [job EXCEPT ![j] = q] /\ loop' = j
    <3>1. ~ (Len(r.todo) = 1)
      BY <1>0, <1>2, OneOrMore
    <3> QED
      BY <3>1 DEF J!GoOn
  <2>2. Tail(r.todo) \in Seq(Steps)
    BY <1>0, <1>2, HeadTailProperties
  <2>3. q \in JobRec /\ (\A f \in (DOMAIN r) \ {"todo", "away"} : q[f] = r[f]) /\ q.todo = Tail(r.todo)
        /\ q.status = "RUNNING" /\ q.kind = r.kind
    BY <2>2 DEF JobRec
  <2> HIDE DEF q
  <2>4. Suffix(q) /\ Len(q.todo) = Len(r.todo) - 1
    BY <1>2, <2>3, TailIsSuffix
  <2>5. Under(q, TRUE)
    BY <1>2, <2>3, <2>4 DEF Onward
  <2> QED
    BY <2>1, <2>3, <2>4, <2>5, OneJobSteps DEF JobOk
<1> QED
  BY <1>0, <1>1, <1>2

\* A job whose handler runs.
Runs(j) ==
  /\ j \in Handled /\ job[j] \in JobRec /\ job[j].status = "RUNNING" /\ job[j].kind \in J!Kinds
  /\ Suffix(job[j]) /\ Under(job[j], loop = j)

\* A step that is none of the items keeps what is known of them.
\* How many steps are left before one that is none of the items.
LEMMA PlacesElsewhere ==
  ASSUME NEW k, NEW n \in Nat, n > 1, NEW s, At(k, n, s),
         s \notin {"select", "list", "batch", "prepare", "persist"}
  PROVE  /\ k = "parse_tdocs" => n \in {2, 4}
         /\ k = "parse_tdoc_url" => n \in {4, 5, 6}
         /\ k = "parse_spec_docs" => n \in {3, 5, 6, 7}
BY DEF At

\* A step that counts nothing leads on from what was counted.
LEMMA Passes ==
  ASSUME NEW j, Runs(j), J!Step(j) \notin {"select", "list", "batch", "prepare", "persist"},
         Len(job[j].todo) > 1
  PROVE  Onward(job[j])
<1> DEFINE r == job[j]
<1>0. SUFFICES ASSUME NEW q \in JobRec, \A f \in (DOMAIN r) \ {"todo", "away"} : q[f] = r[f],
                    Len(q.todo) = Len(r.todo) - 1
             PROVE  Under(q, TRUE)
  BY DEF Onward
<1>1. At(r.kind, Len(r.todo), Head(r.todo)) /\ Len(r.todo) \in Nat \ {0}
  BY Places DEF Runs
<1>2. /\ q.kind = r.kind /\ q.cancel = r.cancel /\ q.chosen = r.chosen /\ q.begun = r.begun
      /\ q.successes = r.successes /\ q.skipped = r.skipped /\ q.failures = r.failures
  BY <1>0 DEF Runs, JobRec
<1>3. (Untouched(r) => Untouched(q)) /\ J!Treated(q) = J!Treated(r) /\ (Counted(r) => Counted(q))
      /\ (~r.cancel => ~q.cancel)
  BY <1>2 DEF Untouched, J!Treated, Counted, Alone
<1> DEFINE n == Len(r.todo)
<1>4. At(r.kind, n, J!Step(j)) /\ Under(r, loop = j) /\ n \in Nat \ {0} /\ Len(q.todo) = n - 1
  BY <1>0, <1>1 DEF J!Step, Runs
<1> HIDE DEF n
<1>u. /\ r.kind = "parse_tdocs" => n \in {2, 4}
      /\ r.kind = "parse_tdoc_url" => n \in {4, 5, 6}
      /\ r.kind = "parse_spec_docs" => n \in {3, 5, 6, 7}
  <2>1. n > 1
    BY DEF n
  <2> QED
    BY <1>4, <2>1, PlacesElsewhere
<1>n. n = Len(r.todo)
  BY DEF n
<1>5. CASE q.kind = "rebuild_search" \/
           q.kind \notin {"rebuild_search", "parse_tdocs", "parse_tdoc_url", "parse_spec_docs"}
  BY <1>2, <1>3, <1>4, <1>5 DEF Under, Alone
<1>6. CASE q.kind = "parse_tdocs"
  <2>1. n \in {2, 4}
    BY <1>2, <1>6, <1>u
  <2>2. CASE n = 2
    BY <1>2, <1>3, <1>4, <1>6, <1>n, <2>2 DEF Under
  <2>4. CASE n = 4
    BY <1>2, <1>3, <1>4, <1>6, <1>n, <2>4 DEF Under, Alone
  <2> QED
    BY <2>1, <2>2, <2>4
<1>7. CASE q.kind = "parse_tdoc_url"
  <2>1. n \in {4, 5, 6}
    BY <1>2, <1>7, <1>u
  <2>4. CASE n = 4
    BY <1>2, <1>3, <1>4, <1>7, <1>n, <2>4 DEF Under
  <2>5. CASE n = 5
    BY <1>2, <1>3, <1>4, <1>7, <1>n, <2>5 DEF Under
  <2>6. CASE n = 6
    BY <1>2, <1>3, <1>4, <1>7, <1>n, <2>6 DEF Under
  <2> QED
    BY <2>1, <2>4, <2>5, <2>6
<1>8. CASE q.kind = "parse_spec_docs"
  <2>1. n \in {3, 5, 6, 7}
    BY <1>2, <1>8, <1>u
  <2>3. CASE n = 3
    BY <1>2, <1>3, <1>4, <1>8, <1>n, <2>3 DEF Under
  <2>5. CASE n = 5
    BY <1>2, <1>3, <1>4, <1>8, <1>n, <2>5 DEF Under
  <2>6. CASE n = 6
    BY <1>2, <1>3, <1>4, <1>8, <1>n, <2>6 DEF Under
  <2>7. CASE n = 7
    BY <1>2, <1>3, <1>4, <1>8, <1>n, <2>7 DEF Under
  <2> QED
    BY <2>1, <2>3, <2>5, <2>6, <2>7
<1> QED
  BY <1>5, <1>6, <1>7, <1>8

\* A job at such a step goes on with it, unless the program ends there.
LEMMA PassesOn ==
  ASSUME JobsInv, NEW j, Runs(j), loop \in {0, j}, J!GoOn(j, job[j]),
         J!Step(j) \notin {"select", "list", "batch", "prepare", "persist"},
         J!Step(j) \in {"gate", "try"} => ~job[j].cancel
  PROVE  JobsInv'
<1> DEFINE r == job[j]
           n == Len(r.todo)
<1>1. At(r.kind, n, J!Step(j)) /\ n \in Nat \ {0}
  BY Places DEF Runs, J!Step
<1>2. r \in JobRec /\ r.status = "RUNNING" /\ r.kind \in J!Kinds /\ Suffix(r) /\ j \in Handled
  BY DEF Runs
<1>3. n > 1 => Onward(r)
  BY Passes
<1>4. ASSUME n = 1 PROVE ~r.cancel /\ J!Treated(r) = r.chosen
  <2>1. ~r.cancel /\ r.kind # "parse_tdocs"
    BY <1>1, <1>4 DEF At
  <2>2. Under(r, loop = j) /\ n = 1
    BY <1>4 DEF Runs
  <2>3. Untouched(r) => J!Treated(r) = r.chosen
    BY DEF Untouched, J!Treated
  <2> QED
    BY <2>1, <2>2, <2>3 DEF Under
<1> QED
  BY <1>2, <1>3, <1>4, JobGoesOn

\* No job is there at first.
LEMMA JobsBegin == J!Init => JobsInv
<1> SUFFICES ASSUME J!Init PROVE JobsInv
  OBVIOUS
<1>1. PICK q \in SUBSET Handled :
        job = [j \in Handled |-> IF j \in q
                 THEN [J!NoJob EXCEPT !.status = "QUEUED", !.kind = "rebuild_search"] ELSE J!NoJob]
  BY DEF J!Init
<1>2. <<>> \in Seq(Steps) /\ "rebuild_search" \in J!Kinds
  BY EmptySeq DEF J!Kinds, J!Program
<1>3. J!NoJob \in JobRec /\ [J!NoJob EXCEPT !.status = "QUEUED", !.kind = "rebuild_search"] \in JobRec
  BY <1>2 DEF J!NoJob, JobRec
<1>4. ASSUME NEW j \in Handled PROVE JobOk(job[j], loop = j) /\ job[j] \in JobRec
  BY <1>1, <1>2, <1>3 DEF J!NoJob, JobOk, Untouched
<1> QED
  BY <1>1, <1>4 DEF JobsInv

\* A job that is submitted has counted nothing.
LEMMA SubmitKept ==
  ASSUME JobsInv, NEW j \in Handled, NEW kind \in J!Kinds, NEW args \in {"right", "empty", "useless"},
         J!Submit(j, kind, args)
  PROVE  JobsInv'
<1> DEFINE q == [J!NoJob EXCEPT !.status = "QUEUED", !.kind = kind, !.args = args]
<1>1. job' = [job EXCEPT ![j] = q] /\ loop = 0 /\ loop' = 0
  BY DEF J!Submit, J!None
<1>2. <<>> \in Seq(Steps)
  BY EmptySeq
<1>3. q \in JobRec /\ JobOk(q, loop' = j)
  BY <1>2 DEF J!NoJob, JobRec, JobOk, Untouched
<1> QED
  BY <1>1, <1>3, OneJobSteps

\* A cancel ends a queued job and marks a running one, while no job has the event loop.
LEMMA CancelKept ==
  ASSUME JobsInv, NEW j \in Handled, J!Cancel(j)
  PROVE  JobsInv'
<1> DEFINE r == job[j]
<1>1. r \in JobRec /\ JobOk(r, loop = j) /\ loop = 0 /\ loop' = 0 /\ j # 0
  BY HandledIsNoZero DEF JobsInv, J!Cancel, J!None
<1>2. CASE r.status = "QUEUED" /\ job' = [job EXCEPT ![j].status = "CANCELLED"]
  <2> DEFINE q == [r EXCEPT !.status = "CANCELLED"]
  <2>1. job' = [job EXCEPT ![j] = q] /\ q \in JobRec /\ JobOk(q, loop' = j)
    BY <1>1, <1>2 DEF JobRec, JobOk
  <2> QED
    BY <1>1, <2>1, OneJobSteps
<1>3. CASE r.status = "RUNNING" /\ job' = [job EXCEPT ![j].cancel = TRUE]
  <2> DEFINE q == [r EXCEPT !.cancel = TRUE]
  <2>1. /\ job' = [job EXCEPT ![j] = q] /\ q \in JobRec /\ q.status = "RUNNING" /\ q.kind = r.kind
        /\ q.todo = r.todo /\ q.chosen = r.chosen /\ q.begun = r.begun /\ q.successes = r.successes
        /\ q.skipped = r.skipped /\ q.failures = r.failures
    BY <1>1, <1>3 DEF JobRec
  <2>2. q.kind \in J!Kinds /\ Suffix(q) /\ Under(r, FALSE)
    BY <1>1, <1>3, <2>1 DEF JobOk, Suffix
  <2> HIDE DEF q
  <2>3. Under(q, FALSE)
    BY <2>1, <2>2 DEF Under, Alone, Untouched, Counted, J!Treated
  <2> QED
    BY <1>1, <2>1, <2>2, <2>3, OneJobSteps DEF JobOk
<1> QED
  BY <1>2, <1>3 DEF J!Cancel

\* A claimed job starts its whole program.
LEMMA ClaimKept ==
  ASSUME JobsInv, NEW j \in Handled, J!Claim(j)
  PROVE  JobsInv'
<1> DEFINE r == job[j]
           q == [r EXCEPT !.status = "RUNNING", !.todo = J!Program[r.kind]]
<1>1. /\ r \in JobRec /\ JobOk(r, loop = j) /\ loop = 0 /\ loop' = j /\ r.status = "QUEUED"
      /\ job' = [job EXCEPT ![j] = q]
  BY DEF JobsInv, J!Claim, J!None
<1>2. r.kind \in J!Kinds /\ ~r.cancel /\ Untouched(r)
  BY <1>1 DEF JobOk
<1>3. J!Program[r.kind] \in Seq(Steps) /\ Len(J!Program[r.kind]) \in Nat \ {0}
  BY <1>2, ProgramsTyped
<1>4. /\ q \in JobRec /\ q.status = "RUNNING" /\ q.kind = r.kind /\ q.todo = J!Program[r.kind]
      /\ Untouched(q) /\ ~q.cancel
  BY <1>1, <1>2, <1>3 DEF JobRec, Untouched
<1> HIDE DEF q
<1>5. Suffix(q)
  BY <1>3, <1>4 DEF Suffix
<1>6. Under(q, TRUE)
  <2>6. CASE q.kind = "parse_tdocs"
    <3>1. q.todo = <<"params", "select", "gate", "batch">>
      BY <1>4, <2>6 DEF J!Program, J!parse_tdocs
    <3>2. Len(q.todo) = 4
      BY <3>1
    <3>3. Len(q.todo) >= 3 /\ ~ (Len(q.todo) < 3)
      BY <3>2
    <3>4. ~q.cancel /\ Untouched(q)
      BY <1>4
    <3> QED
      BY <2>6, <3>3, <3>4 DEF Under, Alone
  <2>7. CASE q.kind = "parse_tdoc_url"
    <3>1. q.todo = <<"params", "quiet", "gate", "list", "batch", "gate">>
      BY <1>4, <2>7 DEF J!Program, J!parse_tdoc_url
    <3>2. Len(q.todo) = 6
      BY <3>1
    <3> QED
      BY <1>4, <2>7, <3>2 DEF Under
  <2>8. CASE q.kind = "parse_spec_docs"
    <3>1. q.todo = <<"params", "available", "gate", "prepare", "gate", "persist", "gate">>
      BY <1>4, <2>8 DEF J!Program, J!parse_spec_docs
    <3>2. Len(q.todo) = 7
      BY <3>1
    <3> QED
      BY <1>4, <2>8, <3>2 DEF Under
  <2>9. CASE q.kind \notin {"parse_tdocs", "parse_tdoc_url", "parse_spec_docs"}
    BY <1>4, <2>9 DEF Under, Alone
  <2> QED
    BY <2>6, <2>7, <2>8, <2>9
<1> QED
  BY <1>1, <1>2, <1>4, <1>5, <1>6, OneJobSteps DEF JobOk

\* Facts about a job at a step, for the steps that choose or treat items.
LEMMA AtStep ==
  ASSUME NEW j, Runs(j)
  PROVE  /\ job[j] \in JobRec /\ job[j].status = "RUNNING" /\ job[j].kind \in J!Kinds /\ Suffix(job[j])
         /\ Under(job[j], loop = j) /\ At(job[j].kind, Len(job[j].todo), J!Step(j))
         /\ Len(job[j].todo) \in Nat \ {0} /\ j \in Handled /\ job[j].todo \in Seq(Steps)
BY Places DEF Runs, J!Step, JobRec

\* A job that only changes what is counted, or waits.
LEMMA JobStays ==
  ASSUME JobsInv, NEW j, Runs(j), NEW q \in JobRec, job' = [job EXCEPT ![j] = q], loop \in {0, j},
         loop' \in {0, j}, q.status = "RUNNING", q.kind = job[j].kind, q.todo = job[j].todo,
         Under(q, loop' = j)
  PROVE  JobsInv'
<1>1. Suffix(q) /\ q.kind \in J!Kinds /\ j \in Handled
  BY DEF Runs, Suffix
<1>2. JobOk(q, loop' = j)
  BY <1>1 DEF JobOk
<1> QED
  BY <1>1, <1>2, OneJobSteps

\* A change that leaves the steps alone leaves an end of the program.
LEMMA SameSuffix ==
  ASSUME NEW j, Runs(j), NEW q, q.todo = job[j].todo, q.kind = job[j].kind
  PROVE  Suffix(q) /\ q.kind \in J!Kinds
BY DEF Runs, Suffix

\* The gate and the work behind it keep JobsInv.
LEMMA BeginWorkKept ==
  ASSUME JobsInv, NEW j, Runs(j), J!BeginWork(j)
  PROVE  JobsInv'
<1> DEFINE r == job[j]
           q == [r EXCEPT !.away = TRUE]
<1>1. loop = j /\ loop' = 0 /\ job' = [job EXCEPT ![j] = q]
  BY AtStep DEF J!BeginWork, J!OnLoop, J!None, JobsInv
<1>2. J!Step(j) \in {"work", "progress", "list", "prepare", "persist", "batch"}
  BY DEF J!BeginWork, J!OnLoop
<1>3. /\ q \in JobRec /\ q.status = "RUNNING" /\ q.kind = r.kind
      /\ q.todo = r.todo /\ q.chosen = r.chosen /\ q.begun = r.begun /\ q.successes = r.successes
      /\ q.skipped = r.skipped /\ q.failures = r.failures
  BY AtStep DEF JobRec
<1>4. At(r.kind, Len(r.todo), J!Step(j)) /\ Under(r, loop = j) /\ (loop' = j <=> FALSE)
  BY <1>1, AtStep, HandledIsNoZero
<1>5. r.kind # "rebuild_search" /\ ~ (r.kind = "parse_tdocs" /\ Len(r.todo) >= 3)
  BY <1>2, <1>4 DEF At
<1> HIDE DEF q
<1>6. Under(q, loop' = j)
  BY <1>3, <1>4, <1>5 DEF Under, Alone, Untouched, Counted, J!Treated
<1> QED
  BY <1>1, <1>3, <1>6, JobStays

\* The selection of a batch keeps it: what is chosen is not yet begun.
LEMMA SelectKept ==
  ASSUME JobsInv, NEW j, Runs(j), J!Select(j)
  PROVE  JobsInv'
<1> DEFINE r == job[j]
           n == Len(r.todo)
<1>1. loop = j /\ J!Step(j) = "select"
  BY DEF J!Select, J!OnLoop
<1>2. r.kind = "parse_tdocs" /\ n = 3 /\ j \in Handled /\ r \in JobRec
  BY <1>1, AtStep DEF At
<1>3. Untouched(r) /\ ~r.cancel
  <2>1. n >= 3
    BY <1>2
  <2> QED
    BY <1>2, <2>1, AtStep DEF Under, Alone
<1>4. CASE J!End(j, "FAILED")
  BY <1>1, <1>2, <1>4, JobFails
<1>5. CASE J!End(j, "SUCCEEDED")
  <2> DEFINE q == [r EXCEPT !.status = "SUCCEEDED", !.todo = <<>>, !.away = FALSE]
  <2>1. job' = [job EXCEPT ![j] = q] /\ loop' = 0 /\ <<>> \in Seq(Steps)
    BY <1>5, EmptySeq DEF J!End, J!None
  <2>2. q \in JobRec /\ q.status = "SUCCEEDED" /\ Untouched(q) /\ ~q.cancel
    BY <1>2, <1>3, <2>1 DEF JobRec, Untouched
  <2>3. JobOk(q, loop' = j)
    BY <2>2 DEF JobOk, Honest, Untouched, J!Treated
  <2> QED
    BY <1>1, <1>2, <2>1, <2>2, <2>3, OneJobSteps
<1>6. ASSUME NEW m \in 1 .. MaxItems, J!GoOn(j, [r EXCEPT !.chosen = m]) PROVE JobsInv'
  <2> DEFINE p == [r EXCEPT !.chosen = m]
  <2>1. /\ p \in JobRec /\ p.status = "RUNNING" /\ p.kind = r.kind /\ p.todo = r.todo /\ p.chosen = m
        /\ p.begun = 0 /\ p.successes = 0 /\ p.skipped = 0 /\ p.failures = 0
    BY <1>2, <1>3, AtStep, ServerBounds DEF JobRec, Untouched
  <2> HIDE DEF p
  <2>2. Suffix(p) /\ p.kind \in J!Kinds /\ Len(p.todo) = 3
    BY <1>2, <2>1, SameSuffix
  <2>3. Onward(p)
    <3>1. SUFFICES ASSUME NEW q \in JobRec, \A f \in (DOMAIN p) \ {"todo", "away"} : q[f] = p[f],
                          Len(q.todo) = Len(p.todo) - 1
                   PROVE  Under(q, TRUE)
      BY DEF Onward
    <3>2. q.kind = "parse_tdocs" /\ q.chosen = m /\ q.begun = 0 /\ q.successes = 0
          /\ q.skipped = 0 /\ q.failures = 0
      BY <1>2, <2>1, <3>1 DEF JobRec
    <3>3. Len(q.todo) < 3 /\ ~ (Len(q.todo) >= 3)
      BY <2>2, <3>1
    <3>4. q.chosen >= 1 /\ Counted(q)
      BY <3>2, ServerBounds DEF Counted, J!Treated
    <3> QED
      BY <3>2, <3>3, <3>4 DEF Under
  <2>4. J!GoOn(j, p) /\ ~ (Len(p.todo) = 1)
    BY <1>6, <2>2 DEF p
  <2> QED
    BY <1>1, <1>2, <2>1, <2>2, <2>3, <2>4, JobGoesOn
<1> QED
  BY <1>4, <1>5, <1>6 DEF J!Select

\* So does a list of a remote folder.
LEMMA EndListKept ==
  ASSUME JobsInv, NEW j, Runs(j), J!EndList(j)
  PROVE  JobsInv'
<1> DEFINE r == job[j]
           n == Len(r.todo)
<1>1. loop \in {0, j} /\ J!Step(j) = "list"
  BY DEF J!EndList, J!None
<1>2. r.kind = "parse_tdoc_url" /\ n = 3 /\ j \in Handled /\ r \in JobRec
  BY <1>1, AtStep DEF At
<1>3. Untouched(r)
  <2>1. n >= 3
    BY <1>2
  <2> QED
    BY <1>2, <2>1, AtStep DEF Under
<1>4. CASE J!End(j, "FAILED")
  BY <1>1, <1>2, <1>4, JobFails
<1>6. ASSUME NEW m \in Nat, J!GoOn(j, [r EXCEPT !.chosen = m]) PROVE JobsInv'
  <2> DEFINE p == [r EXCEPT !.chosen = m]
  <2>1. /\ p \in JobRec /\ p.status = "RUNNING" /\ p.kind = r.kind /\ p.todo = r.todo /\ p.chosen = m
        /\ p.begun = 0 /\ p.successes = 0 /\ p.skipped = 0 /\ p.failures = 0
    BY <1>2, <1>3, AtStep DEF JobRec, Untouched
  <2> HIDE DEF p
  <2>2. Suffix(p) /\ p.kind \in J!Kinds /\ Len(p.todo) = 3
    BY <1>2, <2>1, SameSuffix
  <2>3. Onward(p)
    <3>1. SUFFICES ASSUME NEW q \in JobRec, \A f \in (DOMAIN p) \ {"todo", "away"} : q[f] = p[f],
                          Len(q.todo) = Len(p.todo) - 1
                   PROVE  Under(q, TRUE)
      BY DEF Onward
    <3>2. q.kind = "parse_tdoc_url" /\ q.chosen = m /\ q.begun = 0 /\ q.successes = 0
          /\ q.skipped = 0 /\ q.failures = 0
      <4>1. {"kind", "chosen", "begun", "successes", "skipped", "failures"} \subseteq (DOMAIN p) \ {"todo", "away"}
        BY <2>1 DEF JobRec
      <4>2. /\ q["kind"] = p["kind"] /\ q["chosen"] = p["chosen"] /\ q["begun"] = p["begun"]
            /\ q["successes"] = p["successes"] /\ q["skipped"] = p["skipped"] /\ q["failures"] = p["failures"]
        BY <3>1, <4>1
      <4> QED
        BY <1>2, <2>1, <4>2
    <3>3. Len(q.todo) = 2
      BY <2>2, <3>1
    <3>4. Counted(q)
      BY <3>2 DEF Counted, J!Treated
    <3> QED
      BY <3>2, <3>3, <3>4 DEF Under
  <2>4. J!GoOn(j, p) /\ ~ (Len(p.todo) = 1)
    BY <1>6, <2>2 DEF p
  <2> QED
    BY <1>1, <1>2, <2>1, <2>2, <2>3, <2>4, JobGoesOn
<1>7. 1 \in Nat /\ \A m \in 0 .. MaxItems : m \in Nat
  BY ServerBounds
<1> QED
  BY <1>4, <1>6, <1>7 DEF J!EndList

\* The half of a document that fails, or has nothing to do, leaves the last gate.
LEMMA HalfBreaksOff ==
  ASSUME JobsInv, NEW j, Runs(j), loop \in {0, j}, J!Step(j) \in {"prepare", "persist"},
         NEW p \in JobRec, p.kind = job[j].kind, p.todo = job[j].todo, p.status = "RUNNING",
         J!Treated(p) = p.chosen, J!GoOn(j, J!LastGate(p))
  PROVE  JobsInv'
<1> DEFINE r == job[j]
           n == Len(r.todo)
           q == J!LastGate(p)
<1>1. r.kind = "parse_spec_docs" /\ n \in Nat /\ n >= 2 /\ r.todo \in Seq(Steps)
  <2>1. At(r.kind, n, J!Step(j)) /\ r.todo \in Seq(Steps)
    BY AtStep
  <2>2. r.kind = "parse_spec_docs" /\ (n = 2 \/ n = 4)
    BY <2>1 DEF At
  <2> QED
    BY <2>1, <2>2, SmallNumbers
<1>n. n = Len(r.todo)
  OBVIOUS
<1> HIDE DEF n
<1>2. /\ SubSeq(r.todo, n - 1, n) \in Seq(Steps) /\ Len(SubSeq(r.todo, n - 1, n)) = 2
      /\ \A i \in 1 .. 2 : SubSeq(r.todo, n - 1, n)[i] = r.todo[n - 1 + i - 1]
  <2> DEFINE m == n - 1
             s == r.todo
  <2>1. m \in Nat /\ n \in Nat /\ m >= 1 /\ m <= n /\ n <= Len(s) /\ n - m + 1 = 2 /\ s \in Seq(Steps)
    BY <1>1, <1>n
  <2> HIDE DEF m, s
  <2>2. /\ SubSeq(s, m, n) \in Seq(Steps)
        /\ Len(SubSeq(s, m, n)) = IF m <= n THEN n - m + 1 ELSE 0
        /\ \A i \in 1 .. (n - m + 1) : SubSeq(s, m, n)[i] = s[m + i - 1]
    BY <2>1, SubSeqIs
  <2>3. /\ SubSeq(s, m, n) \in Seq(Steps) /\ Len(SubSeq(s, m, n)) = 2
        /\ \A i \in 1 .. 2 : SubSeq(s, m, n)[i] = s[m + i - 1]
    BY <2>1, <2>2
  <2> QED
    BY <2>3 DEF m, s
<1>3. /\ q \in JobRec /\ q.status = "RUNNING" /\ q.kind = r.kind /\ q.todo = SubSeq(r.todo, n - 1, n)
      /\ J!Treated(q) = q.chosen /\ q.kind \in J!Kinds /\ j \in Handled
  BY <1>2, <1>n, AtStep DEF J!LastGate, JobRec, J!Treated
<1> HIDE DEF q
<1>4. Suffix(q)
  <2> DEFINE P == J!Program["parse_spec_docs"]
  <2>1. Len(P) = 7
    <3>1. P = <<"params", "available", "gate", "prepare", "gate", "persist", "gate">>
      BY DEF J!Program, J!parse_spec_docs
    <3> QED
      BY <3>1
  <2>2. \A i \in 1 .. n : r.todo[i] = P[7 - n + i]
    <3>1. Suffix(r)
      BY AtStep
    <3> QED
      BY <1>1, <1>n, <2>1, <3>1 DEF Suffix
  <2> HIDE DEF P
  <2>3. ASSUME NEW i \in 1 .. 2 PROVE q.todo[i] = P[5 + i]
    <3>1. n - 1 + i - 1 \in 1 .. n /\ 7 - n + (n - 1 + i - 1) = 5 + i
      BY <1>1
    <3> QED
      BY <1>2, <1>3, <2>2, <3>1
  <2>4. Len(q.todo) = 2 /\ q.kind = "parse_spec_docs" /\ Len(q.todo) \in 1 .. Len(P)
    BY <1>1, <1>2, <1>3, <2>1
  <2> QED
    BY <2>1, <2>3, <2>4 DEF Suffix, P
<1>5. Onward(q)
  <2>1. SUFFICES ASSUME NEW z \in JobRec, \A f \in (DOMAIN q) \ {"todo", "away"} : z[f] = q[f],
                        Len(z.todo) = Len(q.todo) - 1
                 PROVE  Under(z, TRUE)
    BY DEF Onward
  <2>2. z.kind = "parse_spec_docs" /\ z.chosen = q.chosen /\ z.successes = q.successes
        /\ z.skipped = q.skipped /\ z.failures = q.failures
    BY <1>1, <1>3, <2>1 DEF JobRec
  <2>3. Len(z.todo) = 1 /\ J!Treated(z) = z.chosen
    BY <1>2, <1>3, <2>1, <2>2 DEF J!Treated
  <2> QED
    BY <2>2, <2>3 DEF Under
<1>6. J!GoOn(j, q) /\ ~ (Len(q.todo) = 1)
  BY <1>2, <1>3 DEF q
<1> QED
  BY <1>3, <1>4, <1>5, <1>6, JobGoesOn

\* So do the halves of a document: what neither fails nor skips is treated by the last.
LEMMA EndHalfKept ==
  ASSUME JobsInv, NEW j, Runs(j), J!EndHalf(j)
  PROVE  JobsInv'
<1> DEFINE r == job[j]
           n == Len(r.todo)
<1>1. loop \in {0, j} /\ J!Step(j) \in {"prepare", "persist"}
  BY DEF J!EndHalf, J!None
<1>2. /\ r.kind = "parse_spec_docs" /\ r \in JobRec /\ r.status = "RUNNING"
      /\ J!Step(j) = "prepare" => n = 4
      /\ J!Step(j) = "persist" => n = 2
  BY <1>1, AtStep DEF At
<1>u. Under(r, loop = j)
  BY AtStep
<1>3. J!Step(j) = "prepare" => Untouched(r)
  <2>1. J!Step(j) = "prepare" => n >= 4
    BY <1>2, SmallNumbers
  <2> QED
    BY <1>2, <1>u, <2>1 DEF Under
<1>4. J!Step(j) = "persist" => r.chosen = 1 /\ J!Treated(r) = 0
  <2>1. J!Step(j) = "persist" => n = 2
    BY <1>2
  <2> QED
    BY <1>2, <1>u, <2>1 DEF Under
<1>5. r.successes = 0 /\ r.skipped = 0 /\ r.failures = 0
  BY <1>1, <1>2, <1>3, <1>4 DEF Untouched, J!Treated, JobRec
<1>6. CASE J!GoOn(j, J!LastGate([r EXCEPT !.chosen = 1, !.failures = 1]))
  <2> DEFINE p == [r EXCEPT !.chosen = 1, !.failures = 1]
  <2>0. /\ p \in JobRec /\ p.kind = r.kind /\ p.todo = r.todo /\ p.status = "RUNNING"
        /\ p.chosen = 1 /\ p.failures = 1 /\ p.skipped = 0 /\ p.successes = 0
    BY <1>2, <1>5 DEF JobRec
  <2>1. J!Treated(p) = p.chosen
    BY <2>0 DEF J!Treated
  <2> QED
    BY <1>1, <1>6, <2>0, <2>1, HalfBreaksOff
<1>7. CASE J!GoOn(j, J!LastGate([r EXCEPT !.chosen = 1, !.skipped = 1]))
  <2> DEFINE p == [r EXCEPT !.chosen = 1, !.skipped = 1]
  <2>0. /\ p \in JobRec /\ p.kind = r.kind /\ p.todo = r.todo /\ p.status = "RUNNING"
        /\ p.chosen = 1 /\ p.skipped = 1 /\ p.failures = 0 /\ p.successes = 0
    BY <1>2, <1>5 DEF JobRec
  <2>1. J!Treated(p) = p.chosen
    BY <2>0 DEF J!Treated
  <2> QED
    BY <1>1, <1>7, <2>0, <2>1, HalfBreaksOff
<1>8. ASSUME NEW p \in JobRec, p.kind = r.kind, p.todo = r.todo, p.status = "RUNNING", J!GoOn(j, p),
             p.chosen = 1, \/ n = 4 /\ J!Treated(p) = 0
                           \/ n = 2 /\ J!Treated(p) = 1
      PROVE  JobsInv'
  <2>1. Suffix(p) /\ p.kind \in J!Kinds /\ ~ (Len(p.todo) = 1) /\ Len(p.todo) = n /\ j \in Handled
    <3>1. ~ (n = 1)
      BY <1>8
    <3> QED
      BY <1>8, <3>1, SameSuffix, AtStep
  <2>2. Onward(p)
    <3>1. SUFFICES ASSUME NEW z \in JobRec, \A f \in (DOMAIN p) \ {"todo", "away"} : z[f] = p[f],
                          Len(z.todo) = Len(p.todo) - 1
                   PROVE  Under(z, TRUE)
      BY DEF Onward
    <3>2. z.kind = "parse_spec_docs" /\ z.chosen = p.chosen /\ z.successes = p.successes
          /\ z.skipped = p.skipped /\ z.failures = p.failures
      BY <1>2, <1>8, <3>1 DEF JobRec
    <3>3. J!Treated(z) = J!Treated(p) /\ z.chosen = 1
      BY <1>8, <3>2 DEF J!Treated
    <3>4. CASE n = 4 /\ J!Treated(p) = 0
      <4>1. Len(z.todo) = 3
        BY <2>1, <3>1, <3>4
      <4> QED
        BY <3>2, <3>3, <3>4, <4>1 DEF Under
    <3>5. CASE n = 2 /\ J!Treated(p) = 1
      <4>1. Len(z.todo) = 1
        BY <2>1, <3>1, <3>5
      <4> QED
        BY <3>2, <3>3, <3>5, <4>1 DEF Under
    <3> QED
      BY <1>8, <3>4, <3>5
  <2> QED
    BY <1>1, <1>8, <2>1, <2>2, JobGoesOn
<1>9. CASE J!Step(j) = "prepare" /\ J!GoOn(j, [r EXCEPT !.chosen = 1])
  <2> DEFINE p == [r EXCEPT !.chosen = 1]
  <2>1. /\ p \in JobRec /\ p.kind = r.kind /\ p.todo = r.todo /\ p.status = "RUNNING" /\ p.chosen = 1
        /\ J!Treated(p) = 0
    BY <1>2, <1>5 DEF JobRec, J!Treated
  <2> QED
    BY <1>2, <1>8, <1>9, <2>1
<1>10. CASE J!Step(j) = "persist" /\ J!GoOn(j, [r EXCEPT !.successes = 1])
  <2> DEFINE p == [r EXCEPT !.successes = 1]
  <2>1. /\ p \in JobRec /\ p.kind = r.kind /\ p.todo = r.todo /\ p.status = "RUNNING" /\ p.chosen = 1
        /\ J!Treated(p) = 1
    BY <1>2, <1>4, <1>5, <1>10 DEF JobRec, J!Treated
  <2> QED
    BY <1>2, <1>8, <1>10, <2>1
<1> QED
  BY <1>6, <1>7, <1>9, <1>10 DEF J!EndHalf

\* So does an item of a batch that begins or ends.
LEMMA BatchItemKept ==
  ASSUME JobsInv, NEW j, Runs(j), J!BeginItem(j) \/ J!EndItem(j)
  PROVE  JobsInv'
<1> DEFINE r == job[j]
           n == Len(r.todo)
<1>1. /\ loop = 0 /\ loop' = 0 /\ J!Step(j) = "batch" /\ j # 0
      /\ r \in JobRec /\ r.status = "RUNNING" /\ j \in Handled
  BY AtStep, HandledIsNoZero DEF J!BeginItem, J!EndItem, J!None, Runs
<1>2. (r.kind = "parse_tdocs" /\ n = 1) \/ (r.kind = "parse_tdoc_url" /\ n = 2)
  BY <1>1, AtStep DEF At
<1>3. Counted(r) /\ (r.kind = "parse_tdocs" => r.chosen >= 1)
  <2>1. r.kind = "parse_tdocs" => n < 3
    BY <1>2, SmallNumbers
  <2>2. r.kind = "parse_tdoc_url" => n = 2
    BY <1>2
  <2>3. Under(r, loop = j)
    BY AtStep
  <2> QED
    BY <1>2, <2>1, <2>2, <2>3 DEF Under
<1>4. ASSUME NEW q \in JobRec, job' = [job EXCEPT ![j] = q], q.status = "RUNNING", q.kind = r.kind,
             q.todo = r.todo, q.chosen = r.chosen, Counted(q)
      PROVE  JobsInv'
  <2>1. CASE r.kind = "parse_tdocs" /\ n = 1
    <3>1. Len(q.todo) < 3 /\ ~ (Len(q.todo) >= 3)
      BY <1>4, <2>1
    <3>2. Under(q, loop' = j)
      BY <1>3, <1>4, <2>1, <3>1 DEF Under
    <3> QED
      BY <1>1, <1>4, <3>2, JobStays
  <2>2. CASE r.kind = "parse_tdoc_url" /\ n = 2
    <3>1. Len(q.todo) = 2
      BY <1>4, <2>2
    <3>2. Under(q, loop' = j)
      BY <1>4, <2>2, <3>1 DEF Under
    <3> QED
      BY <1>1, <1>4, <3>2, JobStays
  <2> QED
    BY <1>2, <2>1, <2>2
<1>5. CASE J!BeginItem(j)
  <2> DEFINE q == [r EXCEPT !.begun = @ + 1]
  <2>1. /\ job' = [job EXCEPT ![j] = q] /\ r.begun < r.chosen
        /\ r.begun \in Nat /\ r.chosen \in Nat /\ r.successes \in Nat /\ r.skipped \in Nat /\ r.failures \in Nat
    BY <1>1, <1>5 DEF J!BeginItem, JobsInv, JobRec
  <2>2. /\ q \in JobRec /\ q.status = "RUNNING" /\ q.kind = r.kind /\ q.todo = r.todo
        /\ q.chosen = r.chosen /\ q.begun = r.begun + 1 /\ q.successes = r.successes
        /\ q.skipped = r.skipped /\ q.failures = r.failures
    BY <1>1 DEF JobRec
  <2>3. Counted(q)
    BY <1>3, <2>1, <2>2 DEF Counted, J!Treated
  <2> QED
    BY <1>4, <2>1, <2>2, <2>3
<1>6. CASE J!EndItem(j)
  <2>1. PICK b \in {"successes", "skipped", "failures"} :
           job' = [job EXCEPT ![j][b] = @ + 1]
    BY <1>6 DEF J!EndItem
  <2> DEFINE q == [r EXCEPT ![b] = @ + 1]
  <2>5. job' = [job EXCEPT ![j] = q]
    BY <2>1
  <2>2. /\ job' = [job EXCEPT ![j] = q] /\ J!Treated(r) < r.begun
        /\ r.begun \in Nat /\ r.chosen \in Nat /\ r.successes \in Nat /\ r.skipped \in Nat /\ r.failures \in Nat
    BY <1>1, <1>6, <2>5 DEF J!EndItem, JobRec
  <2>3. /\ q \in JobRec /\ q.status = "RUNNING" /\ q.kind = r.kind /\ q.todo = r.todo
        /\ q.chosen = r.chosen /\ q.begun = r.begun
        /\ q.successes = (IF b = "successes" THEN r.successes + 1 ELSE r.successes)
        /\ q.skipped = (IF b = "skipped" THEN r.skipped + 1 ELSE r.skipped)
        /\ q.failures = (IF b = "failures" THEN r.failures + 1 ELSE r.failures)
    <3>1. CASE b = "successes"
      BY <1>1, <2>2, <3>1 DEF JobRec
    <3>2. CASE b = "skipped"
      BY <1>1, <2>2, <3>2 DEF JobRec
    <3>3. CASE b = "failures"
      BY <1>1, <2>2, <3>3 DEF JobRec
    <3> QED
      BY <3>1, <3>2, <3>3
  <2>4. Counted(q)
    BY <1>3, <2>2, <2>3 DEF Counted, J!Treated
  <2> QED
    BY <1>4, <2>2, <2>3, <2>4
<1> QED
  BY <1>5, <1>6

\* A batch ends when all its items have, so what was chosen is treated.
LEMMA EndBatchKept ==
  ASSUME JobsInv, NEW j, Runs(j), J!EndBatch(j)
  PROVE  JobsInv'
<1> DEFINE r == job[j]
           n == Len(r.todo)
<1>1. /\ loop \in {0, j} /\ J!Step(j) = "batch" /\ J!Treated(r) = r.begun
      /\ r \in JobRec /\ r.status = "RUNNING" /\ j \in Handled /\ r.kind \in J!Kinds /\ Suffix(r)
  BY AtStep DEF J!EndBatch, J!None, Runs
<1>2. (r.kind = "parse_tdocs" /\ n = 1) \/ (r.kind = "parse_tdoc_url" /\ n = 2)
  BY <1>1, AtStep DEF At
<1>3. Counted(r) /\ (r.kind = "parse_tdocs" => r.chosen >= 1)
  <2>1. r.kind = "parse_tdocs" => n < 3
    BY <1>2, SmallNumbers
  <2>2. r.kind = "parse_tdoc_url" => n = 2
    BY <1>2
  <2>3. Under(r, loop = j)
    BY AtStep
  <2> QED
    BY <1>2, <2>1, <2>2, <2>3 DEF Under
<1>4. CASE J!End(j, "CANCELLED") \/ J!End(j, "FAILED")
  BY <1>1, <1>4, JobFails
<1>5. CASE J!GoOn(j, r) /\ (r.chosen = 0 \/ (~r.cancel /\ r.begun = r.chosen))
  <2>1. J!Treated(r) = r.chosen
    BY <1>1, <1>3, <1>5 DEF Counted, J!Treated, JobRec
  <2>2. n = 1 => ~r.cancel
    <3>1. ASSUME n = 1 PROVE r.chosen # 0
      <4>1. r.kind = "parse_tdocs"
        BY <1>2, <3>1
      <4>2. r.chosen >= 1
        BY <1>3, <4>1
      <4> QED
        BY <4>2
    <3> QED
      BY <1>5, <3>1
  <2>3. ASSUME n > 1 PROVE Onward(r)
    <3>1. SUFFICES ASSUME NEW z \in JobRec, \A f \in (DOMAIN r) \ {"todo", "away"} : z[f] = r[f],
                          Len(z.todo) = Len(r.todo) - 1
                   PROVE  Under(z, TRUE)
      BY DEF Onward
    <3>2. r.kind = "parse_tdoc_url" /\ n = 2
      BY <1>2, <2>3, SmallNumbers
    <3>3. z.kind = "parse_tdoc_url" /\ z.chosen = r.chosen /\ z.successes = r.successes
          /\ z.skipped = r.skipped /\ z.failures = r.failures
      BY <1>1, <3>1, <3>2 DEF JobRec
    <3>4. Len(z.todo) = 1 /\ J!Treated(z) = z.chosen
      BY <2>1, <3>1, <3>2, <3>3 DEF J!Treated
    <3> QED
      BY <3>3, <3>4 DEF Under
  <2> QED
    BY <1>1, <1>5, <2>1, <2>2, <2>3, JobGoesOn
<1> QED
  BY <1>4, <1>5 DEF J!EndBatch

\* JobsInv is inductive.
LEMMA JobsKept == JobsInv /\ [J!Next]_(J!vars) => JobsInv'
<1> SUFFICES ASSUME JobsInv, [J!Next]_(J!vars) PROVE JobsInv'
  OBVIOUS
<1>1. CASE UNCHANGED J!vars
  <2>1. job' = job /\ loop' = loop
    BY <1>1 DEF J!vars
  <2> QED
    BY <2>1 DEF JobsInv
<1>2. ASSUME NEW j \in Handled, job[j].status = "RUNNING",
             \/ J!Params(j) \/ J!Look(j) \/ J!Quiet(j) \/ J!Gate(j) \/ J!Select(j)
             \/ J!BeginWork(j) \/ J!EndWork(j) \/ J!EndList(j) \/ J!EndHalf(j)
             \/ J!BeginItem(j) \/ J!EndItem(j) \/ J!EndBatch(j)
      PROVE  JobsInv'
  <2>1. Runs(j)
    BY <1>2 DEF Runs, JobsInv, JobOk
  <2>2. CASE J!Params(j)
    BY <2>1, <2>2, JobFails, PassesOn DEF J!Params, J!OnLoop
  <2>3. CASE J!Look(j)
    <3>1. loop = j /\ J!Step(j) \in {"known", "available", "try"}
      BY <2>3 DEF J!Look, J!OnLoop
    <3>2. J!Step(j) = "try" => ~job[j].cancel
      <4>1. ASSUME J!Step(j) = "try" PROVE job[j].kind = "rebuild_search"
        BY <2>1, <4>1, AtStep DEF At
      <4> QED
        BY <2>1, <4>1 DEF Runs, Under, Alone
    <3>3. CASE J!GoOn(j, job[j])
      BY <2>1, <3>1, <3>2, <3>3, PassesOn
    <3> QED
      BY <2>3, <3>1, <3>3, JobFails DEF J!Look
  <2>4. CASE J!Quiet(j)
    BY <2>1, <2>4, PassesOn DEF J!Quiet, J!OnLoop
  <2>5. CASE J!Gate(j)
    BY <2>1, <2>5, JobFails, PassesOn DEF J!Gate, J!OnLoop
  <2>6. CASE J!EndWork(j)
    <3>1. loop = 0 /\ J!Step(j) \in {"work", "progress"}
      BY <2>6 DEF J!EndWork, J!None
    <3>2. CASE J!GoOn(j, job[j])
      BY <2>1, <3>1, <3>2, PassesOn
    <3>3. CASE J!End(j, "FAILED") \/ J!End(j, "CANCELLED")
      BY <3>1, <3>3, JobFails
    <3> QED
      BY <2>6, <3>2, <3>3 DEF J!EndWork
  <2> QED
    BY <1>2, <2>1, <2>2, <2>3, <2>4, <2>5, <2>6, SelectKept, BeginWorkKept, EndListKept,
       EndHalfKept, BatchItemKept, EndBatchKept
<1> QED
  BY <1>1, <1>2, SubmitKept, CancelKept, ClaimKept DEF J!Next

\* It holds what the property says.
LEMMA JobsHonest == JobsInv => J!HonestVerdict
BY DEF JobsInv, JobOk, Honest, J!HonestVerdict

----------------------------------------------------------------------------
(* Stored content: what the rows of a URL say is of one extraction, and so is a file of
   it unless an extraction was there and stored no rows.  An undisturbed reader has
   read what is stored.                                                        *)

StoredInv ==
  /\ tdoc.url \in Paths \cup {Nothing}
  /\ DOMAIN metas = C!Urls /\ DOMAIN documents = C!Urls /\ DOMAIN archives = C!Files
  /\ \A u \in C!Urls : metas[u] # Nothing /\ metas[u].format = 2 =>
       /\ documents[u].number = metas[u].number /\ documents[u].version = metas[u].version
       /\ metas[u].file \in C!Files
       /\ LET file == archives[metas[u].file]
          IN u \notin torn /\ file # Nothing /\ file.url = u => file.version = metas[u].version
  /\ extract.pc = "bundle" =>
       /\ extract.url \in C!Urls /\ extract.file \in C!Files
       /\ archives[extract.file] \in {Nothing, [url |-> extract.url, version |-> extract.version]}

RowsOf(u, type) == IF documents[u].store = type THEN documents[u] ELSE C!NoRows

\* How far the reader has come.
MetaRead == read.pc \in {"rows", "archive", "cover"} \/ read.complete
RowsRead == read.pc \in {"archive", "cover"} \/ read.complete
MainRead == read.pc = "cover" \/ read.complete

ReaderInv ==
  /\ DOMAIN read = DOMAIN C!Reader
  /\ read.pc \notin {"idle", "done"} => read.url \in C!Urls
  /\ read.complete => read.pc \in {"select", "done"} /\ read.meta.format = 2 /\ read.url \in C!Urls
  /\ read.pc \in {"meta", "rows", "archive"} => read.main = Nothing
  /\ RowsRead => read.rows.number = read.meta.number
  /\ MainRead => /\ read.type = "CR" /\ read.source # "other" => read.main # Nothing
                 /\ read.main # Nothing => read.main.url = read.url
  /\ read.undisturbed =>
       /\ MetaRead => read.meta = metas[read.url] /\ read.meta # Nothing
       /\ RowsRead => read.rows = RowsOf(read.url, read.type)
       /\ MainRead /\ read.main # Nothing => read.main = archives[read.meta.file]

ContentInv == StoredInv /\ ReaderInv

\* ContentInv holds what the property says.
LEMMA ContentWhole == ContentInv => C!AnswerIsWhole
<1> SUFFICES ASSUME ContentInv, read.complete PROVE
      /\ read.rows.number = read.meta.number
      /\ read.type = "CR" /\ read.source # "other" => read.main # Nothing
      /\ read.main # Nothing => read.main.url = read.url
      /\ read.undisturbed /\ read.url \notin torn =>
         /\ read.rows.number > 0 => read.rows.version = read.meta.version
         /\ read.main # Nothing => read.main.version = read.meta.version
  BY DEF C!AnswerIsWhole
<1>1. MetaRead /\ RowsRead /\ MainRead
  BY DEF MetaRead, RowsRead, MainRead
<1>2. /\ read.rows.number = read.meta.number
      /\ read.type = "CR" /\ read.source # "other" => read.main # Nothing
      /\ read.main # Nothing => read.main.url = read.url
  BY <1>1 DEF ContentInv, ReaderInv
<1>3. ASSUME read.undisturbed, read.url \notin torn
      PROVE  /\ read.rows.number > 0 => read.rows.version = read.meta.version
             /\ read.main # Nothing => read.main.version = read.meta.version
  <2> DEFINE u == read.url
  <2>1. /\ u \in C!Urls /\ read.meta = metas[u] /\ read.meta # Nothing /\ read.meta.format = 2
        /\ read.rows = RowsOf(u, read.type)
        /\ read.main # Nothing => read.main = archives[read.meta.file]
    BY <1>1, <1>3 DEF ContentInv, ReaderInv
  <2>2. documents[u].version = metas[u].version
        /\ LET file == archives[metas[u].file]
           IN file # Nothing /\ file.url = u => file.version = metas[u].version
    BY <1>3, <2>1 DEF ContentInv, StoredInv
  <2>3. read.rows.number > 0 => read.rows = documents[u]
    BY <2>1 DEF RowsOf, C!NoRows
  <2> QED
    BY <1>2, <2>1, <2>2, <2>3
<1> QED
  BY <1>2, <1>3

\* Nothing is stored at first, and nobody reads.
LEMMA ContentBegins == C!Init => ContentInv
<1> SUFFICES ASSUME C!Init PROVE ContentInv
  OBVIOUS
<1>1. /\ documents = [u \in C!Urls |-> C!NoRows] /\ read = C!Reader /\ extract = C!NoExtract
      /\ DOMAIN metas = C!Urls /\ DOMAIN archives = C!Files
      /\ \A u \in C!Urls : metas[u] = Nothing \/ metas[u].format = 1
      /\ tdoc.url \in Paths \cup {Nothing}
  BY DEF C!Init
<1>2. StoredInv
  BY <1>1 DEF StoredInv, C!NoExtract
<1>3. ReaderInv
  BY <1>1 DEF ReaderInv, C!Reader, MetaRead, RowsRead, MainRead
<1> QED
  BY <1>2, <1>3 DEF ContentInv

\* Whoever disturbs the reader changes no more of it.
LEMMA Disturbs ==
  ASSUME ReaderInv, read' = [read EXCEPT !.undisturbed = FALSE]
  PROVE  ReaderInv'
<1>1. /\ DOMAIN read' = DOMAIN read /\ ~read'.undisturbed
      /\ \A f \in (DOMAIN read) \ {"undisturbed"} : read'[f] = read[f]
  BY DEF ReaderInv, C!Reader
<1>2. /\ read'.pc = read.pc /\ read'.source = read.source /\ read'.url = read.url
      /\ read'.type = read.type /\ read'.meta = read.meta /\ read'.rows = read.rows
      /\ read'.main = read.main /\ read'.complete = read.complete
  BY <1>1 DEF ReaderInv, C!Reader
<1> QED
  BY <1>1, <1>2 DEF ReaderInv, MetaRead, RowsRead, MainRead

\* An archive is written before its rows, which still say the truth about what they
\* name.
LEMMA WriteArchiveKept ==
  ASSUME ContentInv, NEW route \in {"id", "url"}, NEW path \in Paths, NEW url \in C!Urls, NEW version, NEW store,
         C!WriteArchive(route, path, url, version, store)
  PROVE  ContentInv'
<1> DEFINE f == <<route, path>>
<1>1. /\ f \in C!Files /\ UNCHANGED <<tdoc, metas, documents>>
      /\ archives' = [archives EXCEPT ![f] = [url |-> url, version |-> version]]
      /\ torn' = torn \cup {url}
      /\ extract' = [pc |-> "bundle", file |-> f, url |-> url, version |-> version, store |-> store]
      /\ read' = [read EXCEPT !.undisturbed = FALSE]
  BY DEF C!WriteArchive, C!Event, C!Files, C!Urls, C!stored
<1>2. ReaderInv'
  BY <1>1, Disturbs DEF ContentInv
<1>3. ASSUME NEW u \in C!Urls, metas[u] # Nothing, metas[u].format = 2, u \notin torn',
             archives'[metas[u].file] # Nothing, archives'[metas[u].file].url = u
      PROVE  archives'[metas[u].file].version = metas[u].version
  <2>1. u # url /\ u \notin torn
    BY <1>1, <1>3
  <2>2. metas[u].file # f
    BY <1>1, <1>3, <2>1 DEF ContentInv, StoredInv
  <2>3. archives'[metas[u].file] = archives[metas[u].file]
    BY <1>1, <2>2 DEF ContentInv, StoredInv
  <2> QED
    BY <1>3, <2>1, <2>3 DEF ContentInv, StoredInv
<1>4. StoredInv'
  BY <1>1, <1>3 DEF ContentInv, StoredInv
<1> QED
  BY <1>2, <1>4 DEF ContentInv

\* The rows of an extraction are stored together.
LEMMA StoreBundleKept ==
  ASSUME ContentInv, NEW skipped \in BOOLEAN, C!StoreBundle(skipped)
  PROVE  ContentInv'
<1> DEFINE e == extract
           n == (IF e.store = "CR" THEN 0 ELSE 1) + (IF skipped THEN 0 ELSE 1)
           m == [format |-> 2, store |-> e.store, file |-> e.file, number |-> n,
                 skipped |-> skipped, version |-> e.version]
           d == [store |-> e.store, number |-> n, version |-> e.version]
<1>1. /\ e.url \in C!Urls /\ e.file \in C!Files /\ archives' = archives
      /\ archives[e.file] \in {Nothing, [url |-> e.url, version |-> e.version]}
      /\ metas' = [metas EXCEPT ![e.url] = m] /\ documents' = [documents EXCEPT ![e.url] = d]
      /\ tdoc' = tdoc /\ torn' = torn \ {e.url} /\ extract' = C!NoExtract
      /\ read' = [read EXCEPT !.undisturbed = FALSE]
  BY DEF C!StoreBundle, ContentInv, StoredInv
<1>2. ReaderInv'
  BY <1>1, Disturbs DEF ContentInv
<1>3. /\ m.format = 2 /\ m.file = e.file /\ m.number = n /\ m.version = e.version
      /\ d.number = n /\ d.version = e.version
  OBVIOUS
<1> HIDE DEF m, d, n
<1>4. DOMAIN metas' = C!Urls /\ DOMAIN documents' = C!Urls /\ DOMAIN archives' = C!Files
      /\ tdoc'.url \in Paths \cup {Nothing}
  BY <1>1 DEF ContentInv, StoredInv
<1>5. ASSUME NEW u \in C!Urls, metas'[u] # Nothing, metas'[u].format = 2
      PROVE  /\ documents'[u].number = metas'[u].number /\ documents'[u].version = metas'[u].version
             /\ metas'[u].file \in C!Files
             /\ LET file == archives'[metas'[u].file]
                IN u \notin torn' /\ file # Nothing /\ file.url = u => file.version = metas'[u].version
  <2>1. CASE u = e.url
    <3>1. metas'[u] = m /\ documents'[u] = d
      BY <1>1, <2>1 DEF ContentInv, StoredInv
    <3>2. archives[e.file] # Nothing => archives[e.file].version = e.version
      BY <1>1
    <3> QED
      BY <1>1, <1>3, <3>1, <3>2
  <2>2. CASE u # e.url
    <3>1. metas'[u] = metas[u] /\ documents'[u] = documents[u] /\ (u \notin torn' => u \notin torn)
      BY <1>1, <2>2 DEF ContentInv, StoredInv
    <3> QED
      BY <1>1, <1>5, <3>1 DEF ContentInv, StoredInv
  <2> QED
    BY <2>1, <2>2
<1>6. extract'.pc # "bundle"
  BY <1>1 DEF C!NoExtract
<1> QED
  BY <1>2, <1>4, <1>5, <1>6 DEF ContentInv, StoredInv

\* What a reader does changes nothing that is stored.
LEMMA ReadingKept ==
  ASSUME ContentInv, ReaderInv', UNCHANGED <<tdoc, metas, documents, archives, extract, torn>>
  PROVE  ContentInv'
BY DEF ContentInv, StoredInv

\* A failed extraction, an eviction and a sync keep it.
LEMMA OtherStoresKept ==
  ASSUME ContentInv,
         \/ C!BreakOff
         \/ \E file \in C!Files : C!Evict(file)
         \/ \E url \in Paths \cup {Nothing} : \E type : C!SyncRow(url, type)
  PROVE  ContentInv'
<1>1. CASE C!BreakOff
  <2>1. /\ UNCHANGED <<tdoc, metas, documents, archives, torn, read>> /\ extract' = C!NoExtract
    BY <1>1 DEF C!BreakOff, C!stored
  <2>2. ReaderInv'
    BY <2>1 DEF ContentInv, ReaderInv, MetaRead, RowsRead, MainRead, RowsOf
  <2> QED
    BY <2>1, <2>2 DEF ContentInv, StoredInv, C!NoExtract
<1>2. ASSUME NEW file \in C!Files, C!Evict(file) PROVE ContentInv'
  <2>1. /\ UNCHANGED <<tdoc, metas, documents, torn, extract>> /\ archives' = [archives EXCEPT ![file] = Nothing]
        /\ read' = [read EXCEPT !.undisturbed = FALSE]
    BY <1>2 DEF C!Evict, C!Event, C!stored
  <2>2. ReaderInv'
    BY <2>1, Disturbs DEF ContentInv
  <2>3. DOMAIN archives' = C!Files /\ \A f \in C!Files : archives'[f] \in {Nothing, archives[f]}
    BY <2>1 DEF ContentInv, StoredInv
  <2>4. StoredInv'
    BY <2>1, <2>3 DEF ContentInv, StoredInv
  <2> QED
    BY <2>2, <2>4 DEF ContentInv
<1>3. ASSUME NEW url \in Paths \cup {Nothing}, NEW type, C!SyncRow(url, type) PROVE ContentInv'
  <2>1. /\ UNCHANGED <<metas, documents, archives, torn, extract>> /\ tdoc' = [url |-> url, type |-> type]
        /\ read' = [read EXCEPT !.undisturbed = FALSE]
    BY <1>3 DEF C!SyncRow, C!Event, C!stored
  <2> QED
    BY <2>1, Disturbs DEF ContentInv, StoredInv
<1> QED
  BY <1>1, <1>2, <1>3

\* An answer keeps what was read.
LEMMA AnswerKept ==
  ASSUME ReaderInv, NEW a, ~read.complete, read' = C!Answers(a),
         UNCHANGED <<metas, documents, archives>>
  PROVE  ReaderInv'
<1>1. DOMAIN read' = DOMAIN read /\ read'.pc = "done" /\ ~read'.complete
  BY DEF ReaderInv, C!Reader, C!Answers
<1> QED
  BY <1>1 DEF ReaderInv, MetaRead, RowsRead, MainRead

\* So does every read: what it has is what was stored, unless it was disturbed.
LEMMA ReaderKept ==
  ASSUME ContentInv,
         \/ \E url \in C!Urls \cup {tdoc.url}, source \in {"all", "main", "other"} : C!Resolve(url, source)
         \/ C!ReadMeta \/ C!ReadRows \/ C!ReadArchive \/ C!ReadLegacy \/ C!ReadCover \/ C!Select
  PROVE  ContentInv'
<1>0. UNCHANGED <<tdoc, metas, documents, archives, extract, torn>> /\ ReaderInv /\ StoredInv
  BY DEF C!Resolve, C!ReadMeta, C!ReadRows, C!ReadArchive, C!ReadLegacy, C!ReadCover, C!Select,
         C!stored, ContentInv
<1>r. DOMAIN read = {"pc", "source", "url", "type", "meta", "rows", "main", "complete", "undisturbed", "answer"}
  BY <1>0 DEF ReaderInv, C!Reader
<1> SUFFICES ReaderInv'
  BY <1>0, ReadingKept
<1>1. ASSUME NEW url \in C!Urls \cup {tdoc.url}, NEW source \in {"all", "main", "other"}, C!Resolve(url, source)
      PROVE  ReaderInv'
  <2> DEFINE type == C!StoreOf(tdoc.type)
             q == [C!Reader EXCEPT !.pc = "meta", !.source = source, !.url = url, !.type = type]
  <2>1. read.pc = "idle" /\ ~read.complete
    BY <1>0, <1>1 DEF C!Resolve, ReaderInv
  <2>2. CASE \E a : read' = C!Answers(a)
    BY <1>0, <2>1, <2>2, AnswerKept
  <2>3. CASE url # Nothing /\ read' = q
    <3>1. /\ DOMAIN read' = DOMAIN C!Reader /\ read'.pc = "meta" /\ read'.url = url /\ ~read'.complete
          /\ read'.main = Nothing
      BY <2>3 DEF C!Reader
    <3>2. url \in C!Urls
      BY <1>0, <2>3 DEF StoredInv, C!Urls
    <3> QED
      BY <3>1, <3>2 DEF ReaderInv, MetaRead, RowsRead, MainRead
  <2> QED
    BY <1>1, <2>2, <2>3 DEF C!Resolve
<1>2. CASE C!ReadMeta
  <2> DEFINE meta == metas[read.url]
  <2>1. read.pc = "meta" /\ ~read.complete /\ read.main = Nothing /\ read.url \in C!Urls
    BY <1>0, <1>2 DEF C!ReadMeta, ReaderInv
  <2>2. CASE \E a : read' = C!Answers(a)
    BY <1>0, <2>1, <2>2, AnswerKept
  <2>3. CASE read' = [read EXCEPT !.pc = "legacy", !.meta = meta]
    BY <1>0, <1>r, <2>1, <2>3 DEF ReaderInv, MetaRead, RowsRead, MainRead
  <2>4. CASE meta # Nothing /\ read' = [read EXCEPT !.pc = "rows", !.meta = meta]
    BY <1>0, <1>r, <2>1, <2>4 DEF ReaderInv, MetaRead, RowsRead, MainRead
  <2> QED
    BY <1>2, <2>2, <2>3, <2>4 DEF C!ReadMeta
<1>3. CASE C!ReadRows
  <2> DEFINE of == RowsOf(read.url, read.type)
  <2>1. /\ read.pc = "rows" /\ ~read.complete /\ read.main = Nothing /\ read.url \in C!Urls
        /\ read.undisturbed => read.meta = metas[read.url] /\ read.meta # Nothing
    BY <1>0, <1>3 DEF C!ReadRows, ReaderInv, MetaRead
  <2>2. CASE \E a : read' = C!Answers(a)
    BY <1>0, <2>1, <2>2, AnswerKept
  <2>3. CASE /\ read.meta.number = of.number /\ read.type = "CR"
             /\ read' = [read EXCEPT !.pc = IF read.source = "other" THEN "cover" ELSE "archive", !.rows = of]
    <3>1. /\ DOMAIN read' = DOMAIN read /\ read'.rows = of /\ read'.source = read.source
          /\ read'.pc = (IF read.source = "other" THEN "cover" ELSE "archive")
          /\ read'.url = read.url /\ read'.type = read.type /\ read'.meta = read.meta
          /\ read'.main = read.main /\ read'.complete = read.complete /\ read'.undisturbed = read.undisturbed
      BY <1>r, <2>3
    <3>2. RowsOf(read.url, read.type)' = of
      BY <1>0, <3>1 DEF RowsOf
    <3>3. /\ read'.pc \in {"archive", "cover"} /\ read'.main = Nothing
          /\ read'.pc = "cover" => read'.source = "other"
      BY <2>1, <3>1
    <3> QED
      BY <1>0, <2>1, <2>3, <3>1, <3>2, <3>3 DEF ReaderInv, MetaRead, RowsRead, MainRead
  <2>4. CASE /\ read.meta.number = of.number /\ read.type # "CR"
             /\ read' = [read EXCEPT !.pc = "select", !.rows = of,
                           !.complete = read.meta.format = 2 /\ ~ read.meta.skipped /\ of.number > 0]
    <3>1. /\ DOMAIN read' = DOMAIN read /\ read'.rows = of /\ read'.source = read.source
          /\ read'.pc = "select" /\ (read'.complete => read.meta.format = 2)
          /\ read'.url = read.url /\ read'.type = read.type /\ read'.meta = read.meta
          /\ read'.main = read.main /\ read'.undisturbed = read.undisturbed
      BY <1>r, <2>4
    <3>2. RowsOf(read.url, read.type)' = of
      BY <1>0, <3>1 DEF RowsOf
    <3> QED
      BY <1>0, <2>1, <2>4, <3>1, <3>2 DEF ReaderInv, MetaRead, RowsRead, MainRead
  <2> QED
    BY <1>3, <2>2, <2>3, <2>4 DEF C!ReadRows, RowsOf
<1>4. CASE C!ReadArchive
  <2> DEFINE file == archives[read.meta.file]
  <2>1. read.pc = "archive" /\ ~read.complete /\ read.url \in C!Urls
    BY <1>0, <1>4 DEF C!ReadArchive, ReaderInv
  <2>2. CASE \E a : read' = C!Answers(a)
    BY <1>0, <2>1, <2>2, AnswerKept
  <2>3. CASE C!MainOf(file, read.url) /\ read' = [read EXCEPT !.pc = "cover", !.main = file]
    <3>1. /\ DOMAIN read' = DOMAIN read /\ read'.rows = read.rows /\ read'.source = read.source
          /\ read'.pc = "cover" /\ read'.complete = read.complete /\ read'.main = file
          /\ read'.url = read.url /\ read'.type = read.type /\ read'.meta = read.meta
          /\ read'.undisturbed = read.undisturbed
      BY <1>r, <2>3
    <3>2. RowsOf(read.url, read.type)' = RowsOf(read.url, read.type) /\ archives' = archives /\ metas' = metas
      BY <1>0, <3>1 DEF RowsOf
    <3>3. file # Nothing /\ file.url = read.url
      BY <2>3 DEF C!MainOf
    <3> QED
      BY <1>0, <2>1, <3>1, <3>2, <3>3 DEF ReaderInv, MetaRead, RowsRead, MainRead
  <2> QED
    BY <1>4, <2>2, <2>3 DEF C!ReadArchive
<1>5. CASE C!ReadLegacy
  <2> DEFINE file == archives[read.meta.file]
  <2>1. read.pc = "legacy" /\ ~read.complete /\ read.url \in C!Urls
    BY <1>0, <1>5 DEF C!ReadLegacy, ReaderInv
  <2>2. CASE \E a : read' = C!Answers(a)
    BY <1>0, <2>1, <2>2, AnswerKept
  <2>3. CASE read' = [read EXCEPT !.pc = "select", !.main = file]
    BY <1>0, <1>r, <2>1, <2>3 DEF ReaderInv, MetaRead, RowsRead, MainRead
  <2> QED
    BY <1>5, <2>2, <2>3 DEF C!ReadLegacy
<1>6. CASE C!ReadCover
  <2>1. read.pc = "cover" /\ ~read.complete /\ read.url \in C!Urls
    BY <1>0, <1>6 DEF C!ReadCover, ReaderInv
  <2>2. read' = [read EXCEPT !.pc = "select",
                   !.complete = covers[read.url] /\ read.meta.format = 2 /\ ~ read.meta.skipped]
    BY <1>6 DEF C!ReadCover
  <2>3. /\ DOMAIN read' = DOMAIN read /\ read'.rows = read.rows /\ read'.source = read.source
        /\ read'.pc = "select" /\ (read'.complete => read.meta.format = 2) /\ read'.main = read.main
        /\ read'.url = read.url /\ read'.type = read.type /\ read'.meta = read.meta
        /\ read'.undisturbed = read.undisturbed
    BY <1>r, <2>2
  <2>4. RowsOf(read.url, read.type)' = RowsOf(read.url, read.type) /\ archives' = archives /\ metas' = metas
    BY <1>0, <2>3 DEF RowsOf
  <2> QED
    BY <1>0, <2>1, <2>3, <2>4 DEF ReaderInv, MetaRead, RowsRead, MainRead
<1>7. CASE C!Select
  <2>1. /\ read.pc = "select" /\ DOMAIN read' = DOMAIN read /\ read'.pc = "done" /\ read'.rows = read.rows
        /\ read'.source = read.source /\ read'.complete = read.complete /\ read'.main = read.main
        /\ read'.url = read.url /\ read'.type = read.type /\ read'.meta = read.meta
        /\ read'.undisturbed = read.undisturbed
    BY <1>r, <1>7 DEF C!Select, C!Answers
  <2>2. RowsOf(read.url, read.type)' = RowsOf(read.url, read.type) /\ archives' = archives /\ metas' = metas
    BY <1>0, <2>1 DEF RowsOf
  <2> QED
    BY <1>0, <2>1, <2>2 DEF ReaderInv, MetaRead, RowsRead, MainRead
<1> QED
  BY <1>1, <1>2, <1>3, <1>4, <1>5, <1>6, <1>7

\* ContentInv is inductive.
LEMMA ContentKept == ContentInv /\ [C!Next]_(C!vars) => ContentInv'
<1> SUFFICES ASSUME ContentInv, [C!Next]_(C!vars) PROVE ContentInv'
  OBVIOUS
<1>1. CASE UNCHANGED C!vars
  <2>1. UNCHANGED <<tdoc, metas, documents, archives, extract, torn, read>>
    BY <1>1 DEF C!vars, C!stored
  <2>2. ReaderInv'
    BY <2>1 DEF ContentInv, ReaderInv, MetaRead, RowsRead, MainRead, RowsOf
  <2> QED
    BY <2>1, <2>2, ReadingKept
<1>2. ASSUME NEW path \in Paths, NEW url \in C!Urls, NEW version \in 1..MaxVersion, NEW store \in {"CR", "WID"},
             \/ C!WriteArchive("id", path, url, version, store)
             \/ C!WriteArchive("url", path, url, version, store)
      PROVE  ContentInv'
  BY <1>2, WriteArchiveKept
<1> QED
  BY <1>1, <1>2, StoreBundleKept, OtherStoresKept, ReaderKept DEF C!Next

----------------------------------------------------------------------------
(* Searches: the window that is matched is the beginning of the index when nobody has
   written since the question, and a process without a full-text service is one that
   has no text table.                                                          *)

SearchInv ==
  /\ index \in Seq(Tdocs)
  /\ request \in [pc : {"idle", "rows", "text", "semantic", "knn", "match"}, mode : S!Modes,
                  fetch : Nat, window : Seq(Tdocs), quiet : BOOLEAN]
  /\ request.fetch <= MaxK
  /\ DOMAIN built = {"text", "vector"} /\ (built.text = "none" => "text" \notin tables)
  /\ request.mode = "text" => request.pc \in {"idle", "text"}
  /\ request.mode = "filter" => request.pc \in {"idle", "rows"}
  /\ request.pc = "match" /\ request.quiet =>
       request.window = SubSeq(index, 1, S!Least(request.fetch, Len(index)))

\* The instance counts as the module does.
LEMMA SearchCardinality == \A X : S!Cardinality(X) = Cardinality(X)
  BY DEF S!Cardinality, Cardinality

\* The places of a window that are kept, and those of the nearest chunks.
LEMMA PlacesOf ==
  ASSUME NEW s \in Seq(Tdocs)
  PROVE  /\ Len(s) \in Nat /\ DOMAIN s = 1 .. Len(s) /\ \A i \in 1 .. Len(s) : s[i] \in Tdocs
         /\ S!Nearest(s) \subseteq S!Kept(s) /\ S!Kept(s) \subseteq 1 .. Len(s)
         /\ S!Nearest(s) \subseteq Nat /\ S!Kept(s) \subseteq Nat
         /\ IsFiniteSet(S!Kept(s)) /\ IsFiniteSet(S!Nearest(s))
         /\ Cardinality(S!Nearest(s)) \in Nat
<1>1. Len(s) \in Nat /\ DOMAIN s = 1 .. Len(s) /\ \A i \in 1 .. Len(s) : s[i] \in Tdocs
  OBVIOUS
<1>2. S!Nearest(s) \subseteq S!Kept(s) /\ S!Kept(s) \subseteq 1 .. Len(s)
  BY <1>1 DEF S!Nearest, S!Kept
<1>3. IsFiniteSet(1 .. Len(s))
  BY <1>1, FS_Interval
<1>4. IsFiniteSet(S!Kept(s)) /\ IsFiniteSet(S!Nearest(s))
  BY <1>2, <1>3, FS_Subset
<1> QED
  BY <1>1, <1>2, <1>4, FS_CardinalityType

\* Each TDoc that passes has one nearest chunk.
LEMMA AsManyNearest ==
  ASSUME NEW s \in Seq(Tdocs)
  PROVE  Cardinality(S!Distinct(s, S!Kept(s))) <= Cardinality(S!Nearest(s))
<1> DEFINE X == S!Nearest(s)
           Y == S!Distinct(s, S!Kept(s))
           f == [i \in X |-> s[i]]
<1>1. ASSUME NEW t \in Y PROVE \E i \in X : s[i] = t
  <2> DEFINE P == {i \in S!Kept(s) : s[i] = t}
  <2>1. P # {} /\ P \subseteq Nat
    BY PlacesOf DEF S!Distinct
  <2>2. PICK m \in P : \A n \in P : m <= n
    BY <2>1, HasLeast
  <2>3. m \in S!Kept(s) /\ m \in 1 .. Len(s) /\ s[m] \in passing /\ Len(s) \in Nat /\ s[m] = t
    BY <2>2, PlacesOf DEF S!Kept
  <2>4. ASSUME NEW j \in 1 .. (m - 1), s[j] = s[m] PROVE FALSE
    <3>1. j \in DOMAIN s /\ ~ (m <= j)
      BY <2>3
    <3>2. j \in P
      BY <3>1, <2>3, <2>4 DEF S!Kept
    <3> QED
      BY <3>1, <3>2, <2>2
  <2>5. m \in X
    BY <2>3, <2>4 DEF S!Nearest
  <2> QED
    BY <2>3, <2>5
<1>2. \A i \in X : s[i] \in Y
  BY PlacesOf DEF S!Distinct
<1>3. f \in Surjection(X, Y)
  BY <1>1, <1>2 DEF Surjection
<1>4. IsFiniteSet(X)
  BY PlacesOf
<1> QED
  BY <1>3, <1>4, FS_Surjection

\* A window that shows enough TDocs ranks the same of them first as a longer one.
LEMMA EnoughIsEnough ==
  ASSUME NEW s \in Seq(Tdocs), NEW short \in 0 .. Len(s), NEW long \in short .. Len(s),
         Cardinality(S!Distinct(SubSeq(s, 1, short), S!Kept(SubSeq(s, 1, short)))) >= Limit
  PROVE  S!Ranked(SubSeq(s, 1, short)) = S!Ranked(SubSeq(s, 1, long))
<1> DEFINE v == SubSeq(s, 1, short)
           w == SubSeq(s, 1, long)
           X == S!Nearest(v)
           Y == S!Nearest(w)
<1>0. Limit \in Nat /\ short \in Nat /\ long \in Nat /\ short <= long /\ Len(s) \in Nat
  BY SearchReach
<1>1. /\ v \in Seq(Tdocs) /\ Len(v) = short /\ \A i \in 1 .. short : v[i] = s[i]
      /\ w \in Seq(Tdocs) /\ Len(w) = long /\ \A i \in 1 .. long : w[i] = s[i]
  BY <1>0, SubSeqProperties
<1>2. X = {i \in Y : i <= short} /\ \A i \in X : i \in 1 .. short /\ i \in 1 .. long
  <2>1. \A i : i \in X <=> /\ i \in 1 .. short /\ s[i] \in passing
                           /\ \A j \in 1 .. (i - 1) : s[j] # s[i]
    BY <1>0, <1>1 DEF S!Nearest, S!Kept
  <2>2. \A i : i \in Y <=> /\ i \in 1 .. long /\ s[i] \in passing
                           /\ \A j \in 1 .. (i - 1) : s[j] # s[i]
    BY <1>0, <1>1 DEF S!Nearest, S!Kept
  <2>3. \A i : i \in 1 .. short <=> i \in 1 .. long /\ i <= short
    BY <1>0
  <2>4. \A i \in X : i \in 1 .. short /\ i \in 1 .. long
    BY <2>1, <2>3
  <2> QED
    BY <2>1, <2>2, <2>3, <2>4
<1>3. /\ X \subseteq Y /\ X \subseteq Nat /\ Y \subseteq Nat /\ IsFiniteSet(X) /\ IsFiniteSet(Y)
      /\ Cardinality(X) \in Nat /\ Cardinality(Y) \in Nat
  BY <1>1, <1>2, PlacesOf
<1>4. Cardinality(X) >= Limit /\ Cardinality(Y) >= Limit
  <2>1. Cardinality(S!Distinct(v, S!Kept(v))) <= Cardinality(X)
    BY <1>1, AsManyNearest
  <2>2. S!Distinct(v, S!Kept(v)) = {v[i] : i \in S!Kept(v)} /\ IsFiniteSet(S!Kept(v))
    BY <1>1, PlacesOf DEF S!Distinct
  <2>3. IsFiniteSet({v[i] : i \in S!Kept(v)})
    <3> DEFINE g == [i \in S!Kept(v) |-> v[i]]
    <3>1. g \in Surjection(S!Kept(v), {v[i] : i \in S!Kept(v)})
      BY DEF Surjection
    <3> HIDE DEF g
    <3> QED
      BY <3>1, <2>2, FS_Surjection
  <2>4. Cardinality(S!Distinct(v, S!Kept(v))) \in Nat
    BY <2>2, <2>3, FS_CardinalityType
  <2>5. Cardinality(X) <= Cardinality(Y)
    BY <1>3, FS_Subset
  <2> QED
    BY <2>1, <2>4, <2>5, <1>0, <1>3
<1>5. S!Least(Limit, Cardinality(X)) = Limit /\ S!Least(Limit, Cardinality(Y)) = Limit
  BY <1>4, <1>3, <1>0 DEF S!Least
<1>6. \A i \in X : RankIn(TRUE, X, i) = RankIn(TRUE, Y, i)
  <2> SUFFICES ASSUME NEW i \in X PROVE {j \in X : j <= i} = {j \in Y : j <= i}
    BY DEF RankIn, Upto, Ahead
  <2>1. i <= short /\ i \in Nat /\ \A j \in Y : j \in Nat
    BY <1>2, <1>3
  <2>2. \A j \in Y : j <= i => j <= short
    BY <2>1, <1>0
  <2> QED
    BY <2>2, <1>2, <1>3
<1>7. ASSUME NEW r \in 1 .. Limit
      PROVE  v[CHOOSE i \in X : S!Rank(X, i) = r] = w[CHOOSE i \in Y : S!Rank(Y, i) = r]
  <2>1. r \in 1 .. Cardinality(X)
    BY <1>4, <1>3, <1>0
  <2>2. PICK i \in X : RankIn(TRUE, X, i) = r
    BY <2>1, <1>3, RankIsOfSome
  <2>3. i \in Y /\ RankIn(TRUE, Y, i) = r
    BY <2>2, <1>6, <1>3
  <2>4. \A j \in X : RankIn(TRUE, X, j) = r => j = i
    BY <2>2, <1>3, RankIsOfOne
  <2>5. \A j \in Y : RankIn(TRUE, Y, j) = r => j = i
    BY <2>3, <1>3, RankIsOfOne
  <2>6. (CHOOSE k \in X : S!Rank(X, k) = r) = i
    <3>1. \A k \in X : S!Rank(X, k) = RankIn(TRUE, X, k)
      BY SearchCardinality DEF RankIn, Upto, Ahead, S!Rank
    <3>2. \A k \in X : S!Rank(X, k) = r <=> k = i
      BY <2>2, <2>4, <3>1
    <3> QED
      BY <3>2
  <2>7. (CHOOSE k \in Y : S!Rank(Y, k) = r) = i
    <3>1. \A k \in Y : S!Rank(Y, k) = RankIn(TRUE, Y, k)
      BY SearchCardinality DEF RankIn, Upto, Ahead, S!Rank
    <3>2. \A k \in Y : S!Rank(Y, k) = r <=> k = i
      BY <2>3, <2>5, <3>1
    <3> QED
      BY <3>2, <2>3
  <2>8. i \in 1 .. short /\ i \in 1 .. long
    BY <2>2, <1>2
  <2> QED
    BY <2>6, <2>7, <2>8, <1>1
<1>8. S!Picked(v, X, Limit) = S!Picked(w, Y, Limit)
  <2> DEFINE a(r) == v[CHOOSE i \in X : S!Rank(X, i) = r]
             b(r) == w[CHOOSE i \in Y : S!Rank(Y, i) = r]
  <2>1. \A r \in 1 .. Limit : a(r) = b(r)
    BY <1>7
  <2>2. S!Picked(v, X, Limit) = [r \in 1 .. Limit |-> a(r)] /\ S!Picked(w, Y, Limit) = [r \in 1 .. Limit |-> b(r)]
    BY DEF S!Picked
  <2> HIDE DEF a, b
  <2> QED
    BY <2>1, <2>2
<1>9. /\ S!Ranked(v) = S!Picked(v, X, S!Least(Limit, Cardinality(X)))
      /\ S!Ranked(w) = S!Picked(w, Y, S!Least(Limit, Cardinality(Y)))
  BY SearchCardinality DEF S!Ranked
<1> QED
  BY <1>5, <1>8, <1>9

\* The lesser of two numbers.
LEMMA LeastOf ==
  ASSUME NEW a \in Nat, NEW b \in Nat
  PROVE  S!Least(a, b) \in Nat /\ S!Least(a, b) <= a /\ S!Least(a, b) <= b
         /\ (a <= b => S!Least(a, b) = a) /\ (b <= a => S!Least(a, b) = b)
  BY DEF S!Least

\* Both are the beginning of the index: the window, and all that it reaches.
LEMMA WindowOrReach ==
  ASSUME NEW s \in Seq(Tdocs), NEW k \in Nat, k <= MaxK,
         NEW v, v = SubSeq(s, 1, S!Least(k, Len(s))),
         \/ Cardinality(S!Distinct(v, S!Kept(v))) >= Limit
         \/ Len(v) < k \/ k >= MaxK
  PROVE  S!Ranked(v) = S!Ranked(SubSeq(s, 1, S!Least(MaxK, Len(s))))
<1>1. Len(s) \in Nat /\ MaxK \in Nat
  BY SearchReach
<1> DEFINE a == S!Least(k, Len(s))
           b == S!Least(MaxK, Len(s))
<1>2. a \in 0 .. Len(s) /\ b \in a .. Len(s)
  BY <1>1 DEF S!Least
<1>3. CASE Cardinality(S!Distinct(v, S!Kept(v))) >= Limit
  BY <1>2, <1>3, EnoughIsEnough
<1>4. CASE Len(v) < k
  <2>1. Len(v) = a
    BY <1>1, <1>2, SubSeqProperties
  <2>2. a = b
    BY <1>1, <1>4, <2>1 DEF S!Least
  <2> QED
    BY <2>2
<1>5. CASE k >= MaxK
  <2>1. k = MaxK
    BY <1>1, <1>5
  <2> QED
    BY <2>1
<1> QED
  BY <1>3, <1>4, <1>5

\* Before the first search there is no window.
LEMMA SearchBegins == S!Init => SearchInv
<1> SUFFICES ASSUME S!Init PROVE SearchInv
  OBVIOUS
<1>1. /\ index \in S!SeqsUpTo(MaxChunks) /\ request = S!Idle
      /\ built = [text |-> "unbuilt", vector |-> "unbuilt"]
  BY DEF S!Init
<1>2. index \in Seq(Tdocs)
  <2>1. PICK k \in 0 .. MaxChunks : index \in [1 .. k -> Tdocs]
    BY <1>1 DEF S!SeqsUpTo
  <2>2. k \in Nat
    BY SearchReach
  <2> QED
    BY <2>1, <2>2 DEF Seq
<1>3. <<>> \in Seq(Tdocs) /\ MaxK \in Nat
  BY SearchReach
<1> QED
  BY <1>1, <1>2, <1>3 DEF SearchInv, S!Idle, S!Modes

\* What Write leaves of the index is one.
LEMMA WithoutIsIndex ==
  ASSUME NEW s \in Seq(Tdocs), NEW t
  PROVE  S!Without(s, t) \in Seq(Tdocs)
<1> DEFINE X == {i \in DOMAIN s : s[i] # t}
           n == Cardinality(X)
<1>1. Len(s) \in Nat /\ DOMAIN s = 1 .. Len(s) /\ \A i \in 1 .. Len(s) : s[i] \in Tdocs
  OBVIOUS
<1>2. X \subseteq 1 .. Len(s) /\ IsFiniteSet(1 .. Len(s))
  BY <1>1, FS_Interval
<1>3. IsFiniteSet(X) /\ X \subseteq Nat /\ n \in Nat
  BY <1>1, <1>2, FS_Subset, FS_CardinalityType
<1>4. ASSUME NEW r \in 1 .. n PROVE s[CHOOSE i \in X : S!Rank(X, i) = r] \in Tdocs
  <2>1. \E i \in X : RankIn(TRUE, X, i) = r
    BY <1>3, RankIsOfSome
  <2>2. \E i \in X : S!Rank(X, i) = r
    BY <2>1, SearchCardinality DEF RankIn, Upto, Ahead, S!Rank
  <2>3. (CHOOSE i \in X : S!Rank(X, i) = r) \in X
    BY <2>2
  <2> QED
    BY <2>3, <1>2, <1>1
<1>5. S!Without(s, t) = [r \in 1 .. n |-> s[CHOOSE i \in X : S!Rank(X, i) = r]]
  BY SearchCardinality DEF S!Without, S!Picked
<1>6. S!Without(s, t) \in [1 .. n -> Tdocs]
  BY <1>4, <1>5
<1>7. \A k \in Nat : \A f \in [1 .. k -> Tdocs] : f \in Seq(Tdocs)
  BY DEF Seq
<1> QED
  BY <1>3, <1>6, <1>7

\* SearchInv is inductive.
LEMMA SearchKept == SearchInv /\ [S!Next]_(S!vars) => SearchInv'
<1> SUFFICES ASSUME SearchInv, [S!Next]_(S!vars) PROVE SearchInv'
  OBVIOUS
<1> USE DEF SearchInv
<1>0. /\ MaxK \in Nat /\ Limit \in Nat /\ Fanout \in Nat /\ <<>> \in Seq(Tdocs)
      /\ Len(index) \in Nat
  BY SearchReach
<1>1. CASE UNCHANGED S!vars
  BY <1>1 DEF S!vars
\* A reply leaves nothing to say of the request.
<1>r. ASSUME request' = S!Idle, index' \in Seq(Tdocs), DOMAIN built' = {"text", "vector"},
             built'.text = "none" => "text" \notin tables'
      PROVE  SearchInv'
  BY <1>r, <1>0 DEF S!Idle, S!Modes
<1>2. ASSUME NEW mode \in S!Modes, S!Ask(mode) PROVE SearchInv'
  <2>1. PICK pc \in {"rows", "text", "semantic"} :
          /\ request' = [pc |-> pc, mode |-> mode, fetch |-> 0, window |-> <<>>, quiet |-> TRUE]
          /\ mode = "text" => pc = "text"
          /\ mode = "filter" => pc = "rows"
    <3> DEFINE q == IF mode = "filter" THEN "rows" ELSE IF mode = "text" THEN "text" ELSE "semantic"
    <3>1. request' = [pc |-> q, mode |-> mode, fetch |-> 0, window |-> <<>>, quiet |-> TRUE]
      BY <1>2 DEF S!Ask, S!Idle
    <3>2. /\ q \in {"rows", "text", "semantic"}
          /\ mode = "text" => q = "text"
          /\ mode = "filter" => q = "rows"
      OBVIOUS
    <3> QED
      BY <3>1, <3>2
  <2>2. UNCHANGED <<index, tables, built>>
    BY <1>2 DEF S!Ask, S!world
  <2> QED
    BY <2>1, <2>2, <1>0
<1>3. CASE S!Rows
  BY <1>0, <1>3 DEF S!Rows, S!Reply, S!Idle, S!world, S!Modes
<1>4. CASE S!BuildText
  <2>1. UNCHANGED <<index, tables>> /\ ((request' = S!Idle /\ UNCHANGED built) \/ UNCHANGED request)
        /\ DOMAIN built' = {"text", "vector"} /\ (built'.text = "none" => "text" \notin tables)
    BY <1>4 DEF S!BuildText, S!Reply, S!world
  <2>2. CASE request' = S!Idle
    BY <2>1, <2>2, <1>r
  <2>3. CASE UNCHANGED request
    BY <2>1, <2>3
  <2> QED
    BY <2>1, <2>2, <2>3
<1>5. CASE S!BuildSemantic
  BY <1>0, <1>5 DEF S!BuildSemantic, S!world
<1>6. CASE S!SearchText
  <2>1. /\ UNCHANGED <<index, tables, built>>
        /\ \/ request' = S!Idle
           \/ request.pc = "text" /\ request.mode # "text" /\ request' = [request EXCEPT !.pc = "knn"]
    BY <1>6 DEF S!SearchText, S!Reply, S!Goto, S!At, S!world
  <2>2. CASE request' = S!Idle
    BY <2>1, <2>2, <1>r
  <2>3. CASE request.pc = "text" /\ request.mode # "text" /\ request' = [request EXCEPT !.pc = "knn"]
    BY <2>1, <2>3
  <2> QED
    BY <2>1, <2>2, <2>3
<1>7. CASE S!Encode
  <2>1. Limit * Fanout \in Nat
    BY <1>0
  <2>2. S!Most(Limit * Fanout, Limit) \in Nat
    BY <2>1, <1>0 DEF S!Most
  <2>3. S!Least(S!Most(Limit * Fanout, Limit), MaxK) \in Nat
        /\ S!Least(S!Most(Limit * Fanout, Limit), MaxK) <= MaxK
    BY <2>2, <1>0, LeastOf
  <2>4. UNCHANGED <<index, tables, built>> /\ request.pc = "semantic"
    BY <1>7 DEF S!Encode, S!At, S!world
  <2>5. CASE request' = S!Idle
    BY <2>4, <2>5, <1>r
  <2>6. CASE request' # S!Idle
    <3> DEFINE k == S!Least(S!Most(Limit * Fanout, Limit), MaxK)
    <3>1. PICK pc \in {"text", "knn"} : request' = [request EXCEPT !.pc = pc, !.fetch = k]
                                       /\ (pc = "text" => request.mode = "hybrid")
      <4>1. request' = [request EXCEPT !.pc = IF request.mode = "hybrid" THEN "text" ELSE "knn", !.fetch = k]
        BY <1>7, <2>6 DEF S!Encode, S!Reply
      <4> QED
        BY <4>1
    <3> HIDE DEF k
    <3>2. k \in Nat /\ k <= MaxK
      BY <2>3 DEF k
    <3> QED
      BY <2>4, <3>1, <3>2
  <2> QED
    BY <2>5, <2>6
<1>8. CASE S!Knn
  <2>1. S!Least(request.fetch, Len(index)) \in Nat /\ S!Least(request.fetch, Len(index)) <= Len(index)
    BY <1>0, LeastOf
  <2>2. SubSeq(index, 1, S!Least(request.fetch, Len(index))) \in Seq(Tdocs)
    BY <2>1, <1>0, SubSeqProperties
  <2> QED
    BY <2>2, <1>0, <1>8 DEF S!Knn, S!At, S!world, S!Modes
<1>9. CASE S!Match
  <2>1. S!Least(2 * request.fetch, MaxK) \in Nat /\ S!Least(2 * request.fetch, MaxK) <= MaxK
    <3>1. request.fetch \in Nat
      OBVIOUS
    <3>2. 2 * request.fetch \in Nat
      BY <3>1
    <3> QED
      BY <3>2, <1>0, LeastOf
  <2>2. UNCHANGED <<index, tables, built>> /\ request.pc = "match"
    BY <1>9 DEF S!Match, S!At, S!world
  <2>3. CASE request' = S!Idle
    BY <2>2, <2>3, <1>r
  <2>4. CASE request' # S!Idle
    <3> DEFINE k == S!Least(2 * request.fetch, MaxK)
    <3>1. request' = [request EXCEPT !.pc = "knn", !.fetch = k]
      BY <1>9, <2>4 DEF S!Match, S!Reply
    <3> HIDE DEF k
    <3>2. k \in Nat /\ k <= MaxK
      BY <2>1 DEF k
    <3> QED
      BY <2>2, <3>1, <3>2
  <2> QED
    BY <2>3, <2>4
<1>10. CASE S!Turn
  BY <1>10 DEF S!Turn
<1>11. CASE S!Write
  <2>1. index' \in Seq(Tdocs)
    <3>1. PICK t \in Tdocs : index' = S!Without(index, t) \/ index' = <<t>> \o index \/ index' = index
      BY <1>11 DEF S!Write
    <3>2. <<t>> \in Seq(Tdocs)
      OBVIOUS
    <3>3. <<t>> \o index \in Seq(Tdocs)
      BY <3>2, ConcatProperties
    <3>4. S!Without(index, t) \in Seq(Tdocs)
      BY WithoutIsIndex
    <3> QED
      BY <3>1, <3>3, <3>4
  <2> QED
    BY <2>1, <1>11 DEF S!Write, S!Disturbed
<1>12. CASE S!Restart
  BY <1>12 DEF S!Restart
<1> QED
  BY <1>1, <1>2, <1>3, <1>4, <1>5, <1>6, <1>7, <1>8, <1>9, <1>10, <1>11, <1>12 DEF S!Next

\* A step that answers has found enough, or all there is.
LEMMA SearchAnswersStep == SearchInv /\ [S!Next]_(S!vars) => ~ S!FallsShort
<1> SUFFICES ASSUME SearchInv, [S!Next]_(S!vars), S!FallsShort PROVE FALSE
  OBVIOUS
<1>1. /\ request.pc # "idle" /\ request'.pc = "idle"
      /\ \/ request.mode \in {"text", "filter"} /\ answer'.verdict = "unavailable" /\ "text" \in tables
         \/ /\ request.pc = "match" /\ request.mode = "semantic" /\ request.quiet
            /\ answer'.found # S!Ranked(SubSeq(index, 1, S!Least(MaxK, Len(index))))
  BY DEF S!FallsShort, S!At
<1>2. S!Rows \/ S!BuildText \/ S!SearchText \/ S!Encode \/ S!Match
  <2>1. S!Next
    BY <1>1 DEF S!vars
  <2>2. \A mode \in S!Modes : ~ S!Ask(mode)
    BY <1>1 DEF S!Ask, S!At
  <2>3. ~ S!BuildSemantic /\ ~ S!Turn /\ ~ S!Restart
    BY <1>1 DEF S!BuildSemantic, S!Turn, S!Restart, S!At
  <2>4. ~ S!Write
    BY <1>1 DEF S!Write, S!Disturbed, SearchInv
  <2>5. ~ S!Knn
    BY <1>1 DEF S!Knn, SearchInv
  <2> QED
    BY <2>1, <2>2, <2>3, <2>4, <2>5 DEF S!Next
<1>3. CASE request.pc # "match"
  <2>1. request.mode \in {"text", "filter"} /\ answer'.verdict = "unavailable" /\ "text" \in tables
    BY <1>1, <1>3
  <2>2. ~ S!Rows /\ ~ S!BuildText
    BY <1>1, <2>1 DEF S!Rows, S!BuildText, S!Reply, S!At
  <2>3. ~ S!SearchText
    BY <1>1, <2>1 DEF S!SearchText, S!Reply, S!At, S!Goto, SearchInv
  <2>4. ~ S!Encode
    BY <2>1 DEF S!Encode, S!At, SearchInv
  <2>5. ~ S!Match
    BY <1>3 DEF S!Match, S!At
  <2> QED
    BY <1>2, <2>2, <2>3, <2>4, <2>5
<1>4. CASE request.pc = "match"
  <2>1. request.mode = "semantic" /\ request.quiet
        /\ answer'.found # S!Ranked(SubSeq(index, 1, S!Least(MaxK, Len(index))))
    BY <1>1, <1>4 DEF SearchInv
  <2>2. S!Match
    BY <1>2, <1>4 DEF S!Rows, S!BuildText, S!SearchText, S!Encode, S!At
  <2>3. S!Enough /\ answer'.found = S!Ranked(request.window)
    <3>1. CASE S!Enough
      BY <2>2, <3>1 DEF S!Match, S!Reply
    <3>2. CASE ~ S!Enough
      <4>1. request' = [request EXCEPT !.pc = "knn", !.fetch = S!Least(2 * @, MaxK)]
        BY <2>2, <3>2 DEF S!Match
      <4> QED
        BY <4>1, <1>1 DEF SearchInv
    <3> QED
      BY <3>1, <3>2
  <2>4. /\ request.fetch \in Nat /\ request.fetch <= MaxK /\ index \in Seq(Tdocs)
        /\ request.window = SubSeq(index, 1, S!Least(request.fetch, Len(index)))
    BY <1>4, <2>1 DEF SearchInv
  <2>5. \/ Cardinality(S!Distinct(request.window, S!Kept(request.window))) >= Limit
        \/ Len(request.window) < request.fetch \/ request.fetch >= MaxK
    BY <2>3, SearchCardinality DEF S!Enough
  <2> QED
    BY <2>1, <2>3, <2>4, <2>5, WindowOrReach
<1> QED
  BY <1>3, <1>4

----------------------------------------------------------------------------
(* Both doors: whatever is true, they give the same answer at once; and no fact is
   looked at twice by a handler that looks for what is needed.                  *)

\* What a concatenation is, told by its elements.
LEMMA CatIs ==
  ASSUME NEW Els, NEW s \in Seq(Els), NEW t \in Seq(Els), NEW u \in Seq(Els), Len(u) = Len(s) + Len(t),
         \A i \in 1 .. Len(s) : u[i] = s[i],
         \A i \in 1 .. Len(t) : u[Len(s) + i] = t[i]
  PROVE  s \o t = u
<1>1. /\ s \o t \in Seq(Els) /\ Len(s \o t) = Len(u)
      /\ Len(s) \in Nat /\ Len(t) \in Nat
      /\ \A i \in 1 .. Len(u) : (s \o t)[i] = IF i <= Len(s) THEN s[i] ELSE t[i - Len(s)]
  BY ConcatProperties
<1>2. ASSUME NEW i \in 1 .. Len(u) PROVE (s \o t)[i] = u[i]
  <2>1. CASE i <= Len(s)
    BY <1>1, <2>1
  <2>2. CASE ~ (i <= Len(s))
    <3>1. i - Len(s) \in 1 .. Len(t) /\ Len(s) + (i - Len(s)) = i
      BY <1>1, <2>2
    <3> QED
      BY <3>1, <1>1, <2>2
  <2> QED
    BY <2>1, <2>2
<1> QED
  BY <1>1, <1>2, SeqEqual


\* The concatenations that handlers are made of.
LEMMA Cat13 ==
  ASSUME NEW a, NEW b, NEW c, NEW d
  PROVE  <<a>> \o <<b, c, d>> = <<a, b, c, d>>
<1> DEFINE Els == {a, b, c, d}
           s == <<a>>
           t == <<b, c, d>>
           u == <<a, b, c, d>>
<1>1. s \in Seq(Els) /\ t \in Seq(Els) /\ u \in Seq(Els) /\ Len(s) = 1 /\ Len(t) = 3 /\ Len(u) = 4
  OBVIOUS
<1>2. (\A i \in 1 .. 1 : u[i] = s[i]) /\ \A i \in 1 .. 3 : u[1 + i] = t[i]
  OBVIOUS
<1> HIDE DEF Els, s, t, u
<1>3. Len(u) = Len(s) + Len(t) /\ (\A i \in 1 .. Len(s) : u[i] = s[i]) /\ \A i \in 1 .. Len(t) : u[Len(s) + i] = t[i]
  BY <1>1, <1>2
<1>4. s \o t = u
  BY <1>1, <1>3, CatIs
<1> QED
  BY <1>4 DEF s, t, u

LEMMA Cat14 ==
  ASSUME NEW a, NEW b, NEW c, NEW d, NEW e
  PROVE  <<a>> \o <<b, c, d, e>> = <<a, b, c, d, e>>
<1> DEFINE Els == {a, b, c, d, e}
           s == <<a>>
           t == <<b, c, d, e>>
           u == <<a, b, c, d, e>>
<1>1. s \in Seq(Els) /\ t \in Seq(Els) /\ u \in Seq(Els) /\ Len(s) = 1 /\ Len(t) = 4 /\ Len(u) = 5
  OBVIOUS
<1>2. (\A i \in 1 .. 1 : u[i] = s[i]) /\ \A i \in 1 .. 4 : u[1 + i] = t[i]
  OBVIOUS
<1> HIDE DEF Els, s, t, u
<1>3. Len(u) = Len(s) + Len(t) /\ (\A i \in 1 .. Len(s) : u[i] = s[i]) /\ \A i \in 1 .. Len(t) : u[Len(s) + i] = t[i]
  BY <1>1, <1>2
<1>4. s \o t = u
  BY <1>1, <1>3, CatIs
<1> QED
  BY <1>4 DEF s, t, u

LEMMA Cat15 ==
  ASSUME NEW a, NEW b, NEW c, NEW d, NEW e, NEW f
  PROVE  <<a>> \o <<b, c, d, e, f>> = <<a, b, c, d, e, f>>
<1> DEFINE Els == {a, b, c, d, e, f}
           s == <<a>>
           t == <<b, c, d, e, f>>
           u == <<a, b, c, d, e, f>>
<1>1. s \in Seq(Els) /\ t \in Seq(Els) /\ u \in Seq(Els) /\ Len(s) = 1 /\ Len(t) = 5 /\ Len(u) = 6
  OBVIOUS
<1>2. (\A i \in 1 .. 1 : u[i] = s[i]) /\ \A i \in 1 .. 5 : u[1 + i] = t[i]
  OBVIOUS
<1> HIDE DEF Els, s, t, u
<1>3. Len(u) = Len(s) + Len(t) /\ (\A i \in 1 .. Len(s) : u[i] = s[i]) /\ \A i \in 1 .. Len(t) : u[Len(s) + i] = t[i]
  BY <1>1, <1>2
<1>4. s \o t = u
  BY <1>1, <1>3, CatIs
<1> QED
  BY <1>4 DEF s, t, u

LEMMA Cat23 ==
  ASSUME NEW a, NEW b, NEW c, NEW d, NEW e
  PROVE  <<a, b>> \o <<c, d, e>> = <<a, b, c, d, e>>
<1> DEFINE Els == {a, b, c, d, e}
           s == <<a, b>>
           t == <<c, d, e>>
           u == <<a, b, c, d, e>>
<1>1. s \in Seq(Els) /\ t \in Seq(Els) /\ u \in Seq(Els) /\ Len(s) = 2 /\ Len(t) = 3 /\ Len(u) = 5
  OBVIOUS
<1>2. (\A i \in 1 .. 2 : u[i] = s[i]) /\ \A i \in 1 .. 3 : u[2 + i] = t[i]
  OBVIOUS
<1> HIDE DEF Els, s, t, u
<1>3. Len(u) = Len(s) + Len(t) /\ (\A i \in 1 .. Len(s) : u[i] = s[i]) /\ \A i \in 1 .. Len(t) : u[Len(s) + i] = t[i]
  BY <1>1, <1>2
<1>4. s \o t = u
  BY <1>1, <1>3, CatIs
<1> QED
  BY <1>4 DEF s, t, u

LEMMA Cat24 ==
  ASSUME NEW a, NEW b, NEW c, NEW d, NEW e, NEW f
  PROVE  <<a, b>> \o <<c, d, e, f>> = <<a, b, c, d, e, f>>
<1> DEFINE Els == {a, b, c, d, e, f}
           s == <<a, b>>
           t == <<c, d, e, f>>
           u == <<a, b, c, d, e, f>>
<1>1. s \in Seq(Els) /\ t \in Seq(Els) /\ u \in Seq(Els) /\ Len(s) = 2 /\ Len(t) = 4 /\ Len(u) = 6
  OBVIOUS
<1>2. (\A i \in 1 .. 2 : u[i] = s[i]) /\ \A i \in 1 .. 4 : u[2 + i] = t[i]
  OBVIOUS
<1> HIDE DEF Els, s, t, u
<1>3. Len(u) = Len(s) + Len(t) /\ (\A i \in 1 .. Len(s) : u[i] = s[i]) /\ \A i \in 1 .. Len(t) : u[Len(s) + i] = t[i]
  BY <1>1, <1>2
<1>4. s \o t = u
  BY <1>1, <1>3, CatIs
<1> QED
  BY <1>4 DEF s, t, u

LEMMA Cat25 ==
  ASSUME NEW a, NEW b, NEW c, NEW d, NEW e, NEW f, NEW g
  PROVE  <<a, b>> \o <<c, d, e, f, g>> = <<a, b, c, d, e, f, g>>
<1> DEFINE Els == {a, b, c, d, e, f, g}
           s == <<a, b>>
           t == <<c, d, e, f, g>>
           u == <<a, b, c, d, e, f, g>>
<1>1. s \in Seq(Els) /\ t \in Seq(Els) /\ u \in Seq(Els) /\ Len(s) = 2 /\ Len(t) = 5 /\ Len(u) = 7
  OBVIOUS
<1>2. (\A i \in 1 .. 2 : u[i] = s[i]) /\ \A i \in 1 .. 5 : u[2 + i] = t[i]
  OBVIOUS
<1> HIDE DEF Els, s, t, u
<1>3. Len(u) = Len(s) + Len(t) /\ (\A i \in 1 .. Len(s) : u[i] = s[i]) /\ \A i \in 1 .. Len(t) : u[Len(s) + i] = t[i]
  BY <1>1, <1>2
<1>4. s \o t = u
  BY <1>1, <1>3, CatIs
<1> QED
  BY <1>4 DEF s, t, u

LEMMA Cat16 ==
  ASSUME NEW a, NEW b, NEW c, NEW d, NEW e, NEW f, NEW g
  PROVE  <<a>> \o <<b, c, d, e, f, g>> = <<a, b, c, d, e, f, g>>
<1> DEFINE Els == {a, b, c, d, e, f, g}
           s == <<a>>
           t == <<b, c, d, e, f, g>>
           u == <<a, b, c, d, e, f, g>>
<1>1. s \in Seq(Els) /\ t \in Seq(Els) /\ u \in Seq(Els) /\ Len(s) = 1 /\ Len(t) = 6 /\ Len(u) = 7
  OBVIOUS
<1>2. (\A i \in 1 .. 1 : u[i] = s[i]) /\ \A i \in 1 .. 6 : u[1 + i] = t[i]
  OBVIOUS
<1> HIDE DEF Els, s, t, u
<1>3. Len(u) = Len(s) + Len(t) /\ (\A i \in 1 .. Len(s) : u[i] = s[i]) /\ \A i \in 1 .. Len(t) : u[Len(s) + i] = t[i]
  BY <1>1, <1>2
<1>4. s \o t = u
  BY <1>1, <1>3, CatIs
<1> QED
  BY <1>4 DEF s, t, u

LEMMA Cat71 ==
  ASSUME NEW a, NEW b, NEW c, NEW d, NEW e, NEW f, NEW g, NEW h
  PROVE  <<a, b, c, d, e, f, g>> \o <<h>> = <<a, b, c, d, e, f, g, h>>
<1> DEFINE Els == {a, b, c, d, e, f, g, h}
           s == <<a, b, c, d, e, f, g>>
           t == <<h>>
           u == <<a, b, c, d, e, f, g, h>>
<1>1. s \in Seq(Els) /\ t \in Seq(Els) /\ u \in Seq(Els) /\ Len(s) = 7 /\ Len(t) = 1 /\ Len(u) = 8
  OBVIOUS
<1>2. (\A i \in 1 .. 7 : u[i] = s[i]) /\ \A i \in 1 .. 1 : u[7 + i] = t[i]
  OBVIOUS
<1> HIDE DEF Els, s, t, u
<1>3. Len(u) = Len(s) + Len(t) /\ (\A i \in 1 .. Len(s) : u[i] = s[i]) /\ \A i \in 1 .. Len(t) : u[Len(s) + i] = t[i]
  BY <1>1, <1>2
<1>4. s \o t = u
  BY <1>1, <1>3, CatIs
<1> QED
  BY <1>4 DEF s, t, u
Url == "tdoc by url"
Sides == {"site", "mcp"}
Needed(check) == check.kind = "need"
Sound(h) ==
  /\ Len(h) \in Nat \ {0} /\ DOMAIN h = 1 .. Len(h)
  /\ \A i \in 1 .. Len(h) : h[i].kind \in {"need", "note"}
  /\ \A i, j \in 1 .. Len(h) : Needed(h[i]) /\ Needed(h[j]) /\ h[i].fact = h[j].fact => i = j

\* An exception is the same error at both doors.
LEMMA SameCodes == \A e : D!Coded("site", e) = D!Coded("mcp", e)
  BY DEF D!Coded, D!map_domain_error, D!map_mcp_error, D!STATUS_BY_EXC, D!MCP_RESOURCE_BY_EXC,
         D!ERROR_SLUGS

Alike == D!Questions \ {"content by url", "spec", "toc", "presentation"}

\* The handler of a question at a door.
LEMMA TheHandlers ==
  /\ D!Handler("site", "meeting") = D!show_meeting /\ D!Handler("mcp", "meeting") = D!get_meeting
  /\ D!Handler("site", "tdoc") = D!show_tdoc /\ D!Handler("mcp", "tdoc") = D!get_tdoc
  /\ D!Handler("site", "tdoc by url") = D!show_tdoc_by_url /\ D!Handler("mcp", "tdoc by url") = D!get_tdoc_by_url
  /\ D!Handler("site", "content") = D!tdoc_content /\ D!Handler("mcp", "content") = D!get_tdoc_content
  /\ D!Handler("site", "content by url") = D!tdoc_content_by_url /\ D!Handler("mcp", "content by url") = D!get_tdoc_content_by_url
  /\ D!Handler("site", "tsg") = D!show_tsg /\ D!Handler("mcp", "tsg") = D!get_tsg
  /\ D!Handler("site", "spec") = D!show_spec /\ D!Handler("mcp", "spec") = D!get_spec
  /\ D!Handler("site", "testcase") = D!show_testcase /\ D!Handler("mcp", "testcase") = D!get_testcase
  /\ D!Handler("site", "toc") = D!spec_doc_toc /\ D!Handler("mcp", "toc") = D!get_spec_toc
  /\ D!Handler("site", "presentation") = D!spec_doc_content /\ D!Handler("mcp", "presentation") = D!get_spec_doc_content
  /\ D!Handler("site", "tdoc index") = D!tdoc_index_status /\ D!Handler("mcp", "tdoc index") = D!get_tdoc_index
  /\ D!Handler("site", "spec doc index") = D!spec_doc_index_status /\ D!Handler("mcp", "spec doc index") = D!get_spec_doc_index
  /\ D!Handler("site", "job") = D!job_of_site /\ D!Handler("mcp", "job") = D!get_job
  /\ D!Handler("site", "cancel") = D!cancel_of_site /\ D!Handler("mcp", "cancel") = D!cancel_job
  /\ D!Handler("site", "text") = D!search_query("text") /\ D!Handler("mcp", "text") = D!search_tdoc("text")
  /\ D!Handler("site", "semantic") = D!search_query("semantic") /\ D!Handler("mcp", "semantic") = D!search_tdoc("semantic")
  /\ D!Handler("site", "hybrid") = D!search_query("hybrid") /\ D!Handler("mcp", "hybrid") = D!search_tdoc("hybrid")
  /\ D!Handler("site", "spec text") = D!spec_doc_search_query("text") /\ D!Handler("mcp", "spec text") = D!search_spec_docs("text")
  /\ D!Handler("site", "spec semantic") = D!spec_doc_search_query("semantic") /\ D!Handler("mcp", "spec semantic") = D!search_spec_docs("semantic")
  /\ D!Handler("site", "spec hybrid") = D!spec_doc_search_query("hybrid") /\ D!Handler("mcp", "spec hybrid") = D!search_spec_docs("hybrid")
  BY DEF D!Handler, D!Doors

\* Handlers of so many checks, none of which is made twice.
LEMMA Sound1 ==
  ASSUME NEW a,
         {a.kind} \subseteq {"need", "note"}
  PROVE  Sound(<<a>>)
<1> DEFINE h == <<a>>
<1>1. Len(h) = 1 /\ DOMAIN h = 1 .. 1
  OBVIOUS
<1>2. \A i \in 1 .. 1 : h[i].kind \in {"need", "note"}
  OBVIOUS
<1>3. \A i, j \in 1 .. 1 : h[i].fact = h[j].fact => i = j
  OBVIOUS
<1> HIDE DEF h
<1>4. Sound(h)
  BY <1>1, <1>2, <1>3 DEF Sound
<1> QED
  BY <1>4 DEF h

LEMMA Sound2 ==
  ASSUME NEW a, NEW b,
         {a.kind, b.kind} \subseteq {"need", "note"},
         a.fact \notin {b.fact}
  PROVE  Sound(<<a, b>>)
<1> DEFINE h == <<a, b>>
<1>1. Len(h) = 2 /\ DOMAIN h = 1 .. 2
  OBVIOUS
<1>2. \A i \in 1 .. 2 : h[i].kind \in {"need", "note"}
  OBVIOUS
<1>3. \A i, j \in 1 .. 2 : h[i].fact = h[j].fact => i = j
  OBVIOUS
<1> HIDE DEF h
<1>4. Sound(h)
  BY <1>1, <1>2, <1>3 DEF Sound
<1> QED
  BY <1>4 DEF h

LEMMA Sound3 ==
  ASSUME NEW a, NEW b, NEW c,
         {a.kind, b.kind, c.kind} \subseteq {"need", "note"},
         a.fact \notin {b.fact, c.fact},
         b.fact \notin {c.fact}
  PROVE  Sound(<<a, b, c>>)
<1> DEFINE h == <<a, b, c>>
<1>1. Len(h) = 3 /\ DOMAIN h = 1 .. 3
  OBVIOUS
<1>2. \A i \in 1 .. 3 : h[i].kind \in {"need", "note"}
  OBVIOUS
<1>3. \A i, j \in 1 .. 3 : h[i].fact = h[j].fact => i = j
  OBVIOUS
<1> HIDE DEF h
<1>4. Sound(h)
  BY <1>1, <1>2, <1>3 DEF Sound
<1> QED
  BY <1>4 DEF h

LEMMA Sound5 ==
  ASSUME NEW a, NEW b, NEW c, NEW d, NEW e,
         {a.kind, b.kind, c.kind, d.kind, e.kind} \subseteq {"need", "note"},
         a.fact \notin {b.fact, c.fact, d.fact, e.fact},
         b.fact \notin {c.fact, d.fact, e.fact},
         c.fact \notin {d.fact, e.fact},
         d.fact \notin {e.fact}
  PROVE  Sound(<<a, b, c, d, e>>)
<1> DEFINE h == <<a, b, c, d, e>>
<1>1. Len(h) = 5 /\ DOMAIN h = 1 .. 5
  OBVIOUS
<1>2. \A i \in 1 .. 5 : h[i].kind \in {"need", "note"}
  OBVIOUS
<1>3. \A i, j \in 1 .. 5 : h[i].fact = h[j].fact => i = j
  OBVIOUS
<1> HIDE DEF h
<1>4. Sound(h)
  BY <1>1, <1>2, <1>3 DEF Sound
<1> QED
  BY <1>4 DEF h

LEMMA Sound6 ==
  ASSUME NEW a, NEW b, NEW c, NEW d, NEW e, NEW f,
         {a.kind, b.kind, c.kind, d.kind, e.kind, f.kind} \subseteq {"need", "note"},
         a.fact \notin {b.fact, c.fact, d.fact, e.fact, f.fact},
         b.fact \notin {c.fact, d.fact, e.fact, f.fact},
         c.fact \notin {d.fact, e.fact, f.fact},
         d.fact \notin {e.fact, f.fact},
         e.fact \notin {f.fact}
  PROVE  Sound(<<a, b, c, d, e, f>>)
<1> DEFINE h == <<a, b, c, d, e, f>>
<1>1. Len(h) = 6 /\ DOMAIN h = 1 .. 6
  OBVIOUS
<1>2. \A i \in 1 .. 6 : h[i].kind \in {"need", "note"}
  OBVIOUS
<1>3. \A i, j \in 1 .. 6 : h[i].fact = h[j].fact => i = j
  OBVIOUS
<1> HIDE DEF h
<1>4. Sound(h)
  BY <1>1, <1>2, <1>3 DEF Sound
<1> QED
  BY <1>4 DEF h

LEMMA Sound7 ==
  ASSUME NEW a, NEW b, NEW c, NEW d, NEW e, NEW f, NEW g,
         {a.kind, b.kind, c.kind, d.kind, e.kind, f.kind, g.kind} \subseteq {"need", "note"},
         a.fact \notin {b.fact, c.fact, d.fact, e.fact, f.fact, g.fact},
         b.fact \notin {c.fact, d.fact, e.fact, f.fact, g.fact},
         c.fact \notin {d.fact, e.fact, f.fact, g.fact},
         d.fact \notin {e.fact, f.fact, g.fact},
         e.fact \notin {f.fact, g.fact},
         f.fact \notin {g.fact}
  PROVE  Sound(<<a, b, c, d, e, f, g>>)
<1> DEFINE h == <<a, b, c, d, e, f, g>>
<1>1. Len(h) = 7 /\ DOMAIN h = 1 .. 7
  OBVIOUS
<1>2. \A i \in 1 .. 7 : h[i].kind \in {"need", "note"}
  OBVIOUS
<1>3. \A i, j \in 1 .. 7 : h[i].fact = h[j].fact => i = j
  OBVIOUS
<1> HIDE DEF h
<1>4. Sound(h)
  BY <1>1, <1>2, <1>3 DEF Sound
<1> QED
  BY <1>4 DEF h

\* Those of the content of a TDoc.
LEMMA ContentHandlers ==
  /\ Sound(D!tdoc_content) /\ D!get_tdoc_content = D!tdoc_content
  /\ Sound(D!tdoc_content_by_url) /\ Sound(D!get_tdoc_content_by_url)
  /\ \E path, format, known, a, b, c, d :
       /\ path.kind = "need" /\ path.exception = "InvalidFilter"
       /\ format.kind = "need" /\ format.exception = "InvalidFilter"
       /\ D!tdoc_content_by_url = <<path, format, known, a, b, c, d>>
       /\ D!get_tdoc_content_by_url = <<format, path, known, a, b, c, d>>
<1> DEFINE a == D!Need("eligible", "TDocContentTypeIneligible")
           b == D!Need("extracted", "CacheMiss")
           c == D!Need("archived", "CacheMiss")
           d == D!Need("source", "TDocContentSourceNotFound")
           row == D!Need("row", "TDocNotFound")
           known == D!Need("known url", "TDocUrlNotFound")
           format == D!Need("format", "InvalidFilter")
           path == D!Need("path", "InvalidFilter")
<1>1. /\ D!content_of_id = <<row>> \o <<a, b, c, d>>
      /\ D!content_of_url = <<known>> \o <<a, b, c, d>>
  BY DEF D!content_of_id, D!content_of_url, D!ContentOf, D!map_tdoc_content_error
<1>2. D!content_of_id = <<row, a, b, c, d>> /\ D!content_of_url = <<known, a, b, c, d>>
  BY <1>1, Cat14
<1>3. /\ D!tdoc_content = <<format>> \o <<row, a, b, c, d>> /\ D!get_tdoc_content = D!tdoc_content
      /\ D!tdoc_content_by_url = <<path, format>> \o <<known, a, b, c, d>>
      /\ D!get_tdoc_content_by_url = <<format, path>> \o <<known, a, b, c, d>>
  BY <1>2 DEF D!tdoc_content, D!get_tdoc_content, D!tdoc_content_by_url, D!get_tdoc_content_by_url,
              D!map_tdoc_content_error
<1>4. /\ a.kind = "need" /\ b.kind = "need" /\ c.kind = "need" /\ d.kind = "need"
      /\ row.kind = "need" /\ known.kind = "need" /\ format.kind = "need" /\ path.kind = "need"
      /\ a.fact = "eligible" /\ b.fact = "extracted" /\ c.fact = "archived" /\ d.fact = "source"
      /\ row.fact = "row" /\ known.fact = "known url" /\ format.fact = "format" /\ path.fact = "path"
      /\ path.exception = "InvalidFilter" /\ format.exception = "InvalidFilter"
  BY DEF D!Need
<1> HIDE DEF a, b, c, d, row, known, format, path
<1>5. D!tdoc_content = <<format, row, a, b, c, d>>
  BY <1>3, Cat15
<1>6. D!tdoc_content_by_url = <<path, format, known, a, b, c, d>>
  BY <1>3, Cat25
<1>7. D!get_tdoc_content_by_url = <<format, path, known, a, b, c, d>>
  BY <1>3, Cat25
<1>8. Sound(<<format, row, a, b, c, d>>)
  BY <1>4, Sound6
<1>9. Sound(<<path, format, known, a, b, c, d>>)
  BY <1>4, Sound7
<1>10. Sound(<<format, path, known, a, b, c, d>>)
  BY <1>4, Sound7
<1> QED
  BY <1>3, <1>4, <1>5, <1>6, <1>7, <1>8, <1>9, <1>10

\* Those of the searches.
LEMMA SearchHandlers ==
  \A mode \in {"text", "semantic", "hybrid"} :
    /\ Sound(D!search_query(mode)) /\ D!search_tdoc(mode) = D!search_query(mode)
    /\ Sound(D!spec_doc_search_query(mode)) /\ D!search_spec_docs(mode) = D!spec_doc_search_query(mode)
<1> DEFINE facade == D!Need("facade", "SettingsDisabled")
           spec == D!Need("spec facade", "SettingsDisabled")
           limit == D!Need("limit", "InvalidFilter")
           a == D!Need("text table", "SettingsDisabled")
           b == D!Need("words", "SearchQuery")
           c == D!Need("sound index", "SearchIndexCorrupt")
           d == D!Need("endpoint", "EmbedderUnavailable")
           e == D!Need("vector table", "VectorIndexUnavailable")
           f == D!Need("meaning", "SemanticSearchQuery")
<1>1. D!search("text") = <<a, b, c>> /\ D!search("semantic") = <<d, e, f>> /\ D!search("hybrid") = <<a>> \o <<d, e, f>>
  BY DEF D!search, D!Text, D!Semantic
<1>2. \A mode : /\ D!search_query(mode) = <<facade, limit>> \o D!search(mode)
                /\ D!search_tdoc(mode) = D!search_query(mode)
                /\ D!spec_doc_search_query(mode) = <<spec, limit>> \o D!search(mode)
                /\ D!search_spec_docs(mode) = D!spec_doc_search_query(mode)
  BY DEF D!search_query, D!search_tdoc, D!spec_doc_search_query, D!search_spec_docs
<1>3. /\ {facade.kind, spec.kind, limit.kind, a.kind, b.kind, c.kind, d.kind, e.kind, f.kind} \subseteq {"need", "note"}
      /\ facade.fact = "facade" /\ spec.fact = "spec facade" /\ limit.fact = "limit"
      /\ a.fact = "text table" /\ b.fact = "words" /\ c.fact = "sound index"
      /\ d.fact = "endpoint" /\ e.fact = "vector table" /\ f.fact = "meaning"
  BY DEF D!Need
<1> HIDE DEF facade, spec, limit, a, b, c, d, e, f
<1>4. D!search("hybrid") = <<a, d, e, f>>
  BY <1>1, Cat13
<1>5. ASSUME NEW g, g \in {facade, spec}
      PROVE  /\ Sound(<<g, limit>> \o D!search("text")) /\ Sound(<<g, limit>> \o D!search("semantic"))
             /\ Sound(<<g, limit>> \o D!search("hybrid"))
  <2>1. g.fact \in {"facade", "spec facade"} /\ g.kind \in {"need", "note"}
    BY <1>3, <1>5
  <2>2. /\ <<g, limit>> \o D!search("text") = <<g, limit, a, b, c>>
        /\ <<g, limit>> \o D!search("semantic") = <<g, limit, d, e, f>>
    <3>1. <<g, limit>> \o <<a, b, c>> = <<g, limit, a, b, c>>
      BY Cat23
    <3>2. <<g, limit>> \o <<d, e, f>> = <<g, limit, d, e, f>>
      BY Cat23
    <3> QED
      BY <1>1, <3>1, <3>2
  <2>3. <<g, limit>> \o D!search("hybrid") = <<g, limit, a, d, e, f>>
    <3>1. <<g, limit>> \o <<a, d, e, f>> = <<g, limit, a, d, e, f>>
      BY Cat24
    <3> QED
      BY <1>4, <3>1
  <2>4. Sound(<<g, limit, a, b, c>>)
    BY <2>1, <1>3, Sound5
  <2>5. Sound(<<g, limit, d, e, f>>)
    BY <2>1, <1>3, Sound5
  <2>6. Sound(<<g, limit, a, d, e, f>>)
    BY <2>1, <1>3, Sound6
  <2> QED
    BY <2>2, <2>3, <2>4, <2>5, <2>6
<1> QED
  BY <1>2, <1>5

\* Those that are the same at both doors.
LEMMA SmallHandlers ==
  /\ Sound(D!show_meeting) /\ D!get_meeting = D!show_meeting
  /\ Sound(D!show_tdoc) /\ D!get_tdoc = D!show_tdoc
  /\ Sound(D!show_tsg) /\ D!get_tsg = D!show_tsg
  /\ Sound(D!show_testcase) /\ D!get_testcase = D!show_testcase
  /\ Sound(D!tdoc_index_status) /\ D!get_tdoc_index = D!tdoc_index_status
  /\ Sound(D!spec_doc_index_status) /\ D!get_spec_doc_index = D!spec_doc_index_status
  /\ Sound(D!job_of_site) /\ D!get_job = D!job_of_site
  /\ Sound(D!cancel_of_site) /\ D!cancel_job = D!cancel_of_site
<1>1. Sound(D!show_meeting) /\ D!get_meeting = D!show_meeting
  BY Sound1 DEF D!show_meeting, D!get_meeting, D!Need
<1>2. Sound(D!show_tdoc) /\ D!get_tdoc = D!show_tdoc
  BY Sound1 DEF D!show_tdoc, D!get_tdoc, D!Need
<1>3. Sound(D!show_tsg) /\ D!get_tsg = D!show_tsg
  BY Sound1 DEF D!show_tsg, D!get_tsg, D!Need
<1>4. Sound(D!show_testcase) /\ D!get_testcase = D!show_testcase
  BY Sound2 DEF D!show_testcase, D!get_testcase, D!Need
<1>5. Sound(D!tdoc_index_status) /\ D!get_tdoc_index = D!tdoc_index_status
  BY Sound1 DEF D!tdoc_index_status, D!get_tdoc_index, D!Need
<1>6. Sound(D!spec_doc_index_status) /\ D!get_spec_doc_index = D!spec_doc_index_status
  BY Sound1 DEF D!spec_doc_index_status, D!get_spec_doc_index, D!Need
<1>7. Sound(D!job_of_site) /\ D!get_job = D!job_of_site
  BY Sound1 DEF D!job_of_site, D!get_job, D!Need
<1>8. Sound(D!cancel_of_site) /\ D!cancel_job = D!cancel_of_site
  BY Sound2 DEF D!cancel_of_site, D!cancel_job, D!Need, D!Note
<1> QED
  BY <1>1, <1>2, <1>3, <1>4, <1>5, <1>6, <1>7, <1>8

\* Those that differ between the doors.
LEMMA OddHandlers ==
  /\ Sound(D!show_spec) /\ Sound(D!get_spec) /\ Sound(D!spec_doc_toc) /\ Sound(D!get_spec_toc)
  /\ Sound(D!spec_doc_content) /\ Sound(D!get_spec_doc_content)
<1>1. Sound(D!show_spec) /\ Sound(D!get_spec)
  BY Sound1, Sound2 DEF D!show_spec, D!get_spec, D!Need
<1>2. Sound(D!spec_doc_toc)
  BY Sound3 DEF D!spec_doc_toc, D!Need
<1>3. Sound(D!get_spec_toc)
  BY Sound2 DEF D!get_spec_toc, D!Need
<1>4. Sound(D!spec_doc_content)
  BY Sound3 DEF D!spec_doc_content, D!Need
<1>5. Sound(D!get_spec_doc_content)
  BY Sound2 DEF D!get_spec_doc_content, D!Need
<1> QED
  BY <1>1, <1>2, <1>3, <1>4, <1>5

\* Every handler but that of a URL looks for each fact once.
LEMMA SoundHandlers ==
  /\ \A q \in D!Questions \ {Url}, door \in Sides : Sound(D!Handler(door, q))
  /\ \A q \in Alike : D!Handler("site", q) = D!Handler("mcp", q)
<1> DEFINE Good(q) == Sound(D!Handler("site", q)) /\ D!Handler("mcp", q) = D!Handler("site", q)
           Fine(q) == Sound(D!Handler("site", q)) /\ Sound(D!Handler("mcp", q))
<1>1. Good("meeting") /\ Good("tdoc") /\ Good("tsg") /\ Good("testcase") /\ Good("tdoc index")
      /\ Good("spec doc index") /\ Good("job") /\ Good("cancel")
  BY SmallHandlers, TheHandlers
<1>2. Good("text") /\ Good("semantic") /\ Good("hybrid")
      /\ Good("spec text") /\ Good("spec semantic") /\ Good("spec hybrid")
  BY SearchHandlers, TheHandlers
<1>3. Good("content") /\ Fine("content by url")
  BY ContentHandlers, TheHandlers
<1>4. Fine("spec") /\ Fine("toc") /\ Fine("presentation")
  BY OddHandlers, TheHandlers
<1>5. D!Handler("mcp", Url) = D!Handler("site", Url)
  BY TheHandlers DEF D!show_tdoc_by_url, D!get_tdoc_by_url, Url
<1>6. \A q : Good(q) => Fine(q)
  OBVIOUS
<1>7. \A q \in D!Questions \ {Url} : Fine(q)
  <2> HIDE DEF Good, Fine
  <2> QED
    BY <1>1, <1>2, <1>3, <1>4, <1>6 DEF D!Questions, Url
<1>8. \A q \in Alike \ {Url} : Good(q)
  <2> HIDE DEF Good, Fine
  <2> QED
    BY <1>1, <1>2, <1>3 DEF D!Questions, Url, Alike
<1> QED
  BY <1>5, <1>7, <1>8 DEF Sides

----------------------------------------------------------------------------
Holds(check, fs) == check.kind = "need" => check.fact \in fs
FailsAt(h, fs, k) ==
  k \in 1 .. Len(h) /\ ~ Holds(h[k], fs) /\ \A i \in 1 .. Len(h) : i < k => Holds(h[i], fs)

\* Either all checks hold, or there is a first that fails.
LEMMA SomeFailsOrNone ==
  ASSUME NEW h, Sound(h), NEW fs
  PROVE  (\A i \in 1 .. Len(h) : Holds(h[i], fs)) \/ \E k \in 1 .. Len(h) : FailsAt(h, fs, k)
<1> DEFINE T == {i \in 1 .. Len(h) : ~ Holds(h[i], fs)}
<1>1. SUFFICES ASSUME T # {} PROVE \E k \in 1 .. Len(h) : FailsAt(h, fs, k)
  OBVIOUS
<1>2. T \subseteq Nat /\ Len(h) \in Nat
  BY DEF Sound
<1>3. PICK k \in T : \A i \in T : k <= i
  BY <1>1, <1>2, HasLeast
<1>4. \A i \in 1 .. Len(h) : i < k => Holds(h[i], fs)
  BY <1>2, <1>3
<1> QED
  BY <1>3, <1>4 DEF FailsAt

\* An answer that is given at once is that of the first check that fails.
LEMMA AtOnceIs ==
  ASSUME NEW door, NEW q, NEW fs, Sound(D!Handler(door, q))
  PROVE  LET h == D!Handler(door, q) IN
         /\ (\A i \in 1 .. Len(h) : Holds(h[i], fs)) => D!AtOnce(door, q, fs) = "content"
         /\ \A k : FailsAt(h, fs, k) => D!AtOnce(door, q, fs) = D!Coded(door, h[k].exception)
<1> DEFINE h == D!Handler(door, q)
           failing == {i \in DOMAIN h : D!Fails(h[i], h, fs)}
<1> HIDE DEF h
<1>1. /\ Len(h) \in Nat /\ DOMAIN h = 1 .. Len(h) /\ \A i \in 1 .. Len(h) : h[i].kind \in {"need", "note"}
  BY DEF Sound, h
<1>2. failing = {i \in 1 .. Len(h) : ~ Holds(h[i], fs)}
  BY <1>1 DEF D!Fails, Holds
<1>3. D!AtOnce(door, q, fs) =
        IF failing = {} THEN "content" ELSE D!Coded(door, h[D!Min(failing)].exception)
  BY DEF D!AtOnce, h
<1>4. ASSUME NEW k, FailsAt(h, fs, k) PROVE D!AtOnce(door, q, fs) = D!Coded(door, h[k].exception)
  <2>1. k \in failing /\ k \in Nat /\ failing \subseteq Nat
    BY <1>2, <1>4, <1>1 DEF FailsAt
  <2>2. \A i \in failing : k <= i
    BY <1>2, <1>4, <1>1 DEF FailsAt
  <2>3. \A j \in failing : (\A i \in failing : j <= i) <=> j = k
    BY <2>1, <2>2
  <2>4. D!Min(failing) = k
    BY <2>1, <2>3 DEF D!Min
  <2> QED
    BY <1>3, <2>1, <2>4
<1>5. (\A i \in 1 .. Len(h) : Holds(h[i], fs)) => D!AtOnce(door, q, fs) = "content"
  BY <1>2, <1>3
<1> QED
  BY <1>4, <1>5 DEF h

\* Handlers that hold together and fail together with one code.
LEMMA SameFate ==
  ASSUME NEW q \in D!Questions \ {Url}, NEW fs,
         NEW g, g = D!Handler("site", q), NEW h, h = D!Handler("mcp", q),
         (\A i \in 1 .. Len(g) : Holds(g[i], fs)) => \A i \in 1 .. Len(h) : Holds(h[i], fs),
         \A k \in 1 .. Len(g) : FailsAt(g, fs, k) =>
           \E m : FailsAt(h, fs, m) /\ D!Coded("mcp", h[m].exception) = D!Coded("mcp", g[k].exception)
  PROVE  D!AtOnce("site", q, fs) = D!AtOnce("mcp", q, fs)
<1>1. Sound(g) /\ Sound(h)
  BY SoundHandlers DEF Sides
<1>2. CASE \A i \in 1 .. Len(g) : Holds(g[i], fs)
  BY <1>1, <1>2, AtOnceIs
<1>3. CASE \E k \in 1 .. Len(g) : FailsAt(g, fs, k)
  <2>1. PICK k \in 1 .. Len(g) : FailsAt(g, fs, k)
    BY <1>3
  <2>2. PICK m : FailsAt(h, fs, m) /\ D!Coded("mcp", h[m].exception) = D!Coded("mcp", g[k].exception)
    BY <2>1
  <2>3. D!AtOnce("site", q, fs) = D!Coded("site", g[k].exception)
    BY <1>1, <2>1, AtOnceIs
  <2>4. D!AtOnce("mcp", q, fs) = D!Coded("mcp", h[m].exception)
    BY <1>1, <2>2, AtOnceIs
  <2> QED
    BY <2>2, <2>3, <2>4, SameCodes
<1> QED
  BY <1>1, <1>2, <1>3, SomeFailsOrNone

\* On the same facts both doors give the same answer at once.
LEMMA SameAtOnce ==
  ASSUME NEW q \in D!Questions, NEW fs, D!Given \subseteq fs
  PROVE  D!AtOnce("site", q, fs) = D!AtOnce("mcp", q, fs)
<1>1. CASE q \in Alike
  <2>1. D!Handler("site", q) = D!Handler("mcp", q)
    BY <1>1, SoundHandlers
  <2> QED
    BY <2>1, SameCodes DEF D!AtOnce
<1>2. CASE q = "spec"
  <2> DEFINE a == D!Need("rows limit", "InvalidFilter")
             b == D!Need("spec", "SpecNotFound")
             g == <<a, b>>
             h == <<b>>
  <2>1. g = D!Handler("site", q) /\ h = D!Handler("mcp", q)
    BY <1>2, TheHandlers DEF D!show_spec, D!get_spec
  <2>2. Holds(a, fs)
    BY DEF D!Need, Holds, D!Given
  <2> HIDE DEF a, b
  <2>3. Len(g) = 2 /\ Len(h) = 1 /\ g[1] = a /\ g[2] = b /\ h[1] = b
    OBVIOUS
  <2> HIDE DEF g, h
  <2>4. (\A i \in 1 .. Len(g) : Holds(g[i], fs)) => \A i \in 1 .. Len(h) : Holds(h[i], fs)
    BY <2>3
  <2>5. \A k \in 1 .. Len(g) : FailsAt(g, fs, k) => FailsAt(h, fs, 1) /\ h[1] = g[k]
    BY <2>2, <2>3 DEF FailsAt
  <2> QED
    <3>1. \A k \in 1 .. Len(g) : FailsAt(g, fs, k) =>
            \E m : FailsAt(h, fs, m) /\ D!Coded("mcp", h[m].exception) = D!Coded("mcp", g[k].exception)
      BY <2>5
    <3>2. q \in D!Questions \ {Url}
      BY <1>2 DEF Url
    <3> QED
      BY <2>1, <2>4, <3>1, <3>2, SameFate
<1>3. CASE q = "toc"
  <2> DEFINE a == D!Need("spec docs", "SettingsDisabled")
             b == D!Need("version", "InvalidFilter")
             c == D!Need("toc", "SpecDocUnknownVersion")
             g == <<a, b, c>>
             h == <<a, c>>
  <2>1. g = D!Handler("site", q) /\ h = D!Handler("mcp", q)
    BY <1>3, TheHandlers DEF D!spec_doc_toc, D!get_spec_toc
  <2>2. Holds(b, fs)
    BY DEF D!Need, Holds, D!Given
  <2> HIDE DEF a, b, c
  <2>3. Len(g) = 3 /\ Len(h) = 2 /\ g[1] = a /\ g[2] = b /\ g[3] = c /\ h[1] = a /\ h[2] = c
    OBVIOUS
  <2> HIDE DEF g, h
  <2>4. (\A i \in 1 .. Len(g) : Holds(g[i], fs)) => \A i \in 1 .. Len(h) : Holds(h[i], fs)
    BY <2>3
  <2>5. \A k \in 1 .. Len(g) : FailsAt(g, fs, k) => \E m \in 1 .. 2 : FailsAt(h, fs, m) /\ h[m] = g[k]
    BY <2>2, <2>3 DEF FailsAt
  <2> QED
    <3>1. \A k \in 1 .. Len(g) : FailsAt(g, fs, k) =>
            \E m : FailsAt(h, fs, m) /\ D!Coded("mcp", h[m].exception) = D!Coded("mcp", g[k].exception)
      BY <2>5
    <3>2. q \in D!Questions \ {Url}
      BY <1>3 DEF Url
    <3> QED
      BY <2>1, <2>4, <3>1, <3>2, SameFate
<1>4. CASE q = "presentation"
  <2> DEFINE a == D!Need("page format", "InvalidFilter")
             b == D!Need("spec docs", "SettingsDisabled")
             c == D!Need("presentation", "HTTPException")
             d == D!Need("presentation", "ToolError")
             g == <<a, b, c>>
             h == <<b, d>>
  <2>1. g = D!Handler("site", q) /\ h = D!Handler("mcp", q)
    BY <1>4, TheHandlers DEF D!spec_doc_content, D!get_spec_doc_content
  <2>2. Holds(a, fs)
    BY DEF D!Need, Holds, D!Given
  <2>3. Holds(c, fs) <=> Holds(d, fs)
    BY DEF D!Need, Holds
  <2>4. D!Coded("mcp", c.exception) = D!Coded("mcp", d.exception)
    BY DEF D!Need, D!Coded, D!map_mcp_error, D!MCP_RESOURCE_BY_EXC, D!ERROR_SLUGS
  <2> HIDE DEF a, b, c, d
  <2>5. Len(g) = 3 /\ Len(h) = 2 /\ g[1] = a /\ g[2] = b /\ g[3] = c /\ h[1] = b /\ h[2] = d
    OBVIOUS
  <2> HIDE DEF g, h
  <2>6. (\A i \in 1 .. Len(g) : Holds(g[i], fs)) => \A i \in 1 .. Len(h) : Holds(h[i], fs)
    BY <2>3, <2>5
  <2>7. \A k \in 1 .. Len(g) : FailsAt(g, fs, k) =>
          \E m \in 1 .. 2 : FailsAt(h, fs, m) /\ D!Coded("mcp", h[m].exception) = D!Coded("mcp", g[k].exception)
    BY <2>2, <2>3, <2>4, <2>5 DEF FailsAt
  <2> QED
    <3>1. \A k \in 1 .. Len(g) : FailsAt(g, fs, k) =>
            \E m : FailsAt(h, fs, m) /\ D!Coded("mcp", h[m].exception) = D!Coded("mcp", g[k].exception)
      BY <2>7
    <3>2. q \in D!Questions \ {Url}
      BY <1>4 DEF Url
    <3> QED
      BY <2>1, <2>6, <3>1, <3>2, SameFate
<1>5. CASE q = "content by url"
  <2>1. PICK path, format, known, a, b, c, d :
       /\ path.kind = "need" /\ path.exception = "InvalidFilter"
       /\ format.kind = "need" /\ format.exception = "InvalidFilter"
       /\ D!tdoc_content_by_url = <<path, format, known, a, b, c, d>>
       /\ D!get_tdoc_content_by_url = <<format, path, known, a, b, c, d>>
    BY ContentHandlers
  <2> DEFINE g == <<path, format, known, a, b, c, d>>
             h == <<format, path, known, a, b, c, d>>
  <2>2. g = D!Handler("site", q) /\ h = D!Handler("mcp", q)
    BY <1>5, <2>1, TheHandlers
  <2>3. /\ Len(g) = 7 /\ Len(h) = 7 /\ g[1] = h[2] /\ g[2] = h[1]
        /\ g[1].exception = "InvalidFilter" /\ g[2].exception = "InvalidFilter"
        /\ \A i \in 3 .. 7 : g[i] = h[i]
    BY <2>1
  <2> HIDE DEF g, h
  <2>4. (\A i \in 1 .. Len(g) : Holds(g[i], fs)) => \A i \in 1 .. Len(h) : Holds(h[i], fs)
    BY <2>3
  <2>5. \A k \in 1 .. Len(g) : FailsAt(g, fs, k) =>
          \E m \in 1 .. 7 : FailsAt(h, fs, m) /\ h[m].exception = g[k].exception
    <3> SUFFICES ASSUME NEW k \in 1 .. 7, FailsAt(g, fs, k)
                 PROVE  \E m \in 1 .. 7 : FailsAt(h, fs, m) /\ h[m].exception = g[k].exception
      BY <2>3
    <3>1. CASE k \in 3 .. 7
      <4>1. FailsAt(h, fs, k)
        BY <2>3, <3>1 DEF FailsAt
      <4> QED
        BY <4>1, <2>3, <3>1
    <3>2. CASE ~ Holds(h[1], fs)
      <4>1. FailsAt(h, fs, 1)
        BY <2>3, <3>2 DEF FailsAt
      <4>2. k \in {1, 2}
        BY <2>3, <3>2 DEF FailsAt
      <4> QED
        BY <4>1, <4>2, <2>3
    <3>3. CASE k = 1 /\ Holds(h[1], fs)
      <4>1. FailsAt(h, fs, 2)
        BY <2>3, <3>3 DEF FailsAt
      <4> QED
        BY <4>1, <2>3, <3>3
    <3>4. CASE k = 2
      BY <2>3, <3>2, <3>4 DEF FailsAt
    <3> QED
      BY <3>1, <3>2, <3>3, <3>4
  <2> QED
    <3>1. \A k \in 1 .. Len(g) : FailsAt(g, fs, k) =>
            \E m : FailsAt(h, fs, m) /\ D!Coded("mcp", h[m].exception) = D!Coded("mcp", g[k].exception)
      BY <2>5
    <3>2. q \in D!Questions \ {Url}
      BY <1>5 DEF Url
    <3> QED
      BY <2>2, <2>4, <3>1, <3>2, SameFate
<1> QED
  BY <1>1, <1>2, <1>3, <1>4, <1>5 DEF Alike

\* As it was before a write of x.
Near(fs, x) == {fs \cup {x}, fs \ {x}}
Passed(h, from, to, fs) == \A i \in 1 .. Len(h) : from <= i /\ i < to => Holds(h[i], fs)

\* One write between two checks: what fails now fails, first of all, before or after.
LEMMA OneWriteTells ==
  ASSUME NEW h, Sound(h), NEW k \in 1 .. Len(h), NEW fs, ~ Holds(h[k], fs),
         NEW x, NEW before \in Near(fs, x), NEW s \in 1 .. k,
         Passed(h, 1, s, before), Passed(h, s, k, fs)
  PROVE  FailsAt(h, fs, k) \/ FailsAt(h, before, k)
<1>0. /\ Len(h) \in Nat /\ k \in Nat /\ s \in Nat /\ s <= k
      /\ \A i \in 1 .. Len(h) : i \in Nat /\ 1 <= i
  BY DEF Sound
<1>1. Needed(h[k]) /\ h[k].fact \notin fs
  BY DEF Holds, Needed
<1>2. \A i \in 1 .. Len(h) : i < k => Holds(h[i], before) \/ Holds(h[i], fs)
  BY <1>0 DEF Passed
<1>3. CASE h[k].fact = x \/ before = fs \ {x}
  <2>1. \A i \in 1 .. Len(h) : i < k => Holds(h[i], fs)
    <3> SUFFICES ASSUME NEW i \in 1 .. Len(h), i < k, ~ Holds(h[i], fs) PROVE FALSE
      OBVIOUS
    <3>1. Needed(h[i]) /\ h[i].fact \notin fs /\ h[i].fact \in before
      BY <1>2 DEF Holds, Needed
    <3>2. h[i].fact = x /\ h[k].fact = x
      BY <3>1, <1>3 DEF Near
    <3>3. i = k
      BY <3>1, <3>2, <1>1 DEF Sound
    <3> QED
      BY <3>3, <1>0
  <2> QED
    BY <2>1 DEF FailsAt
<1>4. CASE h[k].fact # x /\ before = fs \cup {x}
  <2>1. ~ Holds(h[k], before)
    BY <1>1, <1>4 DEF Holds, Needed
  <2>2. \A i \in 1 .. Len(h) : i < k => Holds(h[i], before)
    BY <1>2, <1>4 DEF Holds
  <2> QED
    BY <2>1, <2>2 DEF FailsAt
<1> QED
  BY <1>3, <1>4 DEF Near

UrlFacts == <<"path", "row at url", "cover", "extracted", "changes", "files", "inventory">>

\* The handler of a URL needs a path and one of six things that are known of it.
LEMMA UrlHandler ==
  ASSUME NEW door \in Sides
  PROVE  LET h == D!Handler(door, Url) IN
         /\ Len(h) = 8 /\ DOMAIN h = 1 .. 8
         /\ h[1] = D!Need("path", "InvalidFilter") /\ h[8] = D!SomeNoted("TDocUrlNotFound")
         /\ \A i \in 2 .. 7 : h[i].kind = "note" /\ h[i].fact = UrlFacts[i]
<1> DEFINE a == D!Need("path", "InvalidFilter")
           b == D!Note("row at url")
           c == D!Note("cover")
           d == D!Note("extracted")
           e == D!Note("changes")
           f == D!Note("files")
           g == D!Note("inventory")
           z == D!SomeNoted("TDocUrlNotFound")
<1>1. D!Handler(door, Url) = <<a>> \o D!from_ftp_url \o <<z>> /\ D!from_ftp_url = <<b, c, d, e, f, g>>
  BY TheHandlers DEF Sides, Url, D!show_tdoc_by_url, D!get_tdoc_by_url, D!from_ftp_url
<1>2. /\ b.kind = "note" /\ c.kind = "note" /\ d.kind = "note" /\ e.kind = "note" /\ f.kind = "note" /\ g.kind = "note"
      /\ b.fact = "row at url" /\ c.fact = "cover" /\ d.fact = "extracted" /\ e.fact = "changes"
      /\ f.fact = "files" /\ g.fact = "inventory"
  BY DEF D!Note
<1> HIDE DEF a, b, c, d, e, f, g, z
<1>3. <<a>> \o <<b, c, d, e, f, g>> = <<a, b, c, d, e, f, g>>
  BY Cat16
<1>4. <<a, b, c, d, e, f, g>> \o <<z>> = <<a, b, c, d, e, f, g, z>>
  BY Cat71
<1>5. D!Handler(door, Url) = <<a, b, c, d, e, f, g, z>>
  BY <1>1, <1>3, <1>4
<1> DEFINE h == <<a, b, c, d, e, f, g, z>>
<1>6. Len(h) = 8 /\ DOMAIN h = 1 .. 8 /\ h[1] = a /\ h[8] = z
  OBVIOUS
<1>7. \A i \in 2 .. 7 : h[i].kind = "note" /\ h[i].fact = UrlFacts[i]
  <2>1. h[2] = b /\ h[3] = c /\ h[4] = d /\ h[5] = e /\ h[6] = f /\ h[7] = g
    OBVIOUS
  <2>2. /\ UrlFacts[2] = "row at url" /\ UrlFacts[3] = "cover" /\ UrlFacts[4] = "extracted"
        /\ UrlFacts[5] = "changes" /\ UrlFacts[6] = "files" /\ UrlFacts[7] = "inventory"
    BY DEF UrlFacts
  <2> HIDE DEF h
  <2>3. /\ h[2].kind = "note" /\ h[3].kind = "note" /\ h[4].kind = "note"
        /\ h[5].kind = "note" /\ h[6].kind = "note" /\ h[7].kind = "note"
    BY <1>2, <2>1
  <2>4. /\ h[2].fact = UrlFacts[2] /\ h[3].fact = UrlFacts[3] /\ h[4].fact = UrlFacts[4]
        /\ h[5].fact = UrlFacts[5] /\ h[6].fact = UrlFacts[6] /\ h[7].fact = UrlFacts[7]
    BY <1>2, <2>1, <2>2
  <2>5. \A i \in 2 .. 7 : i = 2 \/ i = 3 \/ i = 4 \/ i = 5 \/ i = 6 \/ i = 7
    OBVIOUS
  <2> QED
    BY <2>3, <2>4, <2>5
<1> QED
  BY <1>5, <1>6, <1>7 DEF a, z

\* Its answer without the path, and without any of the six.
LEMMA UrlAtOnce ==
  ASSUME NEW door \in Sides, NEW fs
  PROVE  /\ "path" \notin fs => D!AtOnce(door, Url, fs) = D!Coded(door, "InvalidFilter")
         /\ "path" \in fs /\ (\A i \in 2 .. 7 : UrlFacts[i] \notin fs) =>
              D!AtOnce(door, Url, fs) = D!Coded(door, "TDocUrlNotFound")
<1> DEFINE h == D!Handler(door, Url)
           failing == {i \in DOMAIN h : D!Fails(h[i], h, fs)}
<1>1. /\ DOMAIN h = 1 .. 8 /\ h[1].kind = "need" /\ h[1].fact = "path" /\ h[1].exception = "InvalidFilter"
      /\ h[8].kind = "some" /\ h[8].exception = "TDocUrlNotFound"
      /\ \A i \in 2 .. 7 : h[i].kind = "note" /\ h[i].fact = UrlFacts[i]
  BY UrlHandler DEF D!Need, D!SomeNoted
<1>2. D!AtOnce(door, Url, fs) =
        IF failing = {} THEN "content" ELSE D!Coded(door, h[D!Min(failing)].exception)
  BY DEF D!AtOnce
<1> HIDE DEF h
<1>3. ASSUME "path" \notin fs PROVE D!AtOnce(door, Url, fs) = D!Coded(door, "InvalidFilter")
  <2>1. 1 \in failing /\ \A i \in failing : 1 <= i
    <3>1. D!Fails(h[1], h, fs)
      BY <1>1, <1>3 DEF D!Fails
    <3> QED
      BY <1>1, <3>1
  <2>2. \A j \in failing : (\A i \in failing : j <= i) <=> j = 1
    BY <2>1, <1>1
  <2>3. D!Min(failing) = 1
    BY <2>1, <2>2 DEF D!Min
  <2> QED
    BY <1>1, <1>2, <2>1, <2>3
<1>4. ASSUME "path" \in fs, \A i \in 2 .. 7 : UrlFacts[i] \notin fs
      PROVE  D!AtOnce(door, Url, fs) = D!Coded(door, "TDocUrlNotFound")
  <2>1. \A i \in 1 .. 7 : ~ D!Fails(h[i], h, fs)
    <3>1. ~ D!Fails(h[1], h, fs)
      BY <1>1, <1>4 DEF D!Fails
    <3>2. \A i \in 2 .. 7 : ~ D!Fails(h[i], h, fs)
      BY <1>1 DEF D!Fails
    <3> QED
      BY <3>1, <3>2
  <2>2. \A i \in DOMAIN h : h[i].kind = "note" => h[i].fact \notin fs
    BY <1>1, <1>4
  <2>3. D!Fails(h[8], h, fs)
    BY <1>1, <2>2 DEF D!Fails
  <2>4. failing = {8}
    BY <1>1, <2>1, <2>3
  <2>5. D!Min(failing) = 8
    BY <2>4 DEF D!Min
  <2> QED
    BY <1>1, <1>2, <2>4, <2>5
<1> QED
  BY <1>3, <1>4

There == D!Handler(request.door, request.question)
Elsewhere(fs) == D!AtOnce(D!Other(request.door), request.question, fs)

Split ==
  \E x \in D!FactsOf(request.question) : \E before \in Near(facts, x), s \in 1 .. request.pc :
    /\ D!Given \subseteq before /\ Elsewhere(before) \in possible
    /\ Passed(There, 1, s, before) /\ Passed(There, s, request.pc, facts)

UrlPassed ==
  /\ request.pc > 1 => "path" \in facts
  /\ request.pc > 2 /\ ~ request.noted /\ (\A i \in 2 .. 7 : request.pc <= i => UrlFacts[i] \notin facts) =>
       D!Coded(request.door, "TDocUrlNotFound") \in possible

DoorsInv ==
  /\ DOMAIN request = {"pc", "door", "question", "noted"}
  /\ request.door \in Sides /\ request.question \in D!Questions /\ request.pc \in Int
  /\ D!Given \subseteq facts /\ writes \in Nat
  /\ D!DoorsAgree
  /\ request.pc = 0 => answer = "none" /\ writes = 0
  /\ request.pc > 0 =>
       /\ answer = "none" /\ request.pc <= Len(There) /\ Elsewhere(facts) \in possible
       /\ request.question # Url /\ writes = 0 => Passed(There, 1, request.pc, facts)
       /\ request.question # Url /\ writes = 1 => Split
       /\ request.question = Url => UrlPassed

\* Nobody has asked at first.
LEMMA DoorsBegin == D!Init => DoorsInv
<1> SUFFICES ASSUME D!Init PROVE DoorsInv
  OBVIOUS
<1>1. /\ request \in {[D!Idle EXCEPT !.question = question] : question \in D!Questions}
      /\ facts \in {D!Given \cup known : known \in SUBSET D!FactsOf(request.question)}
      /\ answer = "none" /\ writes = 0
  BY DEF D!Init
<1>2. PICK q \in D!Questions : request = [D!Idle EXCEPT !.question = q]
  BY <1>1
<1>3. request = [pc |-> 0, door |-> "site", question |-> q, noted |-> FALSE]
  BY <1>2 DEF D!Idle
<1>4. D!Given \subseteq facts
  BY <1>1
<1> QED
  BY <1>1, <1>3, <1>4 DEF DoorsInv, D!DoorsAgree, Sides

\* The same, for the other door.
LEMMA AtOnceAlike ==
  ASSUME NEW door \in Sides, NEW q \in D!Questions, NEW fs, D!Given \subseteq fs
  PROVE  D!AtOnce(door, q, fs) = D!AtOnce(D!Other(door), q, fs)
  BY SameAtOnce DEF Sides, D!Other

\* No handler is without a check.
LEMMA HandlerLength ==
  ASSUME NEW door \in Sides, NEW q \in D!Questions
  PROVE  Len(D!Handler(door, q)) \in Nat /\ Len(D!Handler(door, q)) >= 1
<1>1. CASE q = Url
  BY <1>1, UrlHandler
<1>2. CASE q # Url
  <2>1. Sound(D!Handler(door, q))
    BY <1>2, SoundHandlers
  <2> QED
    BY <2>1 DEF Sound
<1> QED
  BY <1>1, <1>2

\* A question that is asked keeps DoorsInv.
LEMMA DoorsAsked ==
  ASSUME DoorsInv, NEW door \in Sides, D!Ask(door)
  PROVE  DoorsInv'
<1>1. /\ request.pc = 0 /\ request' = [request EXCEPT !.pc = 1, !.door = door]
      /\ possible' = {D!AtOnce(D!Other(door), request.question, facts)}
      /\ facts' = facts /\ answer' = answer /\ writes' = writes
  BY DEF D!Ask
<1>2. /\ request'.pc = 1 /\ request'.door = door /\ request'.question = request.question
      /\ DOMAIN request' = {"pc", "door", "question", "noted"}
  BY <1>1 DEF DoorsInv
<1>3. There' = D!Handler(door, request.question) /\ Elsewhere(facts)' \in possible'
  BY <1>1, <1>2 DEF There, Elsewhere
<1>4. Len(There') \in Nat /\ 1 <= Len(There') /\ request.question \in D!Questions
  BY <1>3, HandlerLength DEF DoorsInv
<1>5. Passed(There', 1, 1, facts)
  BY <1>4 DEF Passed
<1>6. UrlPassed'
  BY <1>2 DEF UrlPassed
<1>7. answer' = "none" /\ writes' = 0 /\ D!Given \subseteq facts'
  BY <1>1 DEF DoorsInv
<1>8. D!DoorsAgree'
  BY <1>7 DEF D!DoorsAgree
<1> QED
  BY <1>1, <1>2, <1>3, <1>4, <1>5, <1>6, <1>7, <1>8 DEF DoorsInv

\* A check that fails, where what is needed is checked.
LEMMA FailIsPossible ==
  ASSUME DoorsInv, request.pc > 0, request.question # Url, writes <= 1,
         ~ Holds(There[request.pc], facts)
  PROVE  D!Coded(request.door, There[request.pc].exception) \in possible
<1> DEFINE k == request.pc
           h == There
<1>1. /\ Sound(h) /\ k \in 1 .. Len(h) /\ Len(h) \in Nat /\ writes \in Nat /\ D!Given \subseteq facts
      /\ request.door \in Sides /\ request.question \in D!Questions
  BY SoundHandlers DEF DoorsInv, There, Sound
<1>2. ASSUME NEW fs, D!Given \subseteq fs, Elsewhere(fs) \in possible, FailsAt(h, fs, k)
      PROVE  D!Coded(request.door, h[k].exception) \in possible
  <2>1. D!AtOnce(request.door, request.question, fs) = D!Coded(request.door, h[k].exception)
    BY <1>1, <1>2, AtOnceIs DEF There
  <2>2. D!AtOnce(request.door, request.question, fs) = Elsewhere(fs)
    BY <1>1, <1>2, AtOnceAlike DEF Elsewhere
  <2> QED
    BY <1>2, <2>1, <2>2
<1>3. CASE writes = 0
  <2>1. Passed(h, 1, k, facts) /\ Elsewhere(facts) \in possible
    BY <1>3 DEF DoorsInv
  <2>2. FailsAt(h, facts, k)
    BY <1>1, <2>1 DEF FailsAt, Passed
  <2> QED
    BY <1>1, <1>2, <2>1, <2>2
<1>4. CASE writes = 1
  <2>1. Split /\ Elsewhere(facts) \in possible
    BY <1>4 DEF DoorsInv
  <2>x. PICK x \in D!FactsOf(request.question) : \E before \in Near(facts, x), s \in 1 .. k :
          /\ D!Given \subseteq before /\ Elsewhere(before) \in possible
          /\ Passed(h, 1, s, before) /\ Passed(h, s, k, facts)
    BY <2>1 DEF Split
  <2>2. PICK before \in Near(facts, x), s \in 1 .. k :
          /\ D!Given \subseteq before /\ Elsewhere(before) \in possible
          /\ Passed(h, 1, s, before) /\ Passed(h, s, k, facts)
    BY <2>x
  <2>3. FailsAt(h, facts, k) \/ FailsAt(h, before, k)
    <3>1. Sound(h) /\ k \in 1 .. Len(h) /\ ~ Holds(h[k], facts)
      BY <1>1
    <3> HIDE DEF h, k
    <3> QED
      BY <2>2, <3>1, OneWriteTells
  <2> QED
    BY <1>1, <1>2, <2>1, <2>2, <2>3
<1> QED
  BY <1>1, <1>3, <1>4

\* So does a check that is made.
LEMMA DoorsChecked ==
  ASSUME DoorsInv, D!Check
  PROVE  DoorsInv'
<1> DEFINE k == request.pc
           h == There
           check == h[k]
           fails == IF check.kind = "some" THEN ~ request.noted ELSE check.kind = "need" /\ check.fact \notin facts
           last == k = Len(h)
           code == D!Coded(request.door, check.exception)
<1>1. /\ k > 0
      /\ answer' = IF fails THEN code ELSE IF last THEN "content" ELSE answer
      /\ request' = [request EXCEPT !.pc = IF fails \/ last THEN -1 ELSE k + 1,
                                    !.noted = request.noted \/ (check.kind = "note" /\ check.fact \in facts)]
      /\ facts' = facts /\ possible' = possible /\ writes' = writes
  BY DEF D!Check, There
<1>2. /\ request.door \in Sides /\ request.question \in D!Questions /\ k \in Int /\ k <= Len(h)
      /\ DOMAIN request = {"pc", "door", "question", "noted"}
      /\ D!Given \subseteq facts /\ writes \in Nat /\ answer = "none" /\ Elsewhere(facts) \in possible
  BY <1>1 DEF DoorsInv
<1> HIDE DEF h, k, check, fails, last, code
<1>3. /\ request'.pc = IF fails \/ last THEN -1 ELSE k + 1
      /\ request'.noted = (request.noted \/ (check.kind = "note" /\ check.fact \in facts))
      /\ request'.door = request.door /\ request'.question = request.question
      /\ DOMAIN request' = {"pc", "door", "question", "noted"}
  BY <1>1, <1>2
<1>4. There' = h /\ Elsewhere(facts)' = Elsewhere(facts)
  BY <1>1, <1>3 DEF There, Elsewhere, h
<1>5. Len(h) \in Nat /\ Len(h) >= 1
  BY <1>2, HandlerLength DEF h, There
<1>6. ASSUME fails, writes <= 1 \/ request.question = Url PROVE code \in possible
  <2>1. CASE request.question # Url
    <3>1. Sound(h)
      BY <1>2, <2>1, SoundHandlers DEF h, There
    <3>2. k \in 1 .. Len(h)
      BY <1>1, <1>2, <1>5
    <3>3. ~ Holds(check, facts)
      BY <1>6, <3>1, <3>2 DEF Sound, Holds, check, fails
    <3> QED
      BY <3>3, <2>1, <1>6, <1>1, FailIsPossible DEF code, check, h, k
  <2>2. CASE request.question = Url
    <3>1. h = D!Handler(request.door, Url)
      BY <2>2 DEF h, There
    <3>2. /\ Len(h) = 8 /\ h[1] = D!Need("path", "InvalidFilter") /\ h[8] = D!SomeNoted("TDocUrlNotFound")
          /\ \A i \in 2 .. 7 : h[i].kind = "note" /\ h[i].fact = UrlFacts[i]
      BY <1>2, <3>1, UrlHandler
    <3>3. k \in 1 .. 8
      BY <1>1, <1>2, <3>2
    <3>4. k \notin 2 .. 7
      BY <1>6, <3>2 DEF fails, check
    <3>5. CASE k = 1
      <4>1. "path" \notin facts /\ code = D!Coded(request.door, "InvalidFilter")
        BY <1>6, <3>2, <3>5 DEF fails, check, code, D!Need
      <4>2. D!AtOnce(request.door, Url, facts) = code
        BY <4>1, <1>2, UrlAtOnce
      <4> QED
        BY <4>2, <1>2, <2>2, AtOnceAlike DEF Elsewhere
    <3>6. CASE k = 8
      <4>1. ~ request.noted /\ code = D!Coded(request.door, "TDocUrlNotFound")
        BY <1>6, <3>2, <3>6 DEF fails, check, code, D!SomeNoted
      <4>2. UrlPassed
        BY <2>2, <1>1 DEF DoorsInv, k
      <4>3. \A i \in 2 .. 7 : ~ (k <= i)
        BY <3>6
      <4> QED
        BY <4>1, <4>2, <4>3, <3>6 DEF UrlPassed, k
    <3> QED
      BY <3>3, <3>4, <3>5, <3>6
  <2> QED
    BY <2>1, <2>2
<1>7. D!DoorsAgree'
  BY <1>1, <1>2, <1>3, <1>6 DEF D!DoorsAgree, Url
<1>8. ASSUME ~ fails, ~ last
      PROVE  /\ k + 1 <= Len(h) /\ answer' = "none"
             /\ request.question # Url /\ writes = 0 => Passed(h, 1, k + 1, facts)
             /\ request.question # Url /\ writes = 1 => Split'
             /\ request.question = Url => UrlPassed'
  <2>1. k + 1 <= Len(h) /\ k \in 1 .. Len(h)
    BY <1>1, <1>2, <1>5, <1>8 DEF last
  <2>2. ASSUME request.question # Url, NEW s \in 1 .. k, Passed(h, s, k, facts) PROVE Passed(h, s, k + 1, facts)
    <3>1. Holds(check, facts)
      <4>1. Sound(h)
        BY <1>2, <2>2, SoundHandlers DEF h, There
      <4> QED
        BY <4>1, <1>8, <2>1 DEF Sound, Holds, fails, check
    <3> QED
      BY <2>2, <3>1, <2>1, <1>2 DEF Passed, check
  <2>3. ASSUME request.question # Url, writes = 0 PROVE Passed(h, 1, k + 1, facts)
    <3>1. Passed(h, 1, k, facts)
      BY <2>3, <1>1 DEF DoorsInv, h, k
    <3> QED
      BY <2>2, <2>3, <3>1, <2>1
  <2>4. ASSUME request.question # Url, writes = 1 PROVE Split'
    <3>1. Split
      BY <2>4, <1>1 DEF DoorsInv, k
    <3>2. PICK x \in D!FactsOf(request.question) : \E before \in Near(facts, x), s \in 1 .. k :
            /\ D!Given \subseteq before /\ Elsewhere(before) \in possible
            /\ Passed(h, 1, s, before) /\ Passed(h, s, k, facts)
      BY <3>1 DEF Split, h, k
    <3>3. PICK before \in Near(facts, x), s \in 1 .. k :
            /\ D!Given \subseteq before /\ Elsewhere(before) \in possible
            /\ Passed(h, 1, s, before) /\ Passed(h, s, k, facts)
      BY <3>2
    <3>4. Passed(h, s, k + 1, facts) /\ s \in 1 .. (k + 1)
      BY <2>2, <2>4, <3>3, <2>1, <1>2
    <3>5. /\ request'.pc = k + 1 /\ facts' = facts /\ possible' = possible /\ There' = h
          /\ request'.question = request.question
      BY <1>1, <1>3, <1>4, <1>8
    <3>6. Elsewhere(before)' = Elsewhere(before)
      BY <1>3 DEF Elsewhere
    <3> QED
      BY <3>3, <3>4, <3>5, <3>6 DEF Split
  <2>5. ASSUME request.question = Url PROVE UrlPassed'
    <3>1. h = D!Handler(request.door, Url)
      BY <2>5 DEF h, There
    <3>2. /\ Len(h) = 8 /\ h[1] = D!Need("path", "InvalidFilter") /\ h[8] = D!SomeNoted("TDocUrlNotFound")
          /\ \A i \in 2 .. 7 : h[i].kind = "note" /\ h[i].fact = UrlFacts[i]
      BY <1>2, <3>1, UrlHandler
    <3>3. UrlPassed /\ k \in 1 .. 7
      BY <2>5, <1>1, <2>1, <3>2 DEF DoorsInv, k
    <3>4. "path" \in facts
      <4>1. CASE k = 1
        BY <4>1, <1>8, <3>2 DEF fails, check, D!Need
      <4>2. CASE k > 1
        BY <4>2, <3>3 DEF UrlPassed, k
      <4> QED
        BY <4>1, <4>2, <3>3
    <3>5. ASSUME k + 1 > 2, ~ request'.noted, \A i \in 2 .. 7 : k + 1 <= i => UrlFacts[i] \notin facts
          PROVE  D!Coded(request.door, "TDocUrlNotFound") \in possible
      <4>1. k \in 2 .. 7 /\ check.kind = "note" /\ check.fact = UrlFacts[k]
        BY <3>2, <3>3, <3>5 DEF check
      <4>2. ~ request.noted /\ UrlFacts[k] \notin facts
        BY <4>1, <3>5, <1>3
      <4>3. \A i \in 2 .. 7 : k <= i => UrlFacts[i] \notin facts
        BY <4>1, <4>2, <3>5
      <4>4. CASE k = 2
        <5>1. D!AtOnce(request.door, Url, facts) = D!Coded(request.door, "TDocUrlNotFound")
          BY <4>3, <4>4, <3>4, <1>2, UrlAtOnce
        <5> QED
          BY <5>1, <1>2, <2>5, AtOnceAlike DEF Elsewhere
      <4>5. CASE k > 2
        BY <4>2, <4>3, <4>5, <3>3 DEF UrlPassed, k
      <4> QED
        BY <4>1, <4>4, <4>5
    <3> QED
      BY <3>4, <3>5, <1>1, <1>3, <1>8 DEF UrlPassed
  <2> QED
    BY <2>1, <2>3, <2>4, <2>5, <1>1, <1>2, <1>8
<1>9. CASE fails \/ last
  BY <1>1, <1>2, <1>3, <1>7, <1>9 DEF DoorsInv
<1>10. CASE ~ fails /\ ~ last
  BY <1>1, <1>2, <1>3, <1>4, <1>7, <1>8, <1>10 DEF DoorsInv
<1> QED
  BY <1>9, <1>10

\* So does a fact that comes or goes meanwhile: the answer the other door would give at
\* once is remembered.
LEMMA DoorsWritten ==
  ASSUME DoorsInv, NEW fact \in D!FactsOf(request.question), D!Write(fact)
  PROVE  DoorsInv'
<1>1. /\ request.pc > 0 /\ writes' = writes + 1
      /\ fact \notin D!Fixed /\ (fact \in facts => fact \in D!Wavering)
      /\ facts' = (IF fact \in facts THEN facts \ {fact} ELSE facts \cup {fact})
      /\ possible' = possible \cup {Elsewhere(facts')}
      /\ request' = request /\ answer' = answer
  BY DEF D!Write, Elsewhere
<1>2. /\ request.question \in D!Questions /\ request.pc \in Int /\ request.pc <= Len(There)
      /\ D!Given \subseteq facts /\ writes \in Nat /\ answer = "none" /\ Elsewhere(facts) \in possible
  BY <1>1 DEF DoorsInv
<1>3. D!Given \subseteq facts' /\ ("path" \in facts => "path" \in facts')
  BY <1>1, <1>2 DEF D!Fixed
<1>4. There' = There /\ Elsewhere(facts)' = Elsewhere(facts')
  BY <1>1 DEF There, Elsewhere
<1>5. D!DoorsAgree'
  BY <1>1, <1>2 DEF D!DoorsAgree
<1>6. ASSUME request.question # Url, writes' = 1 PROVE Split'
  <2>1. writes = 0
    BY <1>6, <1>1, <1>2
  <2>2. Passed(There, 1, request.pc, facts)
    BY <2>1, <1>6, <1>1 DEF DoorsInv
  <2>3. facts \in Near(facts', fact)
    BY <1>1 DEF Near
  <2>4. Passed(There, request.pc, request.pc, facts')
    <3>1. Len(There) \in Nat
      BY <1>2, HandlerLength DEF There, DoorsInv
    <3> QED
      BY <3>1, <1>2 DEF Passed
  <2>5. request.pc \in 1 .. request.pc
    BY <1>1, <1>2
  <2>6. /\ \E s \in 1 .. request.pc : Passed(There, 1, s, facts) /\ Passed(There, s, request.pc, facts')
        /\ Elsewhere(facts) \in possible' /\ D!Given \subseteq facts
    BY <2>2, <2>4, <2>5, <1>1, <1>2
  <2>7. \A fs : D!AtOnce(D!Other(request'.door), request'.question, fs) = Elsewhere(fs)
    BY <1>1 DEF Elsewhere
  <2>8. \E before \in Near(facts', fact), s \in 1 .. request'.pc :
          /\ D!Given \subseteq before /\ D!AtOnce(D!Other(request'.door), request'.question, before) \in possible'
          /\ Passed(There', 1, s, before) /\ Passed(There', s, request'.pc, facts')
    BY <2>2, <2>3, <2>4, <2>5, <2>6, <2>7, <1>1, <1>4
  <2>9. fact \in D!FactsOf(request'.question)
    BY <1>1
  <2> QED
    BY <2>8, <2>9 DEF Split, Elsewhere
<1>7. ASSUME request.question = Url PROVE UrlPassed'
  <2>1. UrlPassed
    BY <1>7, <1>1 DEF DoorsInv
  <2>2. \A i \in 3 .. 7 : UrlFacts[i] \notin D!Wavering
    <3>1. /\ UrlFacts[3] = "cover" /\ UrlFacts[4] = "extracted" /\ UrlFacts[5] = "changes"
          /\ UrlFacts[6] = "files" /\ UrlFacts[7] = "inventory"
      BY DEF UrlFacts
    <3>2. \A i \in 3 .. 7 : i = 3 \/ i = 4 \/ i = 5 \/ i = 6 \/ i = 7
      OBVIOUS
    <3> QED
      BY <3>1, <3>2 DEF D!Wavering
  <2>3. \A i \in 3 .. 7 : UrlFacts[i] \in facts => UrlFacts[i] \in facts'
    BY <2>2, <1>1
  <2>4. \A i \in 2 .. 7 : request.pc > 2 /\ request.pc <= i => i \in 3 .. 7
    BY <1>2
  <2> QED
    BY <2>1, <2>3, <2>4, <1>1, <1>3 DEF UrlPassed
<1>8. writes' # 0 /\ writes' \in Nat
  BY <1>1, <1>2
<1>9. Elsewhere(facts)' \in possible'
  BY <1>1, <1>4
<1>10. /\ DOMAIN request' = {"pc", "door", "question", "noted"}
       /\ request'.door \in Sides /\ request'.question \in D!Questions /\ request'.pc \in Int
       /\ request'.pc <= Len(There') /\ answer' = "none" /\ request'.pc # 0
  BY <1>1, <1>2, <1>4 DEF DoorsInv
<1> QED
  BY <1>1, <1>3, <1>5, <1>6, <1>7, <1>8, <1>9, <1>10 DEF DoorsInv

\* DoorsInv is inductive.
LEMMA DoorsKept == DoorsInv /\ [D!Next]_(D!vars) => DoorsInv'
<1> SUFFICES ASSUME DoorsInv, [D!Next]_(D!vars) PROVE DoorsInv'
  OBVIOUS
<1>1. CASE UNCHANGED D!vars
  <2>1. /\ request' = request /\ facts' = facts /\ possible' = possible
        /\ answer' = answer /\ writes' = writes
    BY <1>1 DEF D!vars
  <2>2. There' = There /\ Elsewhere(facts)' = Elsewhere(facts)
    BY <2>1 DEF There, Elsewhere
  <2>3. Split => Split'
    BY <2>1 DEF Split, There, Elsewhere
  <2>4. (UrlPassed => UrlPassed') /\ (D!DoorsAgree => D!DoorsAgree')
    BY <2>1 DEF UrlPassed, D!DoorsAgree
  <2> QED
    BY <2>1, <2>2, <2>3, <2>4 DEF DoorsInv
<1>2. ASSUME NEW door \in {"site", "mcp"}, D!Ask(door) PROVE DoorsInv'
  BY <1>2, DoorsAsked DEF Sides
<1>3. CASE D!Check
  BY <1>3, DoorsChecked
<1>4. ASSUME NEW fact \in D!FactsOf(request.question), D!Write(fact) PROVE DoorsInv'
  BY <1>4, DoorsWritten
<1> QED
  BY <1>1, <1>2, <1>3, <1>4 DEF D!Next

\* It holds what the property says.
LEMMA DoorsSame == DoorsInv => D!DoorsAgree
  BY DEF DoorsInv

----------------------------------------------------------------------------
(* Pages: the part of a sequence after an offset, whichever way it is cut.       *)

Lower(a, b) == IF a < b THEN a ELSE b
Part(s, offset, limit) == SubSeq(s, offset + 1, Lower(offset + limit, Len(s)))

\* Its length and its elements.
LEMMA PartIs ==
  ASSUME NEW Els, NEW s \in Seq(Els), NEW o \in Nat, NEW n \in Nat
  PROVE  /\ Part(s, o, n) \in Seq(Els) /\ Len(s) \in Nat
         /\ Len(Part(s, o, n)) = IF o < Len(s) THEN Lower(n, Len(s) - o) ELSE 0
         /\ \A i \in 1 .. Len(Part(s, o, n)) : Part(s, o, n)[i] = s[o + i]
         /\ \A i \in 1 .. Len(s) : o < i /\ i <= o + n =>
              i - o \in 1 .. Len(Part(s, o, n)) /\ Part(s, o, n)[i - o] = s[i]
<1> DEFINE k == Lower(o + n, Len(s))
           p == Part(s, o, n)
<1>1. Len(s) \in Nat /\ k \in Nat /\ k <= Len(s) /\ k <= o + n /\ (k = o + n \/ k = Len(s))
  BY DEF Lower
<1>2. p = SubSeq(s, o + 1, k)
  BY DEF Part
<1> HIDE DEF k, p
<1>3. /\ p \in Seq(Els) /\ Len(p) = (IF o + 1 <= k THEN k - o ELSE 0)
      /\ \A i \in 1 .. (k - o) : p[i] = s[o + i]
  <2>1. /\ p \in Seq(Els) /\ Len(p) = (IF o + 1 <= k THEN k - (o + 1) + 1 ELSE 0)
        /\ \A i \in 1 .. (k - (o + 1) + 1) : p[i] = s[(o + 1) + i - 1]
    BY <1>1, <1>2, SubSeqIs
  <2>2. k - (o + 1) + 1 = k - o /\ \A i \in Int : (o + 1) + i - 1 = o + i
    BY <1>1
  <2> QED
    BY <2>1, <2>2, <1>1
<1>4. Len(p) = IF o < Len(s) THEN Lower(n, Len(s) - o) ELSE 0
  BY <1>1, <1>3 DEF Lower, k
<1>5. \A i \in 1 .. Len(p) : p[i] = s[o + i]
  BY <1>1, <1>3
<1>6. ASSUME NEW i \in 1 .. Len(s), o < i, i <= o + n
      PROVE  i - o \in 1 .. Len(p) /\ p[i - o] = s[i]
  <2>1. i \in Int /\ i <= k
    BY <1>1, <1>6
  <2>2. i - o \in 1 .. Len(p) /\ o + (i - o) = i
    BY <1>1, <1>3, <1>6, <2>1
  <2> QED
    BY <2>2, <1>5
<1> QED
  BY <1>1, <1>3, <1>4, <1>5, <1>6 DEF p

\* LIMIT and OFFSET cut such a part.
LEMMA SqlIs ==
  ASSUME NEW Els, NEW s \in Seq(Els), NEW o \in Nat, NEW n \in Nat
  PROVE  L!Sql(s, n, o) = Part(s, o, n)
<1> DEFINE r == SubSeq(s, o + 1, Len(s))
           k == Lower(o + n, Len(s))
<1>1. Len(s) \in Nat /\ o + 1 \in Nat /\ o + 1 >= 1
  OBVIOUS
<1>2. /\ r \in Seq(Els) /\ Len(r) = (IF o + 1 <= Len(s) THEN Len(s) - o ELSE 0)
      /\ \A i \in 1 .. (Len(s) - o) : r[i] = s[o + i]
  <2>1. /\ r \in Seq(Els) /\ Len(r) = (IF o + 1 <= Len(s) THEN Len(s) - (o + 1) + 1 ELSE 0)
        /\ \A i \in 1 .. (Len(s) - (o + 1) + 1) : r[i] = s[(o + 1) + i - 1]
    BY <1>1, SubSeqIs
  <2>2. Len(s) - (o + 1) + 1 = Len(s) - o /\ \A i \in Int : (o + 1) + i - 1 = o + i
    BY <1>1
  <2> QED
    BY <2>1, <2>2, <1>1
<1>3. L!Sql(s, n, o) = IF n >= Len(r) THEN r ELSE SubSeq(r, 1, n)
  BY DEF L!Sql, L!Rest
<1>4. Len(r) \in Nat
  BY <1>1, <1>2
<1> DEFINE p == Part(s, o, n)
<1>5. /\ p \in Seq(Els) /\ Len(p) = IF o < Len(s) THEN Lower(n, Len(s) - o) ELSE 0
      /\ \A i \in 1 .. Len(p) : p[i] = s[o + i]
  BY PartIs
<1> HIDE DEF r, p
<1>6. CASE n >= Len(r)
  <2>1. Len(p) = Len(r) /\ \A i \in 1 .. Len(p) : p[i] = r[i]
    BY <1>1, <1>2, <1>5, <1>6 DEF Lower
  <2> QED
    BY <2>1, <1>2, <1>3, <1>5, <1>6, SeqEqual DEF p
<1>7. CASE n < Len(r)
  <2>1. Len(p) = n /\ n <= Len(r) /\ n <= Len(s) - o
    BY <1>1, <1>2, <1>4, <1>5, <1>7 DEF Lower
  <2>2. /\ SubSeq(r, 1, n) \in Seq(Els) /\ Len(SubSeq(r, 1, n)) = (IF 1 <= n THEN n - 1 + 1 ELSE 0)
        /\ \A i \in 1 .. (n - 1 + 1) : SubSeq(r, 1, n)[i] = r[1 + i - 1]
    BY <1>2, <2>1, SubSeqIs
  <2>3. Len(SubSeq(r, 1, n)) = n
    BY <2>2
  <2>4. ASSUME NEW i \in 1 .. n PROVE SubSeq(r, 1, n)[i] = p[i]
    <3>1. i \in 1 .. (n - 1 + 1) /\ 1 + i - 1 = i /\ i \in 1 .. (Len(s) - o)
      BY <2>1, <1>1
    <3> QED
      BY <3>1, <2>1, <2>2, <1>2, <1>5
  <2>5. SubSeq(r, 1, n) = p
    BY <2>1, <2>2, <2>3, <2>4, <1>5, SeqEqual
  <2> QED
    BY <2>5, <1>3, <1>4, <1>7 DEF p
<1> QED
  BY <1>4, <1>6, <1>7

\* So does a slice.
LEMMA SliceIs ==
  ASSUME NEW s, NEW o \in Nat, NEW n \in Nat, Len(s) \in Nat
  PROVE  L!Slice(s, o, o + n) = Part(s, o, n)
<1>1. (IF o + n < 0 THEN Len(s) + (o + n) ELSE IF o + n > Len(s) THEN Len(s) ELSE o + n) = Lower(o + n, Len(s))
  BY DEF Lower
<1> QED
  BY <1>1 DEF L!Slice, Part

\* So does a slice of what was read to the end of the page.
LEMMA PartOfPart ==
  ASSUME NEW Els, NEW s \in Seq(Els), NEW o \in Nat, NEW n \in Nat
  PROVE  Part(Part(s, 0, n + o), o, n) = Part(s, o, n)
<1> DEFINE t == Part(s, 0, n + o)
           p == Part(t, o, n)
           q == Part(s, o, n)
<1>1. /\ t \in Seq(Els) /\ Len(s) \in Nat /\ Len(t) = (IF 0 < Len(s) THEN Lower(n + o, Len(s) - 0) ELSE 0)
      /\ \A i \in 1 .. Len(t) : t[i] = s[0 + i]
  BY PartIs
<1> HIDE DEF t
<1>2. /\ p \in Seq(Els) /\ Len(p) = (IF o < Len(t) THEN Lower(n, Len(t) - o) ELSE 0) /\ Len(t) \in Nat
      /\ \A i \in 1 .. Len(p) : p[i] = t[o + i]
  BY <1>1, PartIs
<1>3. /\ q \in Seq(Els) /\ Len(q) = (IF o < Len(s) THEN Lower(n, Len(s) - o) ELSE 0)
      /\ \A i \in 1 .. Len(q) : q[i] = s[o + i]
  BY PartIs
<1> HIDE DEF p, q
<1>4. Len(t) = Lower(n + o, Len(s))
  BY <1>1 DEF Lower
<1>5. Len(p) = Len(q)
  BY <1>1, <1>2, <1>3, <1>4 DEF Lower
<1>6. ASSUME NEW i \in 1 .. Len(p) PROVE p[i] = q[i]
  <2>1. o + i \in 1 .. Len(t) /\ 0 + (o + i) = o + i
    BY <1>2 DEF Lower
  <2> QED
    BY <2>1, <1>1, <1>2, <1>3, <1>5
<1>7. p = q
  BY <1>2, <1>3, <1>5, <1>6, SeqEqual
<1> QED
  BY <1>7 DEF p, q, t

----------------------------------------------------------------------------
(* The rows in the order of a query.                                             *)

Up(query) == query.order = "up"

\* The instance counts as the module does.
LEMMA ListCardinality == \A X : L!Cardinality(X) = Cardinality(X)
  BY DEF L!Cardinality, Cardinality

\* Keys are numbers, so sets of them are finite and have ranks.
LEMMA IdsAreNumbers ==
  ASSUME NEW T, T \subseteq L!Ids
  PROVE  T \subseteq Nat /\ IsFiniteSet(T) /\ Cardinality(T) \in Nat
<1>1. L!Ids \subseteq Nat /\ IsFiniteSet(L!Ids) /\ T \in SUBSET L!Ids
  BY KeysAndPages, FS_Interval DEF L!Ids
<1> QED
  BY <1>1, FS_Subset, FS_CardinalityType

\* An order gives each key a place of its own.
LEMMA OrdersPlace ==
  ASSUME NEW query, NEW f \in L!Orders(query)
  PROVE  /\ \A i \in L!Ids : f[i] \in Nat
         /\ \A i, j \in L!Ids : f[i] = f[j] => i = j
         /\ \A i \in L!Ids \ L!Loose(query), j \in L!Ids :
              f[j] <= f[i] <=> L!Sorted(query)[j] <= L!Sorted(query)[i]
<1> DEFINE g == L!Sorted(query)
<1>1. L!Ids \subseteq Nat /\ N \in Nat /\ \A i \in L!Ids : i \in 1 .. N
  BY KeysAndPages DEF L!Ids
<1>2. /\ \A i \in L!Ids : g[i] \in Nat
      /\ \A i, j \in L!Ids : g[i] = g[j] => i = j
  BY <1>1 DEF L!Sorted
<1> HIDE DEF g
<1>3. CASE ~ query.ties
  BY <1>2, <1>3 DEF L!Orders, g
<1>4. CASE query.ties
  <2>1. /\ f \in [L!Ids -> L!Ids]
        /\ \A i, j \in L!Ids : i # j =>
             f[i] # f[j] /\ (~ {i, j} \subseteq Tied => (f[i] < f[j] <=> g[i] < g[j]))
    BY <1>4 DEF L!Orders, g
  <2>2. \A i \in L!Ids : f[i] \in Nat
    BY <2>1, <1>1
  <2>3. ASSUME NEW i \in L!Ids \ Tied, NEW j \in L!Ids PROVE f[j] <= f[i] <=> g[j] <= g[i]
    <3>1. CASE i = j
      BY <3>1, <1>2, <2>2
    <3>2. CASE i # j
      <4>1. f[i] # f[j] /\ g[i] # g[j] /\ (f[j] < f[i] <=> g[j] < g[i])
        BY <3>2, <2>1, <1>2
      <4> QED
        BY <4>1, <2>2, <1>2
    <3> QED
      BY <3>1, <3>2
  <2> QED
    BY <1>4, <2>1, <2>2, <2>3 DEF L!Loose, g
<1> QED
  BY <1>3, <1>4

\* As many places as keys.
LEMMA PlacesCount ==
  ASSUME NEW f, NEW T, IsFiniteSet(T), \A i, j \in T : f[i] = f[j] => i = j
  PROVE  IsFiniteSet({f[i] : i \in T}) /\ Cardinality({f[i] : i \in T}) = Cardinality(T)
<1> DEFINE U == {f[i] : i \in T}
           h == [i \in T |-> f[i]]
<1>1. h \in Bijection(T, U)
  <2>1. h \in [T -> U] /\ IsInjective(h)
    BY DEF IsInjective
  <2>2. \A u \in U : \E i \in T : h[i] = u
    OBVIOUS
  <2> HIDE DEF h, U
  <2> QED
    BY <2>1, <2>2 DEF Bijection, Injection, Surjection
<1>2. ExistsBijection(T, U)
  BY <1>1 DEF ExistsBijection
<1> QED
  BY <1>2, FS_Bijection

\* The rank of a row in an order; that of a row that ties with none is the same in all.
RankBy(f, T, i) == Cardinality({j \in T : f[j] <= f[i]})

LEMMA SameRank ==
  ASSUME NEW query, NEW f \in L!Orders(query), NEW T, T \subseteq L!Ids,
         NEW i \in T, i \notin L!Loose(query)
  PROVE  RankBy(f, T, i) = RankIn(Up(query), T, i)
<1>1. N \in Nat /\ \A j \in T : j \in Nat /\ j \in L!Ids
  BY KeysAndPages DEF L!Ids
<1>2. \A j \in T : f[j] <= f[i] <=> L!Sorted(query)[j] <= L!Sorted(query)[i]
  BY <1>1, OrdersPlace
<1>3. \A j \in T : L!Sorted(query)[j] = IF Up(query) THEN j ELSE N + 1 - j
  BY <1>1 DEF L!Sorted, Up
<1>4. \A j \in T : f[j] <= f[i] <=> Ahead(Up(query), j, i)
  BY <1>1, <1>2, <1>3 DEF Ahead
<1>5. {j \in T : f[j] <= f[i]} = Upto(Up(query), T, i)
  BY <1>4 DEF Upto
<1> QED
  BY <1>5 DEF RankBy, RankIn

\* The rows in an order: each once, at its rank.
LEMMA OrderedIs ==
  ASSUME NEW query, NEW f \in L!Orders(query), NEW T, T \subseteq L!Ids
  PROVE  LET s == L!Ordered(f, T) IN
         /\ s \in Seq(T) /\ Len(s) = Cardinality(T) /\ Len(s) \in Nat
         /\ \A i \in T : RankBy(f, T, i) \in 1 .. Len(s) /\ s[RankBy(f, T, i)] = i
         /\ L!Members(s) = T
<1> DEFINE s == L!Ordered(f, T)
           n == Cardinality(T)
           U == {f[i] : i \in T}
<1>1. T \subseteq Nat /\ IsFiniteSet(T) /\ n \in Nat
  BY IdsAreNumbers
<1>2. (\A i \in T : f[i] \in Nat) /\ \A i, j \in T : f[i] = f[j] => i = j
  BY OrdersPlace
<1>3. U \subseteq Nat /\ IsFiniteSet(U) /\ Cardinality(U) = n
  BY <1>1, <1>2, PlacesCount
<1>4. ASSUME NEW i \in T PROVE RankBy(f, T, i) = RankIn(TRUE, U, f[i])
  <2> DEFINE P == {j \in T : f[j] <= f[i]}
  <2>1. IsFiniteSet(P) /\ \A j, k \in P : f[j] = f[k] => j = k
    <3>1. P \in SUBSET T
      OBVIOUS
    <3> QED
      BY <3>1, <1>1, <1>2, FS_Subset
  <2>2. Cardinality({f[j] : j \in P}) = Cardinality(P)
    <3> HIDE DEF P
    <3> QED
      BY <2>1, PlacesCount
  <2>3. {f[j] : j \in P} = Upto(TRUE, U, f[i])
    BY DEF Upto, Ahead
  <2> QED
    BY <2>2, <2>3 DEF RankBy, RankIn
<1>5. s = [r \in 1 .. n |-> CHOOSE i \in T : RankBy(f, T, i) = r]
  <2>1. \A i : L!Rank(f, T, i) = RankBy(f, T, i)
    BY ListCardinality DEF RankBy, L!Rank
  <2> QED
    BY <2>1, ListCardinality DEF L!Ordered
<1> HIDE DEF s
<1>6. ASSUME NEW r \in 1 .. n PROVE s[r] \in T /\ RankBy(f, T, s[r]) = r
  <2>1. \E u \in U : RankIn(TRUE, U, u) = r
    <3> HIDE DEF U
    <3> QED
      BY <1>3, RankIsOfSome
  <2>2. \E i \in T : RankBy(f, T, i) = r
    BY <2>1, <1>4
  <2>3. s[r] = CHOOSE i \in T : RankBy(f, T, i) = r
    BY <1>5
  <2> QED
    BY <2>2, <2>3
<1>7. s \in [1 .. n -> T]
  BY <1>5, <1>6
<1>8. s \in Seq(T) /\ Len(s) = n
  <2>1. \A k \in Nat : \A e \in [1 .. k -> T] : e \in Seq(T) /\ Len(e) = k
    BY DEF Seq
  <2> QED
    BY <1>1, <1>7, <2>1
<1>9. ASSUME NEW i \in T PROVE RankBy(f, T, i) \in 1 .. n /\ s[RankBy(f, T, i)] = i
  <2>0. f[i] \in U
    OBVIOUS
  <2>1. RankBy(f, T, i) \in 1 .. n
    <3> HIDE DEF U
    <3> QED
      BY <2>0, <1>3, <1>4, RankType
  <2> DEFINE k == s[RankBy(f, T, i)]
  <2>2. k \in T /\ RankBy(f, T, k) = RankBy(f, T, i)
    BY <2>1, <1>6
  <2> HIDE DEF k
  <2>3. f[k] \in U /\ RankIn(TRUE, U, f[k]) = RankIn(TRUE, U, f[i])
    BY <2>2, <1>4
  <2>4. f[k] = f[i]
    <3> HIDE DEF U
    <3> QED
      BY <2>0, <2>3, <1>3, RankIsOfOne
  <2>5. k = i
    BY <2>2, <2>4, <1>2
  <2> QED
    BY <2>1, <2>5 DEF k
<1>10. L!Members(s) = T
  <2>1. DOMAIN s = 1 .. n
    BY <1>7
  <2>2. \A i \in T : \E r \in 1 .. n : s[r] = i
    BY <1>9
  <2> QED
    BY <2>1, <2>2, <1>6 DEF L!Members
<1> QED
  BY <1>1, <1>8, <1>9, <1>10 DEF s

\* The order of the sort column is one of them.
LEMMA SortedIsOne == \A query : L!Sorted(query) \in L!Orders(query)
<1> SUFFICES ASSUME NEW query PROVE L!Sorted(query) \in L!Orders(query)
  OBVIOUS
<1>1. N \in Nat /\ \A i \in L!Ids : i \in 1 .. N
  BY KeysAndPages DEF L!Ids
<1>2. L!Sorted(query) \in [L!Ids -> L!Ids] /\ \A i, j \in L!Ids : i # j => L!Sorted(query)[i] # L!Sorted(query)[j]
  BY <1>1 DEF L!Sorted, L!Ids
<1> QED
  BY <1>2 DEF L!Orders

\* A page of the rows of T shows those whose ranks are on it, unless they tie.
LEMMA PageShows ==
  ASSUME NEW query, NEW f \in L!Orders(query), NEW T, T \subseteq L!Ids, NEW o \in Nat, NEW n \in Nat,
         NEW i \in T, i \notin L!Loose(query),
         o < RankIn(Up(query), T, i), RankIn(Up(query), T, i) <= o + n
  PROVE  i \in L!Members(Part(L!Ordered(f, T), o, n))
<1> DEFINE s == L!Ordered(f, T)
           k == RankIn(Up(query), T, i)
           p == Part(s, o, n)
<1>1. s \in Seq(T) /\ k \in 1 .. Len(s) /\ s[k] = i
  BY OrderedIs, SameRank
<1> HIDE DEF s, k
<1>2. o < k /\ k <= o + n
  BY DEF k
<1>3. p \in Seq(T) /\ k - o \in 1 .. Len(p) /\ p[k - o] = i
  BY <1>1, <1>2, PartIs
<1>4. DOMAIN p = 1 .. Len(p)
  BY <1>3
<1> QED
  BY <1>3, <1>4 DEF L!Members, s

\* A page that is long enough is all.
LEMMA PartWhole ==
  ASSUME NEW Els, NEW s \in Seq(Els), NEW n \in Nat, Len(s) <= n
  PROVE  Part(s, 0, n) = s
<1> DEFINE p == Part(s, 0, n)
<1>1. /\ p \in Seq(Els) /\ Len(s) \in Nat /\ Len(p) = (IF 0 < Len(s) THEN Lower(n, Len(s) - 0) ELSE 0)
      /\ \A i \in 1 .. Len(p) : p[i] = s[0 + i]
  BY PartIs
<1> HIDE DEF p
<1>2. Len(p) = Len(s)
  BY <1>1 DEF Lower
<1>3. \A i \in 1 .. Len(p) : 0 + i = i
  BY <1>1
<1>4. \A i \in 1 .. Len(p) : p[i] = s[i]
  BY <1>1, <1>3
<1>5. p = s
  BY <1>1, <1>2, <1>4, SeqEqual
<1> QED
  BY <1>5 DEF p

\* A concatenation, element by element.
LEMMA JoinIs ==
  ASSUME NEW Els, NEW s \in Seq(Els), NEW t \in Seq(Els)
  PROVE  /\ s \o t \in Seq(Els) /\ Len(s \o t) = Len(s) + Len(t)
         /\ \A i \in 1 .. (Len(s) + Len(t)) : (s \o t)[i] = IF i <= Len(s) THEN s[i] ELSE t[i - Len(s)]
  OBVIOUS

\* The rows before an offset and the page after it are the rows before the next.
LEMMA PartsJoin ==
  ASSUME NEW Els, NEW s \in Seq(Els), NEW o \in Nat, NEW n \in Nat, o <= Len(s)
  PROVE  Part(s, 0, o) \o Part(s, o, n) = Part(s, 0, o + n)
<1> DEFINE a == Part(s, 0, o)
           b == Part(s, o, n)
           c == Part(s, 0, o + n)
           ab == a \o b
<1>1. /\ a \in Seq(Els) /\ Len(s) \in Nat /\ Len(a) = (IF 0 < Len(s) THEN Lower(o, Len(s) - 0) ELSE 0)
      /\ \A i \in 1 .. Len(a) : a[i] = s[0 + i]
  BY PartIs
<1>2. /\ b \in Seq(Els) /\ Len(b) = (IF o < Len(s) THEN Lower(n, Len(s) - o) ELSE 0)
      /\ \A i \in 1 .. Len(b) : b[i] = s[o + i]
  BY PartIs
<1>3. /\ c \in Seq(Els) /\ Len(c) = (IF 0 < Len(s) THEN Lower(o + n, Len(s) - 0) ELSE 0)
      /\ \A i \in 1 .. Len(c) : c[i] = s[0 + i]
  BY PartIs
<1> HIDE DEF a, b, c
<1>4. Len(a) = o
  BY <1>1 DEF Lower
<1>5. Len(b) \in Nat /\ Len(c) \in Nat /\ Len(c) = o + Len(b)
  BY <1>1, <1>2, <1>3 DEF Lower
<1>6. ab \in Seq(Els) /\ Len(ab) = o + Len(b)
      /\ \A i \in 1 .. (o + Len(b)) : ab[i] = IF i <= o THEN a[i] ELSE b[i - o]
  <2>1. a \in Seq(Els) /\ b \in Seq(Els)
    BY <1>1, <1>2
  <2> QED
    BY <2>1, <1>4, JoinIs
<1> HIDE DEF ab
<1>7. ASSUME NEW i \in 1 .. Len(c) PROVE ab[i] = c[i]
  <2>1. c[i] = s[i]
    <3>1. 0 + i = i
      OBVIOUS
    <3> QED
      BY <3>1, <1>3
  <2>2. CASE i <= o
    <3>1. i \in 1 .. Len(a) /\ 0 + i = i /\ i \in 1 .. (o + Len(b))
      BY <2>2, <1>4, <1>5
    <3> QED
      BY <3>1, <2>1, <2>2, <1>1, <1>6
  <2>3. CASE i > o
    <3>1. i - o \in 1 .. Len(b) /\ o + (i - o) = i /\ i \in 1 .. (o + Len(b)) /\ ~ (i <= o)
      BY <2>3, <1>5
    <3>2. b[i - o] = s[o + (i - o)]
      BY <3>1, <1>2
    <3> QED
      BY <3>1, <3>2, <2>1, <1>6
  <2> QED
    BY <2>2, <2>3
<1>8. ab = c
  BY <1>3, <1>5, <1>6, <1>7, SeqEqual
<1> QED
  BY <1>8 DEF ab, a, b, c

\* A page that was read with one row more.
LEMMA PartOfLarger ==
  ASSUME NEW Els, NEW s \in Seq(Els), NEW o \in Nat, NEW n \in Nat
  PROVE  Part(Part(s, o, n + 1), 0, n) = Part(s, o, n)
<1> DEFINE t == Part(s, o, n + 1)
           p == Part(t, 0, n)
           q == Part(s, o, n)
<1>0. n + 1 \in Nat
  OBVIOUS
<1>1. /\ t \in Seq(Els) /\ Len(s) \in Nat /\ Len(t) = (IF o < Len(s) THEN Lower(n + 1, Len(s) - o) ELSE 0)
      /\ \A i \in 1 .. Len(t) : t[i] = s[o + i]
  BY <1>0, PartIs
<1> HIDE DEF t
<1>2. /\ p \in Seq(Els) /\ Len(p) = (IF 0 < Len(t) THEN Lower(n, Len(t) - 0) ELSE 0) /\ Len(t) \in Nat
      /\ \A i \in 1 .. Len(p) : p[i] = t[0 + i]
  BY <1>1, PartIs
<1>3. /\ q \in Seq(Els) /\ Len(q) = (IF o < Len(s) THEN Lower(n, Len(s) - o) ELSE 0)
      /\ \A i \in 1 .. Len(q) : q[i] = s[o + i]
  BY PartIs
<1> HIDE DEF p, q
<1>4. Len(p) = Len(q) /\ Len(p) <= Len(t)
  BY <1>1, <1>2, <1>3 DEF Lower
<1>5. ASSUME NEW i \in 1 .. Len(p) PROVE p[i] = q[i]
  <2>1. i \in 1 .. Len(t) /\ 0 + i = i
    BY <1>2, <1>4
  <2> QED
    BY <2>1, <1>1, <1>2, <1>3, <1>4
<1>6. p = q
  BY <1>2, <1>3, <1>4, <1>5, SeqEqual
<1> QED
  BY <1>6 DEF p, q, t

\* The rows of st that come before the offset have been seen, in an order of the rows
\* Q: so have those of the next page, in an order of more rows.
Covers(query, st, Q, o, seen) == \A i \in st : RankIn(Up(query), Q, i) <= o => i \in L!Members(seen)

\* Who is in a concatenation is in one of its parts.
LEMMA MembersJoin ==
  ASSUME NEW Els, NEW s \in Seq(Els), NEW t \in Seq(Els)
  PROVE  s \o t \in Seq(Els) /\ L!Members(s \o t) = L!Members(s) \cup L!Members(t)
<1>1. s \o t \in Seq(Els) /\ Len(s \o t) = Len(s) + Len(t) /\ Len(s) \in Nat /\ Len(t) \in Nat
      /\ DOMAIN (s \o t) = 1 .. (Len(s) + Len(t)) /\ DOMAIN s = 1 .. Len(s) /\ DOMAIN t = 1 .. Len(t)
      /\ \A i \in 1 .. (Len(s) + Len(t)) : (s \o t)[i] = IF i <= Len(s) THEN s[i] ELSE t[i - Len(s)]
  OBVIOUS
<1>2. ASSUME NEW x \in L!Members(s \o t) PROVE x \in L!Members(s) \cup L!Members(t)
  <2>1. PICK i \in 1 .. (Len(s) + Len(t)) : (s \o t)[i] = x
    BY <1>1, <1>2 DEF L!Members
  <2>2. i <= Len(s) \/ i - Len(s) \in 1 .. Len(t)
    BY <1>1
  <2> QED
    BY <2>1, <2>2, <1>1 DEF L!Members
<1>3. ASSUME NEW x \in L!Members(s) PROVE x \in L!Members(s \o t)
  <2>1. PICK i \in 1 .. Len(s) : s[i] = x
    BY <1>1, <1>3 DEF L!Members
  <2>2. i \in 1 .. (Len(s) + Len(t)) /\ i <= Len(s)
    BY <1>1
  <2> QED
    BY <2>1, <2>2, <1>1 DEF L!Members
<1>4. ASSUME NEW x \in L!Members(t) PROVE x \in L!Members(s \o t)
  <2>1. PICK i \in 1 .. Len(t) : t[i] = x
    BY <1>1, <1>4 DEF L!Members
  <2>2. Len(s) + i \in 1 .. (Len(s) + Len(t)) /\ ~ (Len(s) + i <= Len(s)) /\ (Len(s) + i) - Len(s) = i
    BY <1>1
  <2>3. (s \o t)[Len(s) + i] = t[i]
    BY <2>2, <1>1
  <2> QED
    BY <2>1, <2>2, <2>3, <1>1 DEF L!Members
<1> QED
  BY <1>1, <1>2, <1>3, <1>4

\* After a page of the rows Q, all rows of st before the next offset have been seen, in
\* an order of the rows M around Q; and all rows of st when the page was short.
LEMMA PageCovers ==
  ASSUME NEW query, NEW f \in L!Orders(query), NEW M, M \subseteq L!Ids, NEW Q, Q \subseteq M,
         NEW st, st \subseteq Q \ L!Loose(query),
         NEW o \in Nat, NEW n \in Nat, NEW seen \in Seq(L!Ids), Covers(query, st, Q, o, seen)
  PROVE  LET p == Part(L!Ordered(f, Q), o, n) IN
         /\ p \in Seq(L!Ids) /\ seen \o p \in Seq(L!Ids) /\ Len(p) \in Nat
         /\ Covers(query, st, M, o + n, seen \o p)
         /\ Len(p) # n => st \subseteq L!Members(seen \o p)
<1> DEFINE s == L!Ordered(f, Q)
           p == Part(s, o, n)
           up == Up(query)
<1>1. /\ s \in Seq(Q) /\ Len(s) = Cardinality(Q) /\ Len(s) \in Nat
      /\ \A i \in Q : RankIn(up, Q, i) \in 1 .. Len(s)
  <2>1. Q \subseteq L!Ids
    OBVIOUS
  <2>2. Q \subseteq Nat /\ IsFiniteSet(Q)
    BY <2>1, IdsAreNumbers
  <2>3. s \in Seq(Q) /\ Len(s) = Cardinality(Q) /\ Len(s) \in Nat
    BY <2>1, OrderedIs
  <2> HIDE DEF s
  <2> QED
    BY <2>2, <2>3, RankType
<1>2. /\ p \in Seq(Q) /\ Len(p) = (IF o < Len(s) THEN Lower(n, Len(s) - o) ELSE 0)
  <2> HIDE DEF s
  <2> QED
    BY <1>1, PartIs
<1>3. p \in Seq(L!Ids) /\ Len(p) \in Nat
  <2> HIDE DEF p
  <2>1. Q \subseteq L!Ids
    OBVIOUS
  <2>2. Seq(Q) \subseteq Seq(L!Ids)
    BY <2>1
  <2> QED
    BY <1>2, <2>2
<1>4. seen \o p \in Seq(L!Ids) /\ L!Members(seen \o p) = L!Members(seen) \cup L!Members(p)
  <2> HIDE DEF p
  <2> QED
    BY <1>3, MembersJoin
<1>5. ASSUME NEW i \in st, RankIn(up, Q, i) <= o + n
      PROVE  i \in L!Members(seen \o p)
  <2>1. i \in Q /\ i \notin L!Loose(query) /\ RankIn(up, Q, i) \in Nat
    BY <1>1
  <2>2. CASE RankIn(up, Q, i) <= o
    BY <2>2, <1>4 DEF Covers
  <2>3. CASE ~ (RankIn(up, Q, i) <= o)
    <3>1. o < RankIn(up, Q, i)
      BY <2>1, <2>3
    <3>2. Q \subseteq L!Ids
      OBVIOUS
    <3>3. i \in L!Members(p)
      BY <2>1, <3>1, <3>2, <1>5, PageShows
    <3> QED
      BY <3>3, <1>4
  <2> QED
    BY <2>2, <2>3
<1>6. Covers(query, st, M, o + n, seen \o p)
  <2>1. ASSUME NEW i \in st, RankIn(up, M, i) <= o + n PROVE i \in L!Members(seen \o p)
    <3>1. M \subseteq Nat /\ IsFiniteSet(M)
      BY IdsAreNumbers
    <3>2. RankIn(up, Q, i) <= RankIn(up, M, i)
      BY <3>1, RankOfMore
    <3>3. RankIn(up, Q, i) \in Nat /\ RankIn(up, M, i) \in Nat
      <4>1. i \in M /\ i \in Q /\ Q \subseteq Nat /\ IsFiniteSet(Q)
        BY IdsAreNumbers
      <4> HIDE DEF up, s
      <4> QED
        BY <4>1, <3>1, RankType
    <3>4. RankIn(up, Q, i) <= o + n
      BY <3>2, <3>3, <2>1
    <3> QED
      BY <3>4, <1>5
  <2> HIDE DEF p
  <2> QED
    BY <2>1 DEF Covers
<1>7. ASSUME Len(p) # n PROVE st \subseteq L!Members(seen \o p)
  <2>1. Len(s) <= o + n
    <3> HIDE DEF p
    <3> QED
      BY <1>1, <1>2, <1>7 DEF Lower
  <2>2. ASSUME NEW i \in st PROVE i \in L!Members(seen \o p)
    <3>1. RankIn(up, Q, i) \in 1 .. Len(s)
      BY <1>1
    <3>2. RankIn(up, Q, i) <= o + n
      <4> HIDE DEF s
      <4> QED
        BY <3>1, <2>1, <1>1
    <3> QED
      BY <3>2, <1>5
  <2> QED
    BY <2>2
<1> QED
  BY <1>3, <1>4, <1>6, <1>7

\* Without a write, the rows seen are the rows before the next offset, and all when the
\* page was short.
LEMMA PageReaches ==
  ASSUME NEW query, NEW f \in L!Orders(query), NEW M, M \subseteq L!Ids, NEW o \in Nat, NEW n \in Nat,
         o <= Len(L!Ordered(f, M))
  PROVE  LET s == L!Ordered(f, M)
             p == Part(s, o, n)
         IN /\ Part(s, 0, o) \o p = Part(s, 0, o + n)
            /\ Len(p) = n => o + n <= Len(s)
            /\ Len(p) # n => Part(s, 0, o + n) = s
            /\ Len(s) <= o + n => Part(s, 0, o + n) = s
<1> DEFINE s == L!Ordered(f, M)
           p == Part(s, o, n)
<1>1. s \in Seq(M) /\ Len(s) \in Nat
  BY OrderedIs
<1>2. o <= Len(s)
  OBVIOUS
<1> HIDE DEF s
<1>3. Part(s, 0, o) \o p = Part(s, 0, o + n)
  BY <1>1, <1>2, PartsJoin
<1>4. Len(p) = (IF o < Len(s) THEN Lower(n, Len(s) - o) ELSE 0)
  BY <1>1, PartIs
<1>5. Len(s) <= o + n => Part(s, 0, o + n) = s
  BY <1>1, PartWhole
<1> HIDE DEF p
<1>6. (Len(p) = n => o + n <= Len(s)) /\ (Len(p) # n => Len(s) <= o + n)
  BY <1>1, <1>2, <1>4 DEF Lower
<1> QED
  BY <1>3, <1>5, <1>6 DEF s, p

\* Whole pages.
LEMMA WholePages ==
  ASSUME NEW m \in Nat, NEW n \in Nat, n >= 1, NEW c \in Nat
  PROVE  /\ m \div n \in Nat
         /\ (m \div n) * n <= m /\ m < ((m \div n) + 1) * n
         /\ (c * n) \div n = c
         /\ c <= m \div n => c * n <= m /\ c * n <= (m \div n) * n
<1>1. m \div n \in Nat /\ (m \div n) * n <= m /\ m < ((m \div n) + 1) * n
  OBVIOUS
<1>2. (c * n) \div n = c
  OBVIOUS
<1>3. ASSUME NEW d \in Nat, c <= d PROVE c * n <= d * n
  BY <1>3
<1> QED
  BY <1>1, <1>2, <1>3

----------------------------------------------------------------------------
(* The doors: the queries are of five kinds.                                     *)

IsCounted(ask) == ask.door.query = L!chunks
Parsed(ask) == ask.door.query = L!parsed_specs
Promises(ask) == ask.limit >= 1 /\ ask.door.next # "none"

\* What is known of a query, by what follows a page of it.
KindOf(query, next) ==
  /\ query = L!chunks <=> query.cut = "counted"
  /\ query = L!chunks <=> next = "counted"
  /\ query = L!chunks => query.more /\ query # L!jobs /\ query # L!parsed_specs
  /\ query = L!parsed_specs => query.cut = "slice" /\ query # L!jobs
  /\ query = L!jobs => query.cut = "slice"
  /\ query.cut \in {"sql", "slice", "counted"}
  /\ query = L!chunks \/ query = L!parsed_specs => ~ query.ties
  /\ next = "unfiltered" => query.ties

\* Every door fits its query.
LEMMA DoorKinds ==
  ASSUME NEW ask, ask.door \in L!Doors
  PROVE  KindOf(ask.door.query, ask.door.next)
<1>1. \A next \in {"full", "asked", "none"} :
        /\ KindOf(L!tdocs, next) /\ KindOf(L!meetings, next) /\ KindOf(L!specs, next)
        /\ KindOf(L!versions, next) /\ KindOf(L!testcases, next) /\ KindOf(L!wis, next)
  BY DEF KindOf, L!tdocs, L!meetings, L!specs, L!parsed_specs, L!versions, L!testcases, L!wis,
         L!jobs, L!chunks
<1>2. /\ \A next \in {"full", "asked", "none"} : KindOf(L!parsed_specs, next) /\ KindOf(L!jobs, next)
      /\ KindOf(L!jobs, "unfiltered")
  BY DEF KindOf, L!parsed_specs, L!jobs, L!chunks
<1>3. KindOf(L!chunks, "counted")
  BY DEF KindOf, L!parsed_specs, L!jobs, L!chunks
<1> DEFINE Fits(door) == KindOf(door.query, door.next)
<1>4. Fits(L!list_tdocs) /\ Fits(L!list_meetings) /\ Fits(L!list_specs) /\ Fits(L!list_parsed_specs)
  BY <1>1, <1>2 DEF L!list_tdocs, L!list_meetings, L!list_specs, L!list_parsed_specs
<1>5. Fits(L!show_spec) /\ Fits(L!list_testcases) /\ Fits(L!list_wis) /\ Fits(L!list_jobs) /\ Fits(L!spec_doc_show)
  BY <1>1, <1>2, <1>3 DEF L!show_spec, L!list_testcases, L!list_wis, L!list_jobs, L!spec_doc_show
<1>6. Fits(L!tool_list_meetings) /\ Fits(L!tool_list_tdocs) /\ Fits(L!tool_list_wis) /\ Fits(L!tool_list_specs)
  BY <1>1 DEF L!tool_list_meetings, L!tool_list_tdocs, L!tool_list_wis, L!tool_list_specs
<1>7. Fits(L!tool_get_spec) /\ Fits(L!tool_list_testcases) /\ Fits(L!tool_list_jobs)
  BY <1>1, <1>2 DEF L!tool_get_spec, L!tool_list_testcases, L!tool_list_jobs
<1> HIDE DEF Fits
<1>8. Fits(ask.door)
  BY <1>4, <1>5, <1>6, <1>7 DEF L!Doors
<1> QED
  BY <1>8 DEF Fits
----------------------------------------------------------------------------
(* A page, and where the walk stands.                                            *)

Strict(ask) == ~ ask.door.query.ties
Orders(ask) == L!Orders(ask.door.query)
Line(ask, T) == L!Ordered(L!Sorted(ask.door.query), T)
PageOf(f, ask, T, o) == Part(L!Ordered(f, T), o, ask.limit)
AnyParsed(ask) == [ask EXCEPT !.parsed = "any"]
ParsedIn(ask, found) == {i \in L!Members(found) : L!KeepsParsed(ask.parsed, rows[i])}
Cut(ask, found, o) == IF ask.door.query.cut = "sql" THEN found ELSE L!Slice(found, o, o + ask.limit)

\* The rows of a question in an order.
LEMMA LineIs ==
  ASSUME NEW ask, NEW f \in Orders(ask), NEW T, T \subseteq L!Ids
  PROVE  /\ L!Ordered(f, T) \in Seq(T) /\ L!Ordered(f, T) \in Seq(L!Ids) /\ Len(L!Ordered(f, T)) \in Nat
         /\ L!Members(L!Ordered(f, T)) = T
         /\ Line(ask, T) \in Seq(T) /\ Line(ask, T) \in Seq(L!Ids) /\ Len(Line(ask, T)) \in Nat
         /\ L!Members(Line(ask, T)) = T
<1>1. L!Ordered(f, T) \in Seq(T) /\ Len(L!Ordered(f, T)) \in Nat /\ L!Members(L!Ordered(f, T)) = T
  BY OrderedIs DEF Orders
<1>2. Line(ask, T) \in Seq(T) /\ Len(Line(ask, T)) \in Nat /\ L!Members(Line(ask, T)) = T
  BY OrderedIs, SortedIsOne DEF Line
<1>3. Seq(T) \subseteq Seq(L!Ids)
  OBVIOUS
<1> QED
  BY <1>1, <1>2, <1>3

\* Where no rows tie there is one order.
LEMMA OneOrder ==
  ASSUME NEW ask PROVE L!Sorted(ask.door.query) \in Orders(ask) /\ (Strict(ask) => Orders(ask) = {L!Sorted(ask.door.query)})
  BY SortedIsOne DEF Orders, L!Orders, Strict

\* Rows that match are keys.
LEMMA MatchingIds == \A ask : L!Matching(rows, ask) \subseteq L!Ids
  BY DEF L!Matching

Asks == [door : L!Doors, filter : {"any", "null", "!x"}, parsed : {"any", "true", "false"}, limit : Int]

\* Among the rows that match whether parsed or not are those that match.
LEMMA AnyParsedFinds ==
  ASSUME NEW ask \in Asks
  PROVE  /\ L!Matching(rows, ask) \subseteq L!Matching(rows, AnyParsed(ask))
         /\ {i \in L!Matching(rows, AnyParsed(ask)) : L!KeepsParsed(ask.parsed, rows[i])} = L!Matching(rows, ask)
<1>1. \A i \in L!Ids : L!KeepsParsed("any", rows[i])
  BY DEF L!KeepsParsed
<1>2. AnyParsed(ask).filter = ask.filter /\ AnyParsed(ask).parsed = "any"
  BY DEF AnyParsed, Asks
<1>3. \A i \in L!Ids : i \in L!Matching(rows, AnyParsed(ask)) <=> rows[i].there /\ L!Keeps(ask.filter, rows[i].text)
  BY <1>1, <1>2 DEF L!Matching
<1> QED
  BY <1>3, MatchingIds DEF L!Matching

\* Where no write comes between its statements, a page is the part of the rows.
LEMMA FoundPage ==
  ASSUME NEW ask \in Asks, ask.limit >= 1, NEW f \in Orders(ask), NEW o \in Nat, ~ IsCounted(ask)
  PROVE  L!Page(ask, L!Found(ask, f, o), o) = PageOf(f, ask, L!Matching(rows, ask), o)
<1> DEFINE M == L!Matching(rows, ask)
           W == L!Matching(rows, AnyParsed(ask))
           query == ask.door.query
           n == ask.limit
           s == L!Ordered(f, M)
           t == L!Ordered(f, W)
<1>1. n \in Nat /\ ask.door \in L!Doors
  BY DEF Asks
<1>2. query.cut \in {"sql", "slice"} /\ query # L!chunks /\ (Parsed(ask) => query.cut = "slice" /\ query # L!jobs)
      /\ (query = L!jobs => query.cut = "slice")
  BY <1>1, DoorKinds DEF KindOf, IsCounted, Parsed
<1>3. s \in Seq(L!Ids) /\ Len(s) \in Nat /\ t \in Seq(L!Ids) /\ Len(t) \in Nat /\ L!Members(t) = W
  BY LineIs, MatchingIds
<1>4. L!Found(ask, f, o) = CASE query.cut = "sql" -> L!Sql(s, n, o)
                          [] query = L!jobs -> L!Sql(s, n + o, 0)
                          [] query = L!parsed_specs -> t
                          [] OTHER -> s
  BY DEF L!Found, AnyParsed
<1>5. ASSUME NEW found
      PROVE  L!Page(ask, found, o) =
               IF query.cut = "sql" THEN found
               ELSE IF Parsed(ask) THEN L!Slice(Line(ask, ParsedIn(ask, found)), o, o + n)
               ELSE L!Slice(found, o, o + n)
  <2> HIDE DEF s, t, M, W
  <2> QED
    BY <1>2 DEF L!Page, Line, ParsedIn, Parsed
<1>6. CASE query.cut = "sql"
  <2>1. L!Found(ask, f, o) = L!Sql(s, n, o)
    <3> HIDE DEF s, t, n
    <3> QED
      BY <1>2, <1>4, <1>6 DEF Parsed
  <2>2. L!Sql(s, n, o) = Part(s, o, n)
    <3> HIDE DEF s
    <3> QED
      BY <1>1, <1>3, SqlIs
  <2> QED
    BY <2>1, <2>2, <1>5, <1>6 DEF PageOf
<1>7. CASE query = L!jobs
  <2>0. n + o \in Nat /\ 0 \in Nat /\ query.cut = "slice" /\ ~ Parsed(ask)
    BY <1>1, <1>2, <1>7
  <2>1. L!Found(ask, f, o) = L!Sql(s, n + o, 0)
    <3> HIDE DEF s, t, n
    <3> QED
      BY <1>4, <1>7, <2>0 DEF Parsed
  <2>2. L!Sql(s, n + o, 0) = Part(s, 0, n + o)
    <3> HIDE DEF s
    <3> QED
      BY <2>0, <1>3, SqlIs
  <2>3. Part(s, 0, n + o) \in Seq(L!Ids) /\ Len(Part(s, 0, n + o)) \in Nat
    <3> HIDE DEF s
    <3>1. Part(s, 0, n + o) \in Seq(L!Ids)
      BY <2>0, <1>3, PartIs
    <3> QED
      BY <3>1
  <2>4. L!Slice(Part(s, 0, n + o), o, o + n) = Part(Part(s, 0, n + o), o, n)
    <3> HIDE DEF s
    <3> QED
      BY <2>3, <1>1, SliceIs
  <2>5. Part(Part(s, 0, n + o), o, n) = Part(s, o, n)
    <3> HIDE DEF s
    <3> QED
      BY <1>1, <1>3, PartOfPart
  <2>6. L!Page(ask, L!Found(ask, f, o), o) = L!Slice(Part(s, 0, n + o), o, o + n)
    BY <2>0, <2>1, <2>2, <1>5
  <2> QED
    BY <2>4, <2>5, <2>6 DEF PageOf
<1>8. CASE Parsed(ask)
  <2>0. query = L!parsed_specs /\ query.cut = "slice" /\ query # L!jobs /\ f = L!Sorted(query)
    <3>1. KindOf(query, ask.door.next)
      BY <1>1, DoorKinds
    <3>2. Strict(ask)
      BY <3>1, <1>8 DEF KindOf, Parsed, Strict
    <3> QED
      BY <3>2, <1>2, <1>8, OneOrder DEF Parsed
  <2>1. L!Found(ask, f, o) = t
    <3> HIDE DEF s, t
    <3> QED
      BY <1>4, <2>0
  <2>2. ParsedIn(ask, t) = M
    <3>1. L!Members(t) = W /\ {i \in W : L!KeepsParsed(ask.parsed, rows[i])} = M
      BY <1>3, AnyParsedFinds
    <3> HIDE DEF t, M, W
    <3> QED
      BY <3>1 DEF ParsedIn
  <2>3. L!Page(ask, L!Found(ask, f, o), o) = L!Slice(s, o, o + n)
    <3>1. L!Page(ask, t, o) = L!Slice(Line(ask, ParsedIn(ask, t)), o, o + n)
      <4> HIDE DEF t
      <4> QED
        BY <1>5, <2>0, <1>8
    <3>2. Line(ask, M) = s
      BY <2>0 DEF Line
    <3> HIDE DEF t, M, s
    <3> QED
      BY <3>1, <3>2, <2>1, <2>2
  <2>4. L!Slice(s, o, o + n) = Part(s, o, n)
    <3> HIDE DEF s
    <3> QED
      BY <1>1, <1>3, SliceIs
  <2> QED
    BY <2>3, <2>4 DEF PageOf
<1>9. CASE query.cut = "slice" /\ query # L!jobs /\ ~ Parsed(ask)
  <2>1. L!Found(ask, f, o) = s
    <3> HIDE DEF s, t
    <3> QED
      BY <1>4, <1>9 DEF Parsed
  <2>2. L!Page(ask, L!Found(ask, f, o), o) = L!Slice(s, o, o + n)
    <3> HIDE DEF s
    <3> QED
      BY <2>1, <1>5, <1>9
  <2>4. L!Slice(s, o, o + n) = Part(s, o, n)
    <3> HIDE DEF s
    <3> QED
      BY <1>1, <1>3, SliceIs
  <2> QED
    BY <2>2, <2>4 DEF PageOf
<1> QED
  BY <1>2, <1>6, <1>7, <1>8, <1>9

\* Of rows that were found before, the page is the part of those that were found, or of
\* those that are still parsed.
LEMMA PageOfFound ==
  ASSUME NEW ask \in Asks, ask.limit >= 1, NEW o \in Nat, ~ IsCounted(ask), NEW found
  PROVE  /\ ~ Parsed(ask) => L!Page(ask, found, o) = Cut(ask, found, o)
         /\ Parsed(ask) /\ ParsedIn(ask, found) \subseteq L!Ids =>
              L!Page(ask, found, o) = PageOf(L!Sorted(ask.door.query), ask, ParsedIn(ask, found), o)
<1> DEFINE query == ask.door.query
           n == ask.limit
           s == Line(ask, ParsedIn(ask, found))
<1>1. n \in Nat /\ ask.door \in L!Doors
  BY DEF Asks
<1>2. query.cut \in {"sql", "slice"} /\ query # L!chunks /\ (Parsed(ask) => query.cut = "slice" /\ query # L!jobs)
  BY <1>1, DoorKinds DEF KindOf, IsCounted, Parsed
<1>3. /\ ~ Parsed(ask) => L!Page(ask, found, o) = Cut(ask, found, o)
      /\ Parsed(ask) => L!Page(ask, found, o) = L!Slice(s, o, o + n)
  BY <1>2 DEF L!Page, Line, ParsedIn, Parsed, Cut
<1>4. ASSUME ParsedIn(ask, found) \subseteq L!Ids PROVE L!Slice(s, o, o + n) = Part(s, o, n)
  <2>1. Len(s) \in Nat
    BY <1>4, LineIs, OneOrder
  <2> HIDE DEF s
  <2> QED
    BY <2>1, <1>1, SliceIs
<1> QED
  BY <1>3, <1>4 DEF PageOf, Line
----------------------------------------------------------------------------
(* A walk that promises something keeps to it, as long as no row has left: where it
   stands, it has seen all the rows before its offset that matched all the while, and
   without a write exactly the rows before.                                      *)

TableRows == {L!None} \cup {L!Row(text, parsed) : text \in {"NULL", "x", "y"}, parsed \in BOOLEAN}
Now == L!Matching(rows, walk.ask)

Reached(ask, M, o, seen) ==
  LET s == Line(ask, M) IN
  /\ seen = Part(s, 0, o) /\ o <= Len(s)
  /\ IsCounted(ask) => \E c \in 0 .. L!LastPage(s, ask.limit) : o = c * ask.limit

\* What a walk owes: the rows that matched all the while, unless they tie.
Owed == steady \ L!Loose(walk.ask.door.query)

OnTheWay ==
  /\ walk.offset \in Nat /\ walk.seen \in Seq(L!Ids) /\ steady \subseteq Now
  /\ IsCounted(walk.ask) => writes = 0
  /\ writes = 0 /\ Strict(walk.ask) => Reached(walk.ask, Now, walk.offset, walk.seen)

SeenBefore(Q) == steady \subseteq Q /\ Covers(walk.ask.door.query, Owed, Q, walk.offset, walk.seen)

Halfway ==
  /\ writes = 0 /\ Strict(walk.ask) => walk.found = L!Found(walk.ask, L!Sorted(walk.ask.door.query), walk.offset)
  /\ Parsed(walk.ask) =>
       /\ L!Members(walk.found) \subseteq L!Matching(rows, AnyParsed(walk.ask))
       /\ SeenBefore(ParsedIn(walk.ask, walk.found))
  /\ ~ Parsed(walk.ask) /\ ~ IsCounted(walk.ask) =>
       \E Q \in SUBSET Now, f \in Orders(walk.ask) :
         SeenBefore(Q) /\ Cut(walk.ask, walk.found, walk.offset) = PageOf(f, walk.ask, Q, walk.offset)

WalkTypes ==
  /\ rows \in [L!Ids -> TableRows]
  /\ walk = [pc |-> walk.pc, ask |-> walk.ask, offset |-> walk.offset, found |-> walk.found, seen |-> walk.seen]
  /\ walk.pc \in {"idle", "refused", "query", "more", "done"} /\ walk.ask \in Asks
  /\ left \in BOOLEAN /\ writes \in Nat /\ (writes = 0 => ~ left)
  /\ walk.pc = "idle" => ~ left /\ writes = 0

WalkHolds ==
  Promises(walk.ask) /\ ~ left =>
    /\ walk.pc \in {"query", "more"} => OnTheWay
    /\ walk.pc = "query" /\ ~ IsCounted(walk.ask) => SeenBefore(Now)
    /\ walk.pc = "more" => Halfway
    /\ walk.pc = "done" => /\ Owed \subseteq L!Members(walk.seen)
                           /\ writes = 0 /\ Strict(walk.ask) => walk.seen = Line(walk.ask, Now)

ListsInv == WalkTypes /\ WalkHolds

\* Nobody has asked at first.
LEMMA ListsBegin == L!Init => ListsInv
<1> SUFFICES ASSUME L!Init PROVE ListsInv
  OBVIOUS
<1>1. walk = L!Quiet /\ left = FALSE /\ writes = 0
      /\ rows \in [L!Ids -> {L!None, L!Row("NULL", FALSE), L!Row("y", FALSE)}]
  BY DEF L!Init
<1>2. rows \in [L!Ids -> TableRows]
  <2>1. {L!None, L!Row("NULL", FALSE), L!Row("y", FALSE)} \subseteq TableRows
    <3>1. \A text \in {"NULL", "x", "y"}, parsed \in BOOLEAN : L!Row(text, parsed) \in TableRows
      BY DEF TableRows
    <3>2. L!None \in TableRows
      BY DEF TableRows
    <3> QED
      BY <3>1, <3>2
  <2> QED
    BY <1>1, <2>1
<1>3. walk.pc = "idle" /\ walk.ask = L!NoAsk
      /\ walk = [pc |-> walk.pc, ask |-> walk.ask, offset |-> walk.offset, found |-> walk.found, seen |-> walk.seen]
  BY <1>1 DEF L!Quiet
<1>4. L!NoAsk \in Asks
  BY DEF L!NoAsk, Asks, L!Doors
<1> QED
  BY <1>1, <1>2, <1>3, <1>4 DEF ListsInv, WalkTypes, WalkHolds

\* Before the first page nothing has been seen, and nothing had to be.
LEMMA AtTheStart ==
  ASSUME NEW ask \in Asks, ask.limit >= 1, NEW M, M \subseteq L!Ids
  PROVE  /\ Reached(ask, M, 0, << >>)
         /\ Covers(ask.door.query, M, M, 0, << >>)
<1>1. Line(ask, M) \in Seq(M) /\ Len(Line(ask, M)) \in Nat
  BY LineIs, OneOrder
<1>2. << >> = Part(Line(ask, M), 0, 0)
  <2>1. 0 \in Nat
    OBVIOUS
  <2> DEFINE s == Line(ask, M)
             p == Part(s, 0, 0)
  <2> HIDE DEF s
  <2>2. p \in Seq(M) /\ Len(p) = IF 0 < Len(s) THEN Lower(0, Len(s) - 0) ELSE 0
    BY <1>1, <2>1, PartIs DEF s
  <2> HIDE DEF p
  <2>3. Len(p) = 0
    BY <2>2, <1>1 DEF Lower, s
  <2>4. p = << >>
    BY <2>2, <2>3
  <2> QED
    BY <2>4 DEF p, s
<1>3. L!LastPage(Line(ask, M), ask.limit) \in Nat
  <2>1. ask.limit \in Nat
    BY DEF Asks
  <2>2. CASE Line(ask, M) = << >>
    BY <2>2 DEF L!LastPage
  <2>3. CASE Line(ask, M) # << >>
    <3>1. Len(Line(ask, M)) - 1 \in Nat
      BY <1>1, <2>3
    <3>2. L!LastPage(Line(ask, M), ask.limit) = (Len(Line(ask, M)) - 1) \div ask.limit
      BY <2>3 DEF L!LastPage
    <3> QED
      BY <2>1, <3>1, <3>2, WholePages
  <2> QED
    BY <2>2, <2>3
<1>4. 0 = 0 * ask.limit
  BY DEF Asks
<1>5. \A i \in M : ~ (RankIn(Up(ask.door.query), M, i) <= 0)
  <2> SUFFICES ASSUME NEW i \in M PROVE ~ (RankIn(Up(ask.door.query), M, i) <= 0)
    OBVIOUS
  <2>1. M \subseteq Nat /\ IsFiniteSet(M) /\ Cardinality(M) \in Nat
    BY IdsAreNumbers
  <2>2. RankIn(Up(ask.door.query), M, i) \in 1 .. Cardinality(M)
    BY <2>1, RankType
  <2> QED
    BY <2>1, <2>2
<1> QED
  BY <1>1, <1>2, <1>3, <1>4, <1>5 DEF Reached, Covers

\* A walk begins at the start.
LEMMA ListsAsked ==
  ASSUME ListsInv, walk.pc = "idle",
         NEW door \in L!Doors, NEW filter \in {"any", "null", "!x"}, NEW parsed \in {"any", "true", "false"},
         NEW limit \in {-1, 1, Cap, Cap + 1}, L!Ask(door, filter, parsed, limit)
  PROVE  ListsInv'
<1> DEFINE ask == [door |-> door, filter |-> filter, parsed |-> parsed, limit |-> L!InRange(door, limit)]
<1>1. rows' = rows /\ left' = left /\ writes' = writes /\ ~ left /\ left \in BOOLEAN /\ writes = 0
      /\ rows \in [L!Ids -> TableRows]
  BY DEF L!Ask, ListsInv, WalkTypes
<1>2. ask \in Asks
  <2>1. limit \in Int /\ Cap \in Int
    BY KeysAndPages
  <2>2. L!InRange(door, limit) \in Int
    BY <2>1 DEF L!InRange
  <2> QED
    BY <2>2 DEF Asks
<1>3. CASE walk' = [L!Quiet EXCEPT !.pc = "refused"]
  <2>1. walk'.pc = "refused" /\ walk'.ask = L!NoAsk
        /\ walk' = [pc |-> walk'.pc, ask |-> walk'.ask, offset |-> walk'.offset, found |-> walk'.found, seen |-> walk'.seen]
    BY <1>3 DEF L!Quiet
  <2>2. L!NoAsk \in Asks
    BY DEF L!NoAsk, Asks, L!Doors
  <2> QED
    BY <1>1, <2>1, <2>2 DEF ListsInv, WalkTypes, WalkHolds
<1>4. CASE walk' = [L!Quiet EXCEPT !.pc = "query", !.ask = ask] /\ steady' = L!Matching(rows, ask)
  <2> HIDE DEF ask
  <2>1. walk'.pc = "query" /\ walk'.ask = ask /\ walk'.offset = 0 /\ walk'.seen = << >>
        /\ walk' = [pc |-> walk'.pc, ask |-> walk'.ask, offset |-> walk'.offset, found |-> walk'.found, seen |-> walk'.seen]
    BY <1>4 DEF L!Quiet
  <2>2. WalkTypes'
    BY <1>1, <1>2, <2>1 DEF WalkTypes
  <2>3. Now' = L!Matching(rows, ask)
    BY <1>1, <2>1 DEF Now, L!Matching
  <2>4. Now' \subseteq L!Ids
    BY <2>3, MatchingIds
  <2>5. ASSUME Promises(ask) PROVE OnTheWay' /\ SeenBefore(Now)'
    <3>1. Reached(ask, Now', 0, << >>) /\ Covers(ask.door.query, Now', Now', 0, << >>)
      BY <1>2, <2>4, <2>5, AtTheStart DEF Promises
    <3>2. steady' = Now'
      BY <1>4, <2>3
    <3>3. OnTheWay'
      BY <1>1, <2>1, <3>1, <3>2 DEF OnTheWay
    <3>4. Owed' \subseteq Now'
      BY <3>2 DEF Owed
    <3>5. SeenBefore(Now)'
      BY <2>1, <3>1, <3>2, <3>4 DEF SeenBefore, Covers
    <3> QED
      BY <3>3, <3>5
  <2> QED
    BY <1>1, <2>1, <2>2, <2>5 DEF ListsInv, WalkHolds
<1> QED
  BY <1>3, <1>4 DEF L!Ask

----------------------------------------------------------------------------
(* A write that makes no row cease to match leaves every row that matched.       *)

\* Rows that matched, match.
LEMMA WriteKeeps ==
  ASSUME ListsInv, NEW i \in L!Ids, NEW text \in {"NULL", "x", "y"}, NEW parsed \in BOOLEAN,
         L!Write(i, L!Row(text, parsed)), ~ left'
  PROVE  /\ L!Matching(rows, walk.ask) \subseteq L!Matching(rows', walk.ask)
         /\ L!Matching(rows, AnyParsed(walk.ask)) \subseteq L!Matching(rows', AnyParsed(walk.ask))
         /\ \A j \in L!Ids : rows[j].there /\ L!KeepsParsed(walk.ask.parsed, rows[j]) => L!KeepsParsed(walk.ask.parsed, rows'[j])
<1> DEFINE row == L!Row(text, parsed)
           ask == walk.ask
<1>1. rows \in [L!Ids -> TableRows] /\ ask \in Asks
  BY DEF ListsInv, WalkTypes
<1>2. rows' = [rows EXCEPT ![i] = row] /\ ~ L!Ceases(rows[i], row)
  BY DEF L!Write
<1>3. \A j \in L!Ids : rows'[j] = IF j = i THEN row ELSE rows[j]
  BY <1>1, <1>2
<1>4. row.there
  BY DEF L!Row
<1>5. rows[i].there => /\ L!Keeps(ask.filter, rows[i].text) => L!Keeps(ask.filter, row.text)
                       /\ L!KeepsParsed(ask.parsed, rows[i]) => L!KeepsParsed(ask.parsed, row)
  BY <1>2 DEF L!Ceases
<1> HIDE DEF row
<1>6. \A j \in L!Ids : rows[j].there => /\ rows'[j].there
                                        /\ L!Keeps(ask.filter, rows[j].text) => L!Keeps(ask.filter, rows'[j].text)
                                        /\ L!KeepsParsed(ask.parsed, rows[j]) => L!KeepsParsed(ask.parsed, rows'[j])
  BY <1>3, <1>4, <1>5
<1>7. AnyParsed(ask).filter = ask.filter /\ AnyParsed(ask).parsed = "any"
  BY <1>1 DEF AnyParsed, Asks
<1>8. \A j \in L!Ids : L!KeepsParsed("any", rows'[j])
  BY DEF L!KeepsParsed
<1> QED
  BY <1>6, <1>7, <1>8 DEF L!Matching

\* A write that makes no row leave only moves rows back, and any other ends the promise.
LEMMA ListsWritten ==
  ASSUME ListsInv, NEW i \in L!Ids, NEW text \in {"NULL", "x", "y"}, NEW parsed \in BOOLEAN,
         L!Write(i, L!Row(text, parsed))
  PROVE  ListsInv'
<1> DEFINE row == L!Row(text, parsed)
<1>1. /\ walk' = walk /\ walk.pc \in {"query", "more"} /\ writes' = writes + 1 /\ rows' = [rows EXCEPT ![i] = row]
      /\ steady' = steady \cap L!Matching(rows', walk.ask)
      /\ left' = (left \/ L!Ceases(rows[i], row) \/ walk.ask.door.query = L!chunks)
  BY DEF L!Write
<1>2. WalkTypes
  BY DEF ListsInv
<1>3. WalkTypes'
  <2>1. row \in TableRows
    BY DEF TableRows
  <2> HIDE DEF row
  <2>2. rows' \in [L!Ids -> TableRows]
    BY <1>1, <1>2, <2>1 DEF WalkTypes
  <2>3. left' \in BOOLEAN /\ writes' \in Nat /\ writes' # 0
    <3>1. L!Ceases(rows[i], row) \in BOOLEAN
      BY DEF L!Ceases
    <3> QED
      BY <1>1, <1>2, <3>1 DEF WalkTypes
  <2> QED
    BY <1>1, <1>2, <2>2, <2>3 DEF WalkTypes
<1>4. ASSUME Promises(walk.ask), ~ left'
      PROVE  /\ OnTheWay'
             /\ walk.pc = "query" /\ ~ IsCounted(walk.ask) => SeenBefore(Now)'
             /\ walk.pc = "more" => Halfway'
  <2> DEFINE ask == walk.ask
             query == walk.ask.door.query
             o == walk.offset
             seen == walk.seen
             P == ParsedIn(ask, walk.found)
  <2>1. ~ left /\ ~ IsCounted(ask)
    BY <1>1, <1>4 DEF IsCounted
  <2>2. /\ OnTheWay /\ (walk.pc = "query" => SeenBefore(Now)) /\ (walk.pc = "more" => Halfway)
    BY <1>1, <1>4, <2>1 DEF ListsInv, WalkHolds
  <2>3. /\ L!Matching(rows, walk.ask) \subseteq L!Matching(rows', walk.ask)
        /\ L!Matching(rows, AnyParsed(walk.ask)) \subseteq L!Matching(rows', AnyParsed(walk.ask))
        /\ \A j \in L!Ids : rows[j].there /\ L!KeepsParsed(walk.ask.parsed, rows[j]) => L!KeepsParsed(walk.ask.parsed, rows'[j])
    BY <1>4, WriteKeeps
  <2>4. Now = L!Matching(rows, ask) /\ Now' = L!Matching(rows', ask) /\ Now \subseteq Now' /\ Now' \subseteq L!Ids
    <3>1. Now = L!Matching(rows, ask) /\ Now' = L!Matching(rows', ask)
      BY <1>1 DEF Now, L!Matching
    <3>2. Now' \subseteq L!Ids
      BY <3>1 DEF L!Matching
    <3> QED
      BY <3>1, <3>2, <2>3
  <2>5. steady' = steady /\ steady \subseteq Now /\ Owed' = Owed
    <3>1. steady' = steady /\ steady \subseteq Now
      BY <1>1, <2>2, <2>4 DEF OnTheWay
    <3> QED
      BY <3>1, <1>1 DEF Owed
  <2>6. writes' # 0
    BY <1>1, <1>2 DEF WalkTypes
  <2>7. OnTheWay'
    <3>1. steady' \subseteq Now'
      BY <2>4, <2>5
    <3> QED
      BY <1>1, <2>1, <2>2, <2>6, <3>1 DEF OnTheWay
  <2>8. ASSUME NEW Q, NEW R, R \subseteq L!Ids, Q \subseteq R, steady \subseteq Q,
               Covers(query, Owed, Q, o, seen), o \in Nat
        PROVE  steady \subseteq R /\ Covers(query, Owed, R, o, seen)
    <3>1. R \subseteq Nat /\ IsFiniteSet(R) /\ Q \subseteq Nat /\ IsFiniteSet(Q)
      BY <2>8, IdsAreNumbers
    <3>2. ASSUME NEW j \in Owed, RankIn(Up(query), R, j) <= o PROVE j \in L!Members(seen)
      <4>1. RankIn(Up(query), Q, j) <= RankIn(Up(query), R, j)
        BY <2>8, <3>1, RankOfMore
      <4>2. j \in Q /\ j \in R
        BY <2>8 DEF Owed
      <4>3. RankIn(Up(query), Q, j) \in Nat /\ RankIn(Up(query), R, j) \in Nat
        BY <4>2, <3>1, RankType
      <4>4. RankIn(Up(query), Q, j) <= o
        BY <4>1, <4>3, <3>2, <2>8
      <4> QED
        BY <4>4, <2>8 DEF Covers
    <3> QED
      BY <3>2, <2>8 DEF Covers
  <2>9. walk.pc = "query" => SeenBefore(Now)'
    <3> SUFFICES ASSUME walk.pc = "query" PROVE SeenBefore(Now)'
      OBVIOUS
    <3>1. steady \subseteq Now /\ Covers(query, Owed, Now, o, seen) /\ o \in Nat
      BY <2>2 DEF SeenBefore, OnTheWay
    <3>2. steady \subseteq Now' /\ Covers(query, Owed, Now', o, seen)
      BY <3>1, <2>4, <2>8
    <3> QED
      BY <3>2, <2>5, <1>1 DEF SeenBefore
  <2>10. ASSUME walk.pc = "more" PROVE Halfway'
    <3>1. Halfway /\ o \in Nat
      BY <2>2, <2>10 DEF OnTheWay
    <3>2. ASSUME Parsed(ask)
          PROVE  L!Members(walk.found) \subseteq L!Matching(rows', AnyParsed(ask)) /\ SeenBefore(ParsedIn(ask, walk.found))'
      <4>1. L!Members(walk.found) \subseteq L!Matching(rows, AnyParsed(ask)) /\ SeenBefore(P)
        BY <3>1, <3>2 DEF Halfway
      <4>2. P' = {j \in L!Members(walk.found) : L!KeepsParsed(ask.parsed, rows'[j])}
            /\ P = {j \in L!Members(walk.found) : L!KeepsParsed(ask.parsed, rows[j])}
        BY <1>1 DEF ParsedIn
      <4>3. \A j \in L!Members(walk.found) : j \in L!Ids /\ rows[j].there
        BY <4>1 DEF L!Matching
      <4> HIDE DEF P
      <4>4. P \subseteq P' /\ P' \subseteq L!Ids
        BY <4>2, <4>3, <2>3
      <4>5. steady \subseteq P /\ Covers(query, Owed, P, o, seen)
        BY <4>1 DEF SeenBefore
      <4>6. steady \subseteq P' /\ Covers(query, Owed, P', o, seen)
        BY <4>4, <4>5, <3>1, <2>8
      <4>7. SeenBefore(P)'
        BY <4>6, <2>5, <1>1 DEF SeenBefore
      <4> QED
        BY <4>1, <4>7, <2>3, <1>1 DEF P
    <3>3. ASSUME ~ Parsed(ask)
          PROVE  \E Q \in SUBSET Now', f \in Orders(ask) :
                   SeenBefore(Q)' /\ Cut(ask, walk.found, o) = PageOf(f, ask, Q, o)
      <4>1. PICK Q \in SUBSET Now, f \in Orders(ask) :
                   SeenBefore(Q) /\ Cut(ask, walk.found, o) = PageOf(f, ask, Q, o)
        BY <3>1, <3>3, <2>1 DEF Halfway
      <4>2. SeenBefore(Q)'
        BY <4>1, <2>5, <1>1 DEF SeenBefore
      <4>3. Q \in SUBSET Now'
        BY <2>4
      <4> QED
        BY <4>1, <4>2, <4>3
    <3> QED
      BY <1>1, <2>6, <3>2, <3>3 DEF Halfway
  <2> QED
    BY <2>7, <2>9, <2>10
<1>5. WalkHolds'
  BY <1>1, <1>4 DEF WalkHolds
<1> QED
  BY <1>3, <1>5 DEF ListsInv
----------------------------------------------------------------------------
(* A page that is shown: the next begins where it ended.                         *)

\* The walk before a page of the rows found is shown.
Ready(found) ==
  /\ OnTheWay
  /\ writes = 0 /\ Strict(walk.ask) => found = L!Found(walk.ask, L!Sorted(walk.ask.door.query), walk.offset)
  /\ ~ IsCounted(walk.ask) =>
       \E Q \in SUBSET Now, f \in Orders(walk.ask) :
         SeenBefore(Q) /\ L!Page(walk.ask, found, walk.offset) = PageOf(f, walk.ask, Q, walk.offset)

\* The pages of the chunks are whole: their offset is of the page that was asked for.
LEMMA CountedPage ==
  ASSUME NEW ask \in Asks, ask.limit >= 1, IsCounted(ask),
         NEW M, M \subseteq L!Ids, NEW o \in Nat, NEW seen, Reached(ask, M, o, seen)
  PROVE  LET s == Line(ask, M) IN
         /\ L!Effective(s, ask.limit, o) = o /\ o \div ask.limit \in Nat
         /\ o \div ask.limit < L!LastPage(s, ask.limit) =>
              \E c \in 0 .. L!LastPage(s, ask.limit) : o + ask.limit = c * ask.limit
         /\ ~ (o \div ask.limit < L!LastPage(s, ask.limit)) => Len(s) <= o + ask.limit
         /\ s # << >> => o + 1 <= Len(s)
         /\ s = << >> => o = 0 /\ ~ (o \div ask.limit < L!LastPage(s, ask.limit))
<1> DEFINE s == Line(ask, M)
           n == ask.limit
           last == L!LastPage(s, n)
<1>1. s \in Seq(M) /\ Len(s) \in Nat /\ n \in Nat /\ n >= 1
  BY LineIs, OneOrder DEF Asks
<1>2. PICK c \in 0 .. last : o = c * n
  BY DEF Reached
<1> HIDE DEF s, n
<1>3. s = << >> => last = 0
  BY DEF L!LastPage
<1>4. s # << >> => last = (Len(s) - 1) \div n /\ Len(s) - 1 \in Nat
  BY <1>1 DEF L!LastPage
<1>5. last \in Nat /\ (s # << >> => last * n <= Len(s) - 1 /\ Len(s) - 1 < (last + 1) * n)
  BY <1>1, <1>3, <1>4, WholePages
<1> HIDE DEF last
<1>6. c \in Nat /\ c <= last
  BY <1>2, <1>5
<1>7. (c * n) \div n = c /\ (last * n) \div n = last
  BY <1>1, <1>5, <1>6, WholePages
<1>8. c * n \in Nat /\ last * n \in Nat /\ c * n <= last * n /\ (c < last => c * n < last * n)
  BY <1>1, <1>5, <1>6
<1>9. L!Effective(s, n, o) = o /\ o \div n = c
  <2>1. L!Effective(s, n, o) = ((IF c * n < last * n THEN c * n ELSE last * n) \div n) * n
    BY <1>2 DEF L!Effective, last
  <2>2. (IF c * n < last * n THEN c * n ELSE last * n) = c * n
    BY <1>8
  <2> QED
    BY <2>1, <2>2, <1>2, <1>7
<1>10. ASSUME c < last PROVE \E d \in 0 .. last : o + n = d * n
  <2>1. c + 1 \in 0 .. last /\ (c + 1) * n = c * n + n
    BY <1>1, <1>5, <1>6, <1>10
  <2> QED
    BY <2>1, <1>2
<1>11. ASSUME ~ (c < last) PROVE Len(s) <= o + n
  <2>1. c = last
    BY <1>5, <1>6, <1>11
  <2>2. CASE s = << >>
    BY <2>2, <1>1
  <2>3. CASE s # << >>
    <3>1. (last + 1) * n = last * n + n
      BY <1>1, <1>5
    <3> QED
      BY <3>1, <2>1, <2>3, <1>1, <1>2, <1>5, <1>8
  <2> QED
    BY <2>2, <2>3
<1>12. s # << >> => o + 1 <= Len(s)
  BY <1>1, <1>2, <1>5, <1>8
<1>13. s = << >> => o = 0 /\ ~ (c < last)
  <2>1. ASSUME s = << >> PROVE c = 0 /\ last = 0
    BY <2>1, <1>3, <1>6
  <2> QED
    BY <2>1, <1>2, <1>1
<1> QED
  BY <1>9, <1>10, <1>11, <1>12, <1>13, <1>6, <1>5 DEF s, n, last

\* A page that is shown keeps ListsInv.
LEMMA PageShown ==
  ASSUME ListsInv, NEW found, UNCHANGED <<rows, steady, left, writes>>, L!Show(found),
         walk.pc # "idle", Promises(walk.ask) /\ ~ left => Ready(found)
  PROVE  ListsInv'
<1> DEFINE ask == walk.ask
           query == walk.ask.door.query
           n == walk.ask.limit
           o == walk.offset
           M == Now
           s == Line(ask, M)
           page == L!Page(ask, found, o)
           next == L!Next_offset(ask, found, page, o)
           seen == walk.seen \o L!Shown(ask, page)
           then == IF next # -1 THEN L!Next_ask(ask) ELSE ask
<1>0. WalkTypes
  BY DEF ListsInv
<1>1. walk' = [walk EXCEPT !.seen = seen, !.found = << >>, !.pc = IF next # -1 THEN "query" ELSE "done",
                           !.offset = IF next # -1 THEN next ELSE @, !.ask = then]
  BY DEF L!Show
<1>2. /\ walk'.seen = seen /\ walk'.pc = (IF next # -1 THEN "query" ELSE "done") /\ walk'.ask = then
      /\ walk'.offset = IF next # -1 THEN next ELSE o
      /\ walk' = [pc |-> walk'.pc, ask |-> walk'.ask, offset |-> walk'.offset, found |-> walk'.found, seen |-> walk'.seen]
  <2> HIDE DEF seen, next, then
  <2> QED
    BY <1>0, <1>1 DEF WalkTypes
<1>a. /\ ask \in Asks /\ then \in Asks /\ then.door = ask.door /\ then.limit = n
      /\ L!Matching(rows, ask) \subseteq L!Matching(rows, then) /\ (Strict(ask) => then = ask)
  <2>1. ask \in Asks
    BY <1>0 DEF WalkTypes
  <2>2. Strict(ask) => ask.door.next # "unfiltered"
    <3>1. ask.door \in L!Doors
      BY <2>1 DEF Asks
    <3>2. KindOf(query, ask.door.next)
      BY <3>1, DoorKinds
    <3> QED
      BY <3>2 DEF KindOf, Strict
  <2>3. CASE then = ask
    BY <2>1, <2>3
  <2>4. CASE then = [ask EXCEPT !.filter = "any"] /\ ask.door.next = "unfiltered"
    <3>1. /\ then \in Asks /\ then.door = ask.door /\ then.limit = n /\ then.filter = "any"
          /\ then.parsed = ask.parsed
      BY <2>1, <2>4 DEF Asks
    <3>2. \A i : L!Keeps("any", i)
      BY DEF L!Keeps
    <3> HIDE DEF then
    <3>3. L!Matching(rows, ask) \subseteq L!Matching(rows, then)
      BY <3>1, <3>2 DEF L!Matching
    <3> QED
      BY <2>1, <2>2, <2>4, <3>1, <3>3
  <2> QED
    BY <2>3, <2>4 DEF L!Next_ask
<1>3. ask \in Asks /\ WalkTypes'
  <2> HIDE DEF seen, next, then
  <2> QED
    BY <1>0, <1>2, <1>a DEF WalkTypes
<1> DEFINE W == L!Matching(rows, then)
<1>4. /\ Now' = W /\ M \subseteq W /\ W \subseteq L!Ids /\ M \subseteq L!Ids /\ (Strict(ask) => W = M)
      /\ Owed' = Owed
  <2> HIDE DEF seen, next, then
  <2>1. Now' = W
    BY <1>2 DEF Now, L!Matching
  <2>2. M \subseteq W /\ (Strict(ask) => W = M)
    BY <1>a DEF Now
  <2>3. Owed' = Owed
    BY <1>2, <1>a DEF Owed
  <2> QED
    BY <2>1, <2>2, <2>3, MatchingIds DEF Now
<1> HIDE DEF then, W
<1>5. ASSUME Promises(ask), ~ left
      PROVE  /\ next # -1 => OnTheWay' /\ (~ IsCounted(ask) => SeenBefore(Now)')
             /\ next = -1 => Owed \subseteq L!Members(seen) /\ (writes = 0 /\ Strict(ask) => seen = s)
  <2>1. /\ Ready(found) /\ OnTheWay /\ o \in Nat /\ n \in Nat /\ n >= 1 /\ walk.seen \in Seq(L!Ids)
        /\ steady \subseteq M /\ ask.door \in L!Doors /\ ask.door.next # "none"
    BY <1>3, <1>5 DEF Ready, OnTheWay, Promises, Asks
  <2>2. writes = 0 /\ Strict(ask) => Reached(ask, M, o, walk.seen) /\ found = L!Found(ask, L!Sorted(query), o)
    BY <2>1 DEF Ready, OnTheWay
  <2>3. writes = 0 /\ Strict(ask) => walk.seen = Part(s, 0, o) /\ o <= Len(s)
    BY <2>2 DEF Reached
  <2>4. s \in Seq(M) /\ s \in Seq(L!Ids) /\ Len(s) \in Nat /\ L!Members(s) = M /\ s = L!Ordered(L!Sorted(query), M)
    BY <1>4, LineIs, OneOrder DEF Line
  <2>5. KindOf(query, ask.door.next)
    BY <2>1, DoorKinds
  <2>6. CASE ~ IsCounted(ask)
    <3>1. query.cut # "counted" /\ ask.door.next # "counted"
      BY <2>5, <2>6 DEF KindOf, IsCounted
    <3>2. L!Shown(ask, page) = page /\ next = IF Len(page) = n /\ page # << >> THEN o + Len(page) ELSE -1
      <4> HIDE DEF page
      <4> QED
        BY <2>1, <3>1 DEF L!Shown, L!Next_offset
    <3>3. PICK Q \in SUBSET M, f \in Orders(ask) : SeenBefore(Q) /\ page = PageOf(f, ask, Q, o)
      BY <2>1, <2>6 DEF Ready
    <3> DEFINE p == Part(L!Ordered(f, Q), o, n)
    <3>4. page = p
      BY <3>3 DEF PageOf
    <3>5. /\ Q \subseteq W /\ Owed \subseteq Q \ L!Loose(query) /\ Covers(query, Owed, Q, o, walk.seen)
          /\ f \in L!Orders(query)
      BY <3>3, <1>4 DEF SeenBefore, Owed, Orders
    <3>6. /\ p \in Seq(L!Ids) /\ walk.seen \o p \in Seq(L!Ids) /\ Len(p) \in Nat
          /\ Covers(query, Owed, W, o + n, walk.seen \o p)
          /\ Len(p) # n => Owed \subseteq L!Members(walk.seen \o p)
      <4> HIDE DEF p, M
      <4> QED
        BY <2>1, <3>5, <1>4, PageCovers DEF p
    <3>7. seen = walk.seen \o p
      BY <3>2, <3>4
    <3>8. Len(p) = n => p # << >>
      <4> HIDE DEF p
      <4> QED
        BY <2>1
    <3>9. /\ Len(p) = n => next = o + n /\ next # -1
          /\ Len(p) # n => next = -1
      <4> HIDE DEF page, p, next
      <4> QED
        BY <2>1, <3>2, <3>4, <3>8
    <3>10. writes = 0 /\ Strict(ask) =>
             /\ Part(s, 0, o) \o p = Part(s, 0, o + n)
             /\ Len(p) = n => o + n <= Len(s)
             /\ Len(p) # n => Part(s, 0, o + n) = s
      <4> SUFFICES ASSUME writes = 0, Strict(ask)
                   PROVE  /\ Part(s, 0, o) \o p = Part(s, 0, o + n)
                          /\ Len(p) = n => o + n <= Len(s)
                          /\ Len(p) # n => Part(s, 0, o + n) = s
        OBVIOUS
      <4>0. o <= Len(L!Ordered(L!Sorted(query), M)) /\ L!Sorted(query) \in Orders(ask)
            /\ L!Sorted(query) \in L!Orders(query)
        BY <2>3, <2>4, OneOrder DEF Orders
      <4>1. page = PageOf(L!Sorted(query), ask, M, o)
        BY <1>3, <2>1, <2>2, <2>6, <4>0, FoundPage DEF Now
      <4>2. p = Part(L!Ordered(L!Sorted(query), M), o, n)
        BY <4>1, <3>4 DEF PageOf
      <4> HIDE DEF p, M
      <4> QED
        BY <4>0, <4>2, <2>1, <1>4, PageReaches DEF Line
    <3> HIDE DEF p, page, next, seen, s
    <3>11. CASE Len(p) = n
      <4>1. next # -1 /\ walk'.offset = o + n /\ walk'.seen = walk.seen \o p
        BY <1>2, <3>7, <3>9, <3>11
      <4>2. writes = 0 /\ Strict(ask) => Reached(ask, M, o + n, walk.seen \o p)
        BY <2>3, <2>6, <3>10, <3>11 DEF Reached, s
      <4>a. IsCounted(then) = IsCounted(ask) /\ Strict(then) = Strict(ask) /\ (Strict(ask) => then = ask)
        BY <1>a DEF IsCounted, Strict
      <4>3. o + n \in Nat
        BY <2>1
      <4>4. OnTheWay'
        BY <4>1, <4>2, <4>3, <4>a, <3>6, <2>1, <2>6, <1>2, <1>4 DEF OnTheWay
      <4>5. SeenBefore(Now)'
        BY <4>1, <3>6, <2>1, <1>2, <1>4, <1>a DEF SeenBefore
      <4> QED
        BY <4>1, <4>4, <4>5
    <3>12. CASE Len(p) # n
      BY <2>3, <3>6, <3>7, <3>9, <3>10, <3>12
    <3> QED
      BY <3>11, <3>12
  <2>7. CASE IsCounted(ask)
    <3>0. Strict(ask) /\ then = ask
      <4>1. Strict(ask)
        BY <2>5, <2>7 DEF KindOf, IsCounted, Strict
      <4> QED
        BY <4>1, <1>a
    <3>1. /\ writes = 0 /\ Reached(ask, M, o, walk.seen) /\ found = L!Found(ask, L!Sorted(query), o)
          /\ walk.seen = Part(s, 0, o) /\ o <= Len(s)
      BY <2>1, <2>2, <2>3, <2>7, <3>0 DEF OnTheWay
    <3>2. query.cut = "counted" /\ ask.door.next = "counted" /\ query # L!jobs /\ query # L!parsed_specs
      BY <2>5, <2>7 DEF KindOf, IsCounted
    <3>3. found = s
      <4> HIDE DEF s
      <4> QED
        BY <3>1, <3>2 DEF L!Found, s, Line, Now
    <3> DEFINE eff == L!Effective(s, n, o)
               last == L!LastPage(s, n)
    <3>4. /\ eff = o /\ o \div n \in Nat
          /\ o \div n < last => \E c \in 0 .. last : o + n = c * n
          /\ ~ (o \div n < last) => Len(s) <= o + n
          /\ s # << >> => o + 1 <= Len(s)
          /\ s = << >> => o = 0 /\ ~ (o \div n < last)
      <4> HIDE DEF M
      <4> QED
        BY <1>3, <1>4, <2>1, <2>7, <3>1, CountedPage
    <3> DEFINE p == Part(s, o, n)
               big == Part(s, o, n + 1)
    <3>5. page = IF s = << >> THEN << >> ELSE L!Sql(s, n + 1, eff)
      <4>1. page = IF found = << >> THEN << >> ELSE L!Sql(s, n + 1, L!Effective(found, n, o))
        <5> HIDE DEF eff, last
        <5> QED
          BY <3>2 DEF L!Page, Line, Now
      <4> HIDE DEF s
      <4> QED
        BY <4>1, <3>3
    <3>6. page = big
      <4>0. n + 1 \in Nat
        BY <2>1
      <4>1. CASE s # << >>
        <5>1. L!Sql(s, n + 1, o) = big
          <6> HIDE DEF s, eff
          <6> QED
            BY <2>1, <2>4, <4>0, SqlIs
        <5> HIDE DEF s, eff, page, big
        <5> QED
          BY <5>1, <4>1, <3>4, <3>5
      <4>2. CASE s = << >>
        <5> HIDE DEF s, eff
        <5>1. big \in Seq(L!Ids) /\ Len(big) = IF o < Len(s) THEN Lower(n + 1, Len(s) - o) ELSE 0
          <6> DEFINE k == n + 1
          <6>1. k \in Nat /\ o \in Nat /\ s \in Seq(L!Ids)
            BY <2>1, <2>4, <4>0
          <6> HIDE DEF k, n, o
          <6>2. Len(Part(s, o, k)) = (IF o < Len(s) THEN Lower(k, Len(s) - o) ELSE 0) /\ Part(s, o, k) \in Seq(L!Ids)
            BY <6>1, PartIs
          <6> QED
            BY <6>2 DEF k, n, o
        <5>2. Len(s) = 0
          BY <4>2
        <5> HIDE DEF big, page
        <5>3. big = << >>
          BY <5>1, <5>2, <2>1
        <5> QED
          BY <5>3, <4>2, <3>5
      <4> QED
        BY <4>1, <4>2
    <3>7. L!Shown(ask, page) = p
      <4>1. big \in Seq(L!Ids)
        <5>1. n + 1 \in Nat
          BY <2>1
        <5> HIDE DEF s
        <5> QED
          BY <5>1, <2>1, <2>4, PartIs
      <4>2. L!Sql(big, n, 0) = Part(big, 0, n)
        <5>1. 0 \in Nat
          OBVIOUS
        <5> HIDE DEF big
        <5> QED
          BY <4>1, <5>1, <2>1, SqlIs
      <4>3. Part(big, 0, n) = p
        <5> HIDE DEF s
        <5> QED
          BY <2>1, <2>4, PartOfLarger
      <4> HIDE DEF big, page, p
      <4> QED
        BY <4>2, <4>3, <3>2, <3>6 DEF L!Shown
    <3>8. next = IF Len(big) > n /\ o \div n < last THEN o + n ELSE -1
      <4>1. next = IF Len(page) > n /\ L!Effective(found, n, o) \div n < L!LastPage(found, n)
                   THEN L!Effective(found, n, o) + n ELSE -1
        <5> HIDE DEF page
        <5> QED
          BY <3>2 DEF L!Next_offset
      <4> HIDE DEF s, page, big, next
      <4> QED
        BY <4>1, <3>3, <3>4, <3>6
    <3>9. Len(big) = (IF o < Len(s) THEN Lower(n + 1, Len(s) - o) ELSE 0)
          /\ big \in Seq(L!Ids) /\ p \in Seq(L!Ids)
      <4> DEFINE k == n + 1
      <4>1. k \in Nat /\ o \in Nat /\ n \in Nat /\ s \in Seq(L!Ids)
        BY <2>1, <2>4
      <4> HIDE DEF s, k, n, o
      <4>2. Len(Part(s, o, k)) = (IF o < Len(s) THEN Lower(k, Len(s) - o) ELSE 0) /\ Part(s, o, k) \in Seq(L!Ids)
        BY <4>1, PartIs
      <4>3. Part(s, o, n) \in Seq(L!Ids)
        BY <4>1, PartIs
      <4> QED
        BY <4>2, <4>3 DEF k, n, o
    <3>10. /\ Part(s, 0, o) \o p = Part(s, 0, o + n)
           /\ Len(s) <= o + n => Part(s, 0, o + n) = s
      <4>0. o <= Len(L!Ordered(L!Sorted(query), M)) /\ L!Sorted(query) \in L!Orders(query)
        BY <3>1, <2>4, SortedIsOne
      <4>2. p = Part(L!Ordered(L!Sorted(query), M), o, n)
        BY <2>4
      <4> HIDE DEF p, M
      <4> QED
        BY <4>0, <4>2, <2>1, <1>4, PageReaches DEF Line
    <3>11. seen = Part(s, 0, o + n)
      <4> HIDE DEF s, page, p
      <4> QED
        BY <3>1, <3>7, <3>10
    <3> HIDE DEF p, page, big, next, seen, s, last, eff
    <3>12. CASE next # -1
      <4>1. Len(big) > n /\ o \div n < last /\ next = o + n
        BY <3>8, <3>12
      <4>2. o + n <= Len(s)
        BY <4>1, <3>9, <2>1, <2>4 DEF Lower
      <4>3. \E c \in 0 .. last : o + n = c * n
        BY <4>1, <3>4
      <4>4. Reached(ask, M, o + n, seen)
        BY <4>2, <4>3, <3>11 DEF Reached, s, last
      <4>5. walk.seen \o p \in Seq(L!Ids)
        BY <2>1, <3>9, JoinIs
      <4>6. seen \in Seq(L!Ids)
        BY <4>5, <3>7 DEF seen
      <4>7. o + n \in Nat /\ walk'.offset = o + n /\ walk'.seen = seen
        BY <4>1, <2>1, <1>2, <3>12
      <4>8. OnTheWay'
        BY <4>4, <4>6, <4>7, <3>0, <3>1, <2>1, <1>2, <1>4 DEF OnTheWay
      <4> QED
        BY <4>8, <3>12, <2>7
    <3>13. CASE next = -1
      <4>1. ~ (Len(big) > n) \/ ~ (o \div n < last)
        <5>1. o + n # -1
          BY <2>1
        <5> QED
          BY <5>1, <3>8, <3>13
      <4>2. ~ (Len(big) > n) => Len(s) <= o + n
        BY <3>9, <2>1, <2>4 DEF Lower
      <4>3. Len(s) <= o + n
        BY <4>1, <4>2, <3>4
      <4>4. seen = s
        BY <4>3, <3>10, <3>11
      <4>5. Owed \subseteq L!Members(s)
        BY <2>1, <2>4 DEF Owed
      <4> QED
        BY <4>4, <4>5, <3>13
    <3> QED
      BY <3>12, <3>13
  <2> QED
    BY <2>6, <2>7
<1>6. WalkHolds'
  <2>1. CASE next # -1
    <3>1. walk'.pc = "query" /\ walk'.ask = then
      <4> HIDE DEF next, seen
      <4> QED
        BY <2>1, <1>2
    <3>a. IsCounted(then) = IsCounted(ask) /\ Promises(then) = Promises(ask)
      BY <1>a DEF IsCounted, Promises
    <3> HIDE DEF next, seen
    <3>2. Promises(ask) /\ ~ left => OnTheWay' /\ (~ IsCounted(ask) => SeenBefore(Now)')
      BY <2>1, <1>5
    <3> QED
      BY <3>1, <3>a, <3>2 DEF WalkHolds
  <2>2. CASE next = -1
    <3>1. walk'.pc = "done" /\ walk'.ask = ask /\ walk'.seen = seen
      <4>1. then = ask
        BY <2>2 DEF then
      <4> HIDE DEF next, seen
      <4> QED
        BY <4>1, <2>2, <1>2
    <3>2. Strict(ask) => Line(ask, Now') = s
      BY <1>4
    <3> HIDE DEF next, seen, s
    <3>3. Promises(ask) /\ ~ left => Owed \subseteq L!Members(seen) /\ (writes = 0 /\ Strict(ask) => seen = s)
      BY <2>2, <1>5
    <3> QED
      BY <3>1, <3>2, <3>3, <1>4 DEF WalkHolds
  <2> QED
    BY <2>1, <2>2
<1> QED
  BY <1>3, <1>6 DEF ListsInv

\* The first statement keeps it: its page is a part of the rows of now.
LEMMA ListsQueried == ListsInv /\ L!Query => ListsInv'
<1> SUFFICES ASSUME ListsInv, L!Query PROVE ListsInv'
  OBVIOUS
<1> DEFINE ask == walk.ask
           o == walk.offset
<1>0. PICK f \in Orders(ask) :
        LET found == L!Found(ask, f, o) IN
        IF ask.door.query.more /\ found # << >> THEN walk' = [walk EXCEPT !.pc = "more", !.found = found] ELSE L!Show(found)
  BY DEF L!Query, Orders
<1> DEFINE found == L!Found(ask, f, o)
<1>1. walk.pc = "query" /\ UNCHANGED <<rows, steady, left, writes>> /\ ask \in Asks /\ WalkTypes
  BY DEF L!Query, ListsInv, WalkTypes
<1>2. CASE ask.door.query.more /\ found # << >> /\ walk' = [walk EXCEPT !.pc = "more", !.found = found]
  <2>1. /\ walk'.pc = "more" /\ walk'.found = found /\ walk'.ask = ask /\ walk'.offset = o /\ walk'.seen = walk.seen
        /\ walk' = [pc |-> walk'.pc, ask |-> walk'.ask, offset |-> walk'.offset, found |-> walk'.found, seen |-> walk'.seen]
    <3> HIDE DEF found
    <3> QED
      BY <1>1, <1>2 DEF WalkTypes
  <2> HIDE DEF found
  <2>2. WalkTypes'
    BY <1>1, <2>1 DEF WalkTypes
  <2>3. Now' = Now
    BY <1>1, <2>1 DEF Now, L!Matching
  <2>4. ASSUME Promises(ask), ~ left PROVE OnTheWay' /\ Halfway'
    <3>1. OnTheWay /\ (~ IsCounted(ask) => SeenBefore(Now)) /\ o \in Nat /\ ask.limit >= 1
      BY <1>1, <2>4 DEF ListsInv, WalkHolds, OnTheWay, Promises
    <3>2. OnTheWay'
      BY <3>1, <2>1, <2>3, <1>1 DEF OnTheWay
    <3>3. Strict(ask) => walk'.found = L!Found(walk.ask, L!Sorted(walk.ask.door.query), walk.offset)'
      <4>1. \A g : L!Found(walk.ask, g, walk.offset)' = L!Found(ask, g, o)
        BY <1>1, <2>1 DEF L!Found, L!Matching
      <4>2. Strict(ask) => f = L!Sorted(ask.door.query)
        BY OneOrder
      <4> QED
        BY <4>1, <4>2, <2>1 DEF found
    <3>4. ASSUME ~ IsCounted(ask) PROVE L!Page(ask, found, o) = PageOf(f, ask, Now, o)
      BY <3>1, <3>4, <1>1, FoundPage DEF Now, found
    <3>5. ASSUME Parsed(ask)
          PROVE  /\ L!Members(found) \subseteq L!Matching(rows, AnyParsed(ask))
                 /\ ParsedIn(ask, found) = Now /\ ~ IsCounted(ask)
      <4>0. ask.door \in L!Doors
        BY <1>1 DEF Asks
      <4>1. KindOf(ask.door.query, ask.door.next)
        BY <4>0, DoorKinds
      <4>2. ask.door.query.cut = "slice" /\ ask.door.query # L!jobs /\ ~ IsCounted(ask)
        BY <4>1, <3>5 DEF KindOf, Parsed, IsCounted
      <4>3. found = L!Ordered(f, L!Matching(rows, AnyParsed(ask)))
        BY <4>2, <3>5 DEF found, L!Found, AnyParsed, Parsed
      <4>4. L!Members(found) = L!Matching(rows, AnyParsed(ask))
        BY <4>3, LineIs, MatchingIds
      <4>5. ParsedIn(ask, found) = Now
        <5>1. {i \in L!Matching(rows, AnyParsed(ask)) : L!KeepsParsed(ask.parsed, rows[i])} = Now
          BY <1>1, AnyParsedFinds DEF Now
        <5> QED
          BY <5>1, <4>4 DEF ParsedIn
      <4> QED
        BY <4>2, <4>4, <4>5
    <3>6. ~ Parsed(ask) /\ ~ IsCounted(ask) => Cut(ask, found, o) = PageOf(f, ask, Now, o)
      BY <3>1, <3>4, <1>1, PageOfFound
    <3>7. ~ IsCounted(ask) => SeenBefore(Now)'
      BY <3>1, <2>1, <2>3, <1>1 DEF SeenBefore, Owed
    <3>9. Parsed(ask) => /\ L!Members(walk'.found) \subseteq L!Matching(rows', AnyParsed(walk'.ask))
                         /\ SeenBefore(ParsedIn(walk.ask, walk.found))'
      <4> SUFFICES ASSUME Parsed(ask)
                   PROVE  /\ L!Members(walk'.found) \subseteq L!Matching(rows', AnyParsed(walk'.ask))
                          /\ SeenBefore(ParsedIn(walk.ask, walk.found))'
        OBVIOUS
      <4>1. L!Members(found) \subseteq L!Matching(rows, AnyParsed(ask)) /\ ParsedIn(ask, found) = Now /\ ~ IsCounted(ask)
        BY <3>5
      <4>2. ParsedIn(walk.ask, walk.found)' = ParsedIn(ask, found)
        BY <1>1, <2>1 DEF ParsedIn
      <4>3. ParsedIn(walk.ask, walk.found)' = Now'
        BY <4>1, <4>2, <2>3
      <4>4. SeenBefore(ParsedIn(walk.ask, walk.found))'
        BY <3>7, <4>1, <4>3 DEF SeenBefore
      <4> QED
        BY <4>1, <4>4, <1>1, <2>1
    <3>10. ~ Parsed(ask) /\ ~ IsCounted(ask) =>
             \E Q \in SUBSET Now', g \in Orders(ask) : SeenBefore(Q)' /\ Cut(ask, found, o) = PageOf(g, ask, Q, o)
      <4> SUFFICES ASSUME ~ Parsed(ask), ~ IsCounted(ask)
                   PROVE  \E Q \in SUBSET Now', g \in Orders(ask) : SeenBefore(Q)' /\ Cut(ask, found, o) = PageOf(g, ask, Q, o)
        OBVIOUS
      <4>1. \A Q : Q = Now' => SeenBefore(Q)'
        BY <3>7 DEF SeenBefore
      <4> QED
        BY <4>1, <3>6, <2>3
    <3>11. Halfway'
      <4>1. \A Q, g : PageOf(g, walk.ask, Q, walk.offset)' = PageOf(g, ask, Q, o)
        BY <2>1 DEF PageOf
      <4>2. Cut(walk.ask, walk.found, walk.offset)' = Cut(ask, found, o)
        BY <2>1 DEF Cut
      <4>3. IsCounted(walk.ask)' = IsCounted(ask) /\ Parsed(walk.ask)' = Parsed(ask) /\ Strict(walk.ask)' = Strict(ask)
            /\ Orders(walk.ask)' = Orders(ask)
        BY <2>1 DEF IsCounted, Parsed, Strict, Orders
      <4> QED
        BY <3>3, <3>9, <3>10, <4>1, <4>2, <4>3, <2>1, <1>1 DEF Halfway
    <3> QED
      BY <3>2, <3>11
  <2>5. WalkHolds'
    BY <1>1, <2>1, <2>4 DEF WalkHolds
  <2> QED
    BY <2>2, <2>5 DEF ListsInv
<1>3. CASE L!Show(found)
  <2> HIDE DEF found
  <2>1. ASSUME Promises(ask), ~ left PROVE Ready(found)
    <3>1. OnTheWay /\ (~ IsCounted(ask) => SeenBefore(Now)) /\ o \in Nat /\ ask.limit >= 1
      BY <1>1, <2>1 DEF ListsInv, WalkHolds, OnTheWay, Promises
    <3>2. ~ IsCounted(ask) => L!Page(ask, found, o) = PageOf(f, ask, Now, o)
      BY <3>1, <1>1, FoundPage DEF Now, found
    <3>3. Strict(ask) => f = L!Sorted(ask.door.query)
      BY OneOrder
    <3> QED
      BY <3>1, <3>2, <3>3 DEF Ready, found
  <2> QED
    BY <1>1, <1>3, <2>1, PageShown
<1> QED
  BY <1>0, <1>2, <1>3

\* The second keeps it: its page is a part of the rows of then, or of those of them that
\* are parsed.
LEMMA ListsMore == ListsInv /\ L!More => ListsInv'
<1> SUFFICES ASSUME ListsInv, L!More PROVE ListsInv'
  OBVIOUS
<1> DEFINE ask == walk.ask
           o == walk.offset
           found == walk.found
<1>1. walk.pc = "more" /\ UNCHANGED <<rows, steady, left, writes>> /\ ask \in Asks /\ L!Show(found)
  BY DEF L!More, ListsInv, WalkTypes
<1>2. ASSUME Promises(ask), ~ left PROVE Ready(found)
  <2>1. OnTheWay /\ Halfway /\ o \in Nat /\ ask.limit >= 1
    BY <1>1, <1>2 DEF ListsInv, WalkHolds, OnTheWay, Promises
  <2>2. ASSUME ~ IsCounted(ask)
        PROVE  \E Q \in SUBSET Now, f \in Orders(ask) : SeenBefore(Q) /\ L!Page(ask, found, o) = PageOf(f, ask, Q, o)
    <3>1. CASE Parsed(ask)
      <4> DEFINE Q == ParsedIn(ask, found)
      <4>1. L!Members(found) \subseteq L!Matching(rows, AnyParsed(ask)) /\ SeenBefore(Q)
        BY <2>1, <3>1 DEF Halfway
      <4>2. Q \subseteq {i \in L!Matching(rows, AnyParsed(ask)) : L!KeepsParsed(ask.parsed, rows[i])}
        BY <4>1 DEF ParsedIn
      <4>3. Q \subseteq Now
        BY <4>2, <1>1, AnyParsedFinds DEF Now
      <4>4. Q \subseteq L!Ids
        BY <4>3, MatchingIds DEF Now
      <4>5. L!Page(ask, found, o) = PageOf(L!Sorted(ask.door.query), ask, Q, o)
        BY <4>4, <3>1, <2>1, <2>2, <1>1, PageOfFound
      <4> HIDE DEF Q
      <4> QED
        BY <4>1, <4>3, <4>5, OneOrder
    <3>2. CASE ~ Parsed(ask)
      <4>1. PICK Q \in SUBSET Now, f \in Orders(ask) : SeenBefore(Q) /\ Cut(ask, found, o) = PageOf(f, ask, Q, o)
        BY <2>1, <2>2, <3>2 DEF Halfway
      <4>2. L!Page(ask, found, o) = Cut(ask, found, o)
        BY <3>2, <2>1, <2>2, <1>1, PageOfFound
      <4> QED
        BY <4>1, <4>2
    <3> QED
      BY <3>1, <3>2
  <2>3. writes = 0 /\ Strict(ask) => found = L!Found(ask, L!Sorted(ask.door.query), o)
    BY <2>1 DEF Halfway
  <2> QED
    BY <2>1, <2>2, <2>3 DEF Ready
<1> QED
  BY <1>1, <1>2, PageShown

\* ListsInv is inductive.
LEMMA ListsKept == ListsInv /\ [L!Next]_(L!vars) => ListsInv'
<1> SUFFICES ASSUME ListsInv, [L!Next]_(L!vars) PROVE ListsInv'
  OBVIOUS
<1>1. CASE L!Query
  BY <1>1, ListsQueried
<1>2. CASE L!More
  BY <1>2, ListsMore
<1>3. ASSUME walk.pc = "idle", NEW door \in L!Doors, NEW filter \in {"any", "null", "!x"},
             NEW parsed \in {"any", "true", "false"}, NEW limit \in {-1, 1, Cap, Cap + 1}, L!Ask(door, filter, parsed, limit)
      PROVE  ListsInv'
  BY <1>3, ListsAsked
<1>4. ASSUME NEW i \in L!Ids, NEW text \in {"NULL", "x", "y"}, NEW parsed \in BOOLEAN, L!Write(i, L!Row(text, parsed))
      PROVE  ListsInv'
  BY <1>4, ListsWritten
<1>5. CASE UNCHANGED L!vars
  <2>1. UNCHANGED <<rows, walk, steady, left, writes>>
    BY <1>5 DEF L!vars
  <2>2. Now' = Now /\ WalkTypes'
    BY <2>1 DEF Now, L!Matching, WalkTypes, ListsInv
  <2>3. OnTheWay => OnTheWay'
    BY <2>1, <2>2 DEF OnTheWay
  <2>4. \A Q : SeenBefore(Q) => SeenBefore(Q)'
    BY <2>1 DEF SeenBefore, Owed
  <2>5. SeenBefore(Now) => SeenBefore(Now)'
    BY <2>1, <2>2 DEF SeenBefore, Owed
  <2>6. Halfway => Halfway'
    <3>1. \A g : L!Found(walk.ask, g, walk.offset)' = L!Found(walk.ask, g, walk.offset)
      BY <2>1 DEF L!Found, L!Matching
    <3>2. ParsedIn(walk.ask, walk.found)' = ParsedIn(walk.ask, walk.found)
      BY <2>1 DEF ParsedIn
    <3>3. SeenBefore(ParsedIn(walk.ask, walk.found)) => SeenBefore(ParsedIn(walk.ask, walk.found))'
      BY <2>1, <3>2 DEF SeenBefore, Owed
    <3> QED
      BY <2>1, <2>2, <2>4, <3>1, <3>3 DEF Halfway
  <2>7. WalkHolds'
    BY <2>1, <2>2, <2>3, <2>5, <2>6 DEF WalkHolds, ListsInv, Owed
  <2> QED
    BY <2>2, <2>7 DEF ListsInv
<1> QED
  BY <1>1, <1>2, <1>3, <1>4, <1>5 DEF L!Next

\* It holds what the property says.
LEMMA ListsMissNothing == ListsInv => L!NothingMissed
<1> SUFFICES ASSUME ListsInv, walk.pc = "done", walk.ask.limit >= 1, walk.ask.door.next # "none"
             PROVE  /\ ~ left => Owed \subseteq L!Members(walk.seen)
                    /\ writes = 0 /\ Strict(walk.ask) => walk.seen = Line(walk.ask, Now)
  BY DEF L!NothingMissed, Owed, Strict, Line, Now
<1>1. writes = 0 => ~ left
  BY DEF ListsInv, WalkTypes
<1>2. ~ left => Owed \subseteq L!Members(walk.seen) /\ (writes = 0 /\ Strict(walk.ask) => walk.seen = Line(walk.ask, Now))
  BY DEF ListsInv, WalkHolds, Promises
<1> QED
  BY <1>1, <1>2

----------------------------------------------------------------------------
(* The parts side by side.                                                      *)

\* A behaviour stays with its part and takes the steps of that part.
LEMMA FocusSteps ==
  ASSUME [ServerNext]_all
  PROVE  /\ focus' = focus
         /\ focus = "queue" => [FaultyNext]_vars
         /\ focus # "queue" => runs' = runs
         /\ focus = "lists" => [L!Next]_(L!vars)
         /\ focus = "content" => [C!Next]_(C!vars)
         /\ focus = "search" => [S!Next]_(S!vars)
         /\ focus = "doors" => [D!Next]_(D!vars)
         /\ focus = "jobs" => [J!Next]_(J!vars)
<1>1. CASE UNCHANGED all
  BY <1>1 DEF all, vars, onlyL, onlyC, onlyS, onlyD, onlyJ, inSD,
              L!vars, C!vars, C!stored, S!vars, D!vars, J!vars
<1>2. CASE ServerNext
  BY <1>2 DEF ServerNext, vars
<1> QED
  BY <1>1, <1>2

\* RunAtMostOnce of the run Server: no handler is started twice for a job, by any
\* number of processes, whatever crashes or fails.
THEOREM OneRunHolds == ServerSpec => []RunAtMostOnce
<1> DEFINE Inv == /\ focus = "queue" => ClaimInv
                  /\ focus # "queue" => runs = [j \in Jobs |-> 0]
<1>1. ServerInit => Inv
  BY ClaimsBegin DEF ServerInit, OffQ
<1>2. Inv /\ [ServerNext]_all => Inv'
  <2> SUFFICES ASSUME Inv, [ServerNext]_all PROVE Inv'
    OBVIOUS
  <2>1. CASE focus = "queue"
    <3>1. ClaimInv /\ [FaultyNext]_vars /\ focus' = "queue"
      BY <2>1, FocusSteps
    <3>2. ClaimInv'
      BY <3>1, TypeKept, ClaimsKept DEF ClaimInv
    <3> QED
      BY <3>1, <3>2
  <2>2. CASE focus # "queue"
    BY <2>2, FocusSteps
  <2> QED
    BY <2>1, <2>2
<1>3. Inv => RunAtMostOnce
  BY DEF ClaimInv, RunAtMostOnce
<1> QED
  BY <1>1, <1>2, <1>3, PTL DEF ServerSpec

\* HonestVerdict of the run Server: a job that SUCCEEDED was not cancelled and has
\* treated what it chose, for every set of jobs and every order of the event loop.
THEOREM HonestVerdictHolds == ServerSpec => []HonestVerdict
<1> DEFINE Inv == focus = "jobs" => JobsInv
<1>1. ServerInit => Inv
  BY JobsBegin DEF ServerInit
<1>2. Inv /\ [ServerNext]_all => Inv'
  BY JobsKept, FocusSteps
<1>3. Inv => HonestVerdict
  BY JobsHonest DEF HonestVerdict
<1> QED
  BY <1>1, <1>2, <1>3, PTL DEF ServerSpec

\* AnswerIsWhole of the run Server: content that is called complete is all there is,
\* of the URL asked for and of one extraction, for any paths, versions and changes.
THEOREM AnswerIsWholeHolds == ServerSpec => []AnswerIsWhole
<1> DEFINE Inv == focus = "content" => ContentInv
<1>1. ServerInit => Inv
  BY ContentBegins DEF ServerInit
<1>2. Inv /\ [ServerNext]_all => Inv'
  BY ContentKept, FocusSteps
<1>3. Inv => AnswerIsWhole
  BY ContentWhole DEF AnswerIsWhole
<1> QED
  BY <1>1, <1>2, <1>3, PTL DEF ServerSpec

\* SearchAnswers of the run Server: no search falls short of the nearest chunks that
\* pass its filters, for every reach of the index and every number of results, and none
\* by text is refused for the sake of the endpoint.
THEOREM SearchAnswersHolds == ServerSpec => SearchAnswers
<1> DEFINE Inv == focus = "search" => SearchInv
<1>1. ServerInit => Inv
  BY SearchBegins DEF ServerInit
<1>2. Inv /\ [ServerNext]_all => Inv'
  BY SearchKept, FocusSteps
<1>3. Inv /\ [ServerNext]_all => [focus = "search" => ~ S!FallsShort]_all
  BY SearchAnswersStep, FocusSteps
<1> QED
  BY <1>1, <1>2, <1>3, PTL DEF ServerSpec, SearchAnswers

\* DoorsAgree of the run Server: an error of the site or of a tool is one that the other
\* would have given at some instant of the request, if at most one fact changed
\* meanwhile; a TDoc asked for by its URL needs no such condition.
THEOREM DoorsAgreeHolds == ServerSpec => []DoorsAgree
<1> DEFINE Inv == focus = "doors" => DoorsInv
<1>1. ServerInit => Inv
  BY DoorsBegin DEF ServerInit
<1>2. Inv /\ [ServerNext]_all => Inv'
  BY DoorsKept, FocusSteps
<1>3. Inv => DoorsAgree
  BY DoorsSame DEF DoorsAgree
<1> QED
  BY <1>1, <1>2, <1>3, PTL DEF ServerSpec

\* NothingMissed of the run Server: who follows the pages of a list to their end has
\* seen every row that was there all along, for every number of rows, writes and
\* every size of a page.
THEOREM NothingMissedHolds == ServerSpec => []NothingMissed
<1> DEFINE Inv == focus = "lists" => ListsInv
<1>1. ServerInit => Inv
  BY ListsBegin DEF ServerInit
<1>2. Inv /\ [ServerNext]_all => Inv'
  BY ListsKept, FocusSteps
<1>3. Inv => NothingMissed
  BY ListsMissNothing DEF NothingMissed
<1> QED
  BY <1>1, <1>2, <1>3, PTL DEF ServerSpec
=============================================================================
