-------------------------- MODULE ConvertPoolProofs ---------------------------
(***************************************************************************)
(* Executors are retired exactly once, none is shut down while healthy     *)
(* except by close, and no member is handed to an executor that was shut   *)
(* down or is known to be broken: for any callers, members and workers.    *)
(***************************************************************************)
EXTENDS ConvertPool, TLAPS

\* Executors are numbered as they are made; every name in use is one of them.
Numbered ==
  /\ attached # None => attached <= made
  /\ broken \subseteq 1 .. made
  /\ shut \subseteq 1 .. made
  /\ \A x \in Members : owner[x] # None => owner[x] <= made
  /\ \A a \in Actors : retiring[a] # None => retiring[a] <= made
  /\ \A a \in Actors : pc[a] = "detached" => retiring[a] # None

\* A caller has only broken executors to shut down.
BrokenInHand == \A c \in Callers : pc[c] = "detached" => retiring[c] \in broken

\* The error of a member is its executor's, and once it is told the executor is
\* no longer attached; a member whose outcome is not taken has none.
Told ==
  /\ \A x \in Members : future[x] = "broken" => owner[x] \in broken
  /\ \A x \in Members : outcome[x] = "pool" => owner[x] # None /\ owner[x] # attached
  /\ \A x \in Members : outcome[x] # "none" => x[2] <= taken[x[1]]

IInv == TypeOK /\ Numbered /\ RetiredOnce /\ BrokenInHand /\ Told

\* A position within a call is a member, and a member is such a position.
LEMMA MemberParts ==
  /\ \A c \in Callers, i \in Nat : i >= 1 /\ i <= Count[c] => <<c, i>> \in Members
  /\ \A x \in Members : x = <<x[1], x[2]>> /\ x[1] \in Callers /\ x[2] \in 1 .. Count[x[1]]
  BY CountNat DEF Members

\* The next member that a caller submits, or takes the outcome of, is one.
LEMMA NextMember ==
  ASSUME TypeOK, NEW c \in Callers
  PROVE  /\ ~ Filled(c) => <<c, submitted[c] + 1>> \in Members
         /\ Outstanding(c) > 0 => <<c, taken[c] + 1>> \in Members
<1>1. /\ submitted[c] \in Nat /\ taken[c] \in Nat /\ Count[c] \in Nat
      /\ taken[c] <= submitted[c] /\ submitted[c] <= Count[c]
  BY CountNat DEF TypeOK
<1>2. ~ Filled(c) => submitted[c] + 1 <= Count[c]
  BY <1>1 DEF Filled
<1>3. Outstanding(c) > 0 => taken[c] + 1 <= Count[c]
  BY <1>1 DEF Outstanding
<1>4. \A i \in Nat : i >= 1 /\ i <= Count[c] => <<c, i>> \in Members
  BY MemberParts
<1>5. submitted[c] + 1 \in Nat /\ submitted[c] + 1 >= 1 /\ taken[c] + 1 \in Nat /\ taken[c] + 1 >= 1
  BY <1>1
<1> QED BY <1>2, <1>3, <1>4, <1>5

\* The pool starts with no executor.
LEMMA Initially == Init => IInv
<1> SUFFICES ASSUME Init PROVE IInv
  OBVIOUS
<1>1. \A c \in Callers : Count[c] \in Nat
  BY CountNat
<1>2. TypeOK
  BY <1>1 DEF Init, TypeOK
<1>3. Numbered /\ BrokenInHand /\ Told
  BY DEF Init, Numbered, BrokenInHand, Told, Actors
<1>4. RetiredOnce
  BY DEF Init, RetiredOnce
<1> QED BY <1>2, <1>3, <1>4 DEF IInv

-----------------------------------------------------------------------------
\* Detaching the attached executor hands it to one thread, which had none.
LEMMA DetachKeeps ==
  ASSUME IInv, NEW a \in Actors, NEW e, attached = e, attached # None,
         pc[a] \notin {"detached"}, Detached(a, e),
         a \in Callers => e \in broken,
         UNCHANGED <<made, broken, shut>>
  PROVE  /\ attached' = None
         /\ pc' \in [Actors -> {"idle", "running", "detached", "joining", "done", "raised"}]
         /\ retiring' \in [Actors -> Executors \cup {None}]
         /\ \A b \in Actors : retiring'[b] # None => retiring'[b] <= made
         /\ \A b \in Actors : pc'[b] = "detached" => retiring'[b] # None
         /\ RetiredOnce'
         /\ BrokenInHand'
<1>1. attached \in 1 .. made /\ made \in Nat
  BY DEF IInv, TypeOK, Numbered, Executors
<1>2. \A b \in Actors : b # a => pc'[b] = pc[b] /\ retiring'[b] = retiring[b]
  BY DEF Detached, IInv, TypeOK
<1>3. pc'[a] = "detached" /\ retiring'[a] = e
  BY DEF Detached, IInv, TypeOK
<1>4. RetiredOnce'
  <2> SUFFICES ASSUME NEW f \in 1 .. made
               PROVE  /\ attached' = f => f \notin shut /\ \A b \in Actors : ~ Holds(b, f)'
                      /\ f \in shut => \A b \in Actors : ~ Holds(b, f)'
                      /\ \A b, d \in Actors : Holds(b, f)' /\ Holds(d, f)' => b = d
                      /\ attached' = f \/ f \in shut \/ \E b \in Actors : Holds(b, f)'
    BY DEF RetiredOnce, Holds
  <2>1. attached' # f
    BY <1>1, NoneApart DEF Detached
  <2>2. CASE f = e
    BY <1>1, <1>2, <1>3, <2>1, <2>2 DEF IInv, RetiredOnce, Holds
  <2>3. CASE f # e
    BY <1>1, <1>2, <1>3, <2>1, <2>3 DEF IInv, RetiredOnce, Holds
  <2> QED BY <2>2, <2>3
<1>5. BrokenInHand'
  BY <1>2, <1>3, CloserApart DEF BrokenInHand, IInv, Actors
<1> QED
  BY <1>1, <1>2, <1>3, <1>4, <1>5 DEF Detached, IInv, TypeOK, Numbered, Executors

-----------------------------------------------------------------------------
\* Submission, the only step that makes an executor.
LEMMA SubmitKeeps == ASSUME IInv, NEW c \in Callers, Submit(c) PROVE IInv'
<1> DEFINE e == IF attached = None THEN made + 1 ELSE attached
           x == <<c, submitted[c] + 1>>
<1>1. x \in Members /\ c \in Actors
  BY NextMember DEF IInv, Submit, Actors
<1>2. /\ e \in Executors /\ e <= made'
      /\ made \in Nat /\ made' \in Nat /\ made <= made'
      /\ 1 .. made \subseteq 1 .. made'
  BY DEF IInv, TypeOK, Numbered, Submit, Executors
<1>3. e \notin shut
  BY NoneApart DEF IInv, TypeOK, Numbered, RetiredOnce, Executors
<1>4. /\ submitted' \in [Callers -> Nat]
      /\ \A d \in Callers : taken'[d] <= submitted'[d] /\ submitted'[d] <= Count[d]
  <2>1. /\ submitted[c] \in Nat /\ Count[c] \in Nat
        /\ submitted[c] <= Count[c] /\ submitted[c] # Count[c]
    BY CountNat DEF IInv, TypeOK, Submit, Filled
  <2>2. /\ submitted'[c] = submitted[c] + 1
        /\ \A d \in Callers : d # c => submitted'[d] = submitted[d]
        /\ submitted' \in [Callers -> Nat]
        /\ taken' = taken
    BY <2>1 DEF IInv, TypeOK, Submit
  <2>3. \A d \in Callers : taken[d] \in Nat /\ taken[d] <= submitted[d] /\ submitted[d] <= Count[d]
    BY DEF IInv, TypeOK
  <2> QED BY <2>1, <2>2, <2>3
<1>5. /\ owner' \in [Members -> Executors \cup {None}]
      /\ owner'[x] = e
      /\ \A y \in Members : y # x => owner'[y] = owner[y]
  BY <1>1, <1>2 DEF IInv, TypeOK, Submit
<1>6. outcome[x] = "none"
  BY <1>1, MemberParts DEF IInv, Told, TypeOK
<1>7. /\ \A y \in Members : owner'[y] # None => owner'[y] <= made'
      /\ broken' \subseteq 1 .. made' /\ shut' \subseteq 1 .. made'
  BY <1>1, <1>2, <1>5 DEF IInv, TypeOK, Numbered, Submit, Executors
<1>8. CASE e \in broken /\ Rejected(x) /\ Retire(c, e)
  <2>1. attached = e /\ attached # None /\ made' = made
    BY <1>8 DEF IInv, TypeOK, Numbered, Submit
  <2>2. Detached(c, e)
    BY <1>8, <2>1 DEF Retire
  <2>3. /\ attached' = None
        /\ pc' \in [Actors -> {"idle", "running", "detached", "joining", "done", "raised"}]
        /\ retiring' \in [Actors -> Executors \cup {None}]
        /\ \A b \in Actors : retiring'[b] # None => retiring'[b] <= made
        /\ \A b \in Actors : pc'[b] = "detached" => retiring'[b] # None
        /\ RetiredOnce'
        /\ BrokenInHand'
    BY <1>1, <1>8, <2>1, <2>2, DetachKeeps DEF Submit
  <2>4. /\ future' \in [Members -> {"none", "pending", "own", "broken"}]
        /\ future'[x] = "broken"
        /\ \A y \in Members : y # x => future'[y] = future[y]
    BY <1>1, <1>8 DEF IInv, TypeOK, Rejected
  <2>5. Told'
    BY <1>1, <1>2, <1>5, <1>6, <1>8, <2>3, <2>4, NoneApart DEF IInv, Told, Submit, Executors
  <2>6. TypeOK'
    BY <1>2, <1>4, <1>5, <2>3, <2>4 DEF IInv, TypeOK, Submit
  <2>7. Numbered'
    BY <1>7, <2>1, <2>3 DEF Numbered
  <2> QED BY <2>3, <2>5, <2>6, <2>7 DEF IInv
<1>9. CASE /\ e \notin broken /\ e \notin shut
           /\ future' = [future EXCEPT ![x] = "pending"]
           /\ attached' = e
           /\ UNCHANGED <<retiring, pc>>
  <2>1. /\ future' \in [Members -> {"none", "pending", "own", "broken"}]
        /\ future'[x] = "pending"
        /\ \A y \in Members : y # x => future'[y] = future[y]
    BY <1>1, <1>9 DEF IInv, TypeOK
  <2>2. Told'
    BY <1>1, <1>2, <1>5, <1>6, <1>9, <2>1, NoneApart
      DEF IInv, Told, TypeOK, Numbered, Submit, Executors
  <2>3. RetiredOnce'
    BY <1>2, <1>3, <1>9, NoneApart
      DEF IInv, RetiredOnce, TypeOK, Numbered, Submit, Holds, Executors, Actors
  <2>4. TypeOK'
    BY <1>2, <1>4, <1>5, <1>9, <2>1 DEF IInv, TypeOK, Submit
  <2>5. Numbered'
    BY <1>2, <1>7, <1>9 DEF IInv, Numbered, TypeOK, Executors
  <2>6. BrokenInHand'
    BY <1>9 DEF IInv, BrokenInHand, Submit
  <2> QED BY <2>2, <2>3, <2>4, <2>5, <2>6 DEF IInv
<1> QED BY <1>3, <1>8, <1>9 DEF Submit

\* Taking an outcome, and with an error the executor.
LEMMA TakeOutcomeKeeps == ASSUME IInv, NEW c \in Callers, TakeOutcome(c) PROVE IInv'
<1> DEFINE x == <<c, taken[c] + 1>>
<1>1. x \in Members /\ c \in Actors
  BY NextMember DEF IInv, TakeOutcome, Actors
<1>2. /\ taken' \in [Callers -> Nat] /\ taken'[c] = taken[c] + 1
      /\ \A d \in Callers : d # c => taken'[d] = taken[d]
      /\ \A d \in Callers : taken'[d] <= submitted'[d] /\ submitted'[d] <= Count[d]
  BY CountNat DEF IInv, TypeOK, TakeOutcome, Outstanding
<1>3. \A y \in Members : y # x => outcome'[y] = outcome[y]
  BY DEF IInv, TypeOK, TakeOutcome
<1>4. \A y \in Members : outcome'[y] # "none" => y[2] <= taken'[y[1]]
  BY <1>2, <1>3, MemberParts DEF IInv, TypeOK, Told
<1>5. outcome' \in [Members -> {"none", "own", "pool"}]
  BY DEF IInv, TypeOK, TakeOutcome
<1>6. CASE /\ future[x] = "own"
           /\ outcome' = [outcome EXCEPT ![x] = "own"]
           /\ UNCHANGED <<attached, retiring, pc>>
  <2>1. Told'
    BY <1>1, <1>3, <1>4, <1>6 DEF IInv, TypeOK, Told, TakeOutcome
  <2>2. TypeOK' /\ Numbered' /\ RetiredOnce' /\ BrokenInHand'
    BY <1>2, <1>5, <1>6
      DEF IInv, TypeOK, Numbered, RetiredOnce, BrokenInHand, Holds, TakeOutcome
  <2> QED BY <2>1, <2>2 DEF IInv
<1>7. CASE /\ future[x] = "broken"
           /\ outcome' = [outcome EXCEPT ![x] = "pool"]
           /\ Retire(c, owner[x])
  <2>1. owner[x] \in broken /\ owner[x] # None
    BY <1>1, <1>7, NoneApart DEF IInv, TypeOK, Told, Executors
  <2>2. CASE attached = owner[x]
    <3>1. Detached(c, owner[x])
      BY <1>7, <2>2 DEF Retire
    <3>2. /\ attached' = None
          /\ pc' \in [Actors -> {"idle", "running", "detached", "joining", "done", "raised"}]
          /\ retiring' \in [Actors -> Executors \cup {None}]
          /\ \A b \in Actors : retiring'[b] # None => retiring'[b] <= made
          /\ \A b \in Actors : pc'[b] = "detached" => retiring'[b] # None
          /\ RetiredOnce'
          /\ BrokenInHand'
      BY <1>1, <2>1, <2>2, <3>1, DetachKeeps DEF TakeOutcome
    <3>3. Told'
      BY <1>1, <1>3, <1>4, <1>7, <2>1, <3>2 DEF IInv, TypeOK, Told, TakeOutcome
    <3>4. TypeOK'
      BY <1>2, <1>5, <3>2 DEF IInv, TypeOK, TakeOutcome
    <3>5. Numbered'
      BY <3>2 DEF IInv, Numbered, TakeOutcome
    <3> QED BY <3>2, <3>3, <3>4, <3>5 DEF IInv
  <2>3. CASE attached # owner[x]
    <3>1. UNCHANGED <<attached, retiring, pc>>
      BY <1>7, <2>3 DEF Retire
    <3>2. Told'
      BY <1>1, <1>3, <1>4, <1>7, <2>1, <2>3, <3>1 DEF IInv, TypeOK, Told, TakeOutcome
    <3>3. TypeOK' /\ Numbered' /\ RetiredOnce' /\ BrokenInHand'
      BY <1>2, <1>5, <3>1
        DEF IInv, TypeOK, Numbered, RetiredOnce, BrokenInHand, Holds, TakeOutcome
    <3> QED BY <3>2, <3>3 DEF IInv
  <2> QED BY <2>2, <2>3
<1> QED BY <1>6, <1>7 DEF TakeOutcome

-----------------------------------------------------------------------------
\* Closing.
LEMMA CloseKeepsInv == ASSUME IInv, Close PROVE IInv'
<1>1. Closer \in Actors
  BY DEF Actors
<1>2. CASE attached = None
  BY <1>1, <1>2, CloserApart
    DEF Close, IInv, TypeOK, Numbered, RetiredOnce, BrokenInHand, Told, Holds, Actors
<1>3. CASE attached # None
  <2>1. Detached(Closer, attached)
    BY <1>3 DEF Close
  <2>2. /\ attached' = None
        /\ pc' \in [Actors -> {"idle", "running", "detached", "joining", "done", "raised"}]
        /\ retiring' \in [Actors -> Executors \cup {None}]
        /\ \A b \in Actors : retiring'[b] # None => retiring'[b] <= made
        /\ \A b \in Actors : pc'[b] = "detached" => retiring'[b] # None
        /\ RetiredOnce'
        /\ BrokenInHand'
    BY <1>1, <1>3, <2>1, CloserApart, DetachKeeps DEF Close
  <2>3. TypeOK' /\ Numbered' /\ Told'
    BY <2>2 DEF Close, IInv, TypeOK, Numbered, Told
  <2> QED BY <2>2, <2>3 DEF IInv
<1> QED BY <1>2, <1>3

\* The one holder of an executor shuts it down.
LEMMA ShutdownKeeps == ASSUME IInv, NEW a \in Actors, Shutdown(a) PROVE IInv'
<1>1. retiring[a] \in 1 .. made /\ made \in Nat
  BY DEF Shutdown, IInv, TypeOK, Numbered, Executors
<1>2. pc'[a] = "joining" /\ \A b \in Actors : b # a => pc'[b] = pc[b]
  BY DEF Shutdown, IInv, TypeOK
<1>3. RetiredOnce'
  <2> SUFFICES ASSUME NEW f \in 1 .. made
               PROVE  /\ attached = f => f \notin shut' /\ \A b \in Actors : ~ Holds(b, f)'
                      /\ f \in shut' => \A b \in Actors : ~ Holds(b, f)'
                      /\ \A b, d \in Actors : Holds(b, f)' /\ Holds(d, f)' => b = d
                      /\ attached = f \/ f \in shut' \/ \E b \in Actors : Holds(b, f)'
    BY DEF RetiredOnce, Holds, Shutdown
  <2>1. CASE f = retiring[a]
    BY <1>1, <1>2, <2>1 DEF IInv, RetiredOnce, Holds, Shutdown
  <2>2. CASE f # retiring[a]
    BY <1>1, <1>2, <2>2 DEF IInv, RetiredOnce, Holds, Shutdown
  <2> QED BY <2>1, <2>2
<1>4. TypeOK' /\ Numbered' /\ BrokenInHand' /\ Told'
  BY <1>1, <1>2 DEF Shutdown, IInv, TypeOK, Numbered, BrokenInHand, Told, Actors, Executors
<1> QED BY <1>3, <1>4 DEF IInv

\* A thread that has shut its executor down goes on.
LEMMA JoinedKeeps == ASSUME IInv, NEW a \in Actors, Joined(a) PROVE IInv'
<1>1. /\ pc'[a] \in {"done", "running"} /\ retiring'[a] = None
      /\ \A b \in Actors : b # a => pc'[b] = pc[b] /\ retiring'[b] = retiring[b]
  BY DEF Joined, IInv, TypeOK
<1>2. pc[a] = "joining"
  BY DEF Joined
<1>3. RetiredOnce'
  <2>1. \A b \in Actors, f \in 1 .. made : Holds(b, f)' <=> Holds(b, f)
    BY <1>1, <1>2 DEF Holds
  <2> QED BY <2>1 DEF RetiredOnce, IInv, Joined, Holds
<1>4. TypeOK' /\ Numbered' /\ BrokenInHand' /\ Told'
  BY <1>1 DEF Joined, IInv, TypeOK, Numbered, BrokenInHand, Told, Actors
<1> QED BY <1>3, <1>4 DEF IInv

\* The steps of the executor and the ends of a call.
LEMMA OthersKeep ==
  ASSUME IInv,
         \/ \E c \in Callers : Call(c) \/ Return(c)
         \/ \E x \in Members : Resolve(x)
         \/ \E e \in 1 .. made : Break(e)
  PROVE  IInv'
<1>1. ASSUME NEW c \in Callers, Call(c) \/ Return(c) PROVE IInv'
  <2>1. pc'[c] \in {"running", "done"} /\ pc[c] \in {"idle", "running"}
        /\ \A b \in Actors : b # c => pc'[b] = pc[b]
    BY <1>1 DEF Call, Return, IInv, TypeOK, Actors
  <2>2. \A b \in Actors, f \in 1 .. made : Holds(b, f)' <=> Holds(b, f)
    BY <1>1, <2>1 DEF Holds, Call, Return
  <2>3. RetiredOnce'
    BY <1>1, <2>2 DEF RetiredOnce, IInv, Call, Return, Holds
  <2>4. UNCHANGED <<attached, made, broken, shut, owner, future, outcome, submitted, taken,
                    retiring>>
    BY <1>1 DEF Call, Return
  <2>5. TypeOK'
    BY <1>1, <2>4 DEF Call, Return, IInv, TypeOK, Actors
  <2>6. Numbered' /\ BrokenInHand' /\ Told'
    BY <2>1, <2>4 DEF IInv, Numbered, BrokenInHand, Told, Actors
  <2> QED BY <2>3, <2>5, <2>6 DEF IInv
<1>2. ASSUME NEW x \in Members, Resolve(x) PROVE IInv'
  <2>1. Told'
    BY <1>2 DEF Resolve, Convert, Fail, IInv, TypeOK, Told
  <2>2. UNCHANGED <<attached, made, broken, shut, owner, outcome, submitted, taken, pc, retiring>>
    BY <1>2 DEF Resolve, Convert, Fail
  <2>3. TypeOK'
    BY <1>2, <2>2 DEF Resolve, Convert, Fail, IInv, TypeOK
  <2>4. Numbered' /\ BrokenInHand' /\ RetiredOnce'
    BY <2>2 DEF IInv, Numbered, BrokenInHand, RetiredOnce, Holds
  <2> QED BY <2>1, <2>3, <2>4 DEF IInv
<1>3. ASSUME NEW e \in 1 .. made, Break(e) PROVE IInv'
  BY <1>3 DEF Break, IInv, TypeOK, Numbered, BrokenInHand, RetiredOnce, Told, Holds, Executors
<1> QED BY <1>1, <1>2, <1>3

\* The invariant is inductive.
LEMMA Inductive == IInv /\ [Next]_vars => IInv'
<1> SUFFICES ASSUME IInv, [Next]_vars PROVE IInv'
  OBVIOUS
<1>1. ASSUME NEW c \in Callers, Run(c) PROVE IInv'
  BY <1>1, SubmitKeeps, TakeOutcomeKeeps, OthersKeep DEF Run
<1>2. ASSUME NEW a \in Actors, Teardown(a) PROVE IInv'
  BY <1>2, ShutdownKeeps, JoinedKeeps DEF Teardown
<1>3. CASE UNCHANGED vars
  BY <1>3 DEF vars, IInv, TypeOK, Numbered, BrokenInHand, RetiredOnce, Told, Holds
<1> QED BY <1>1, <1>2, <1>3, CloseKeepsInv, OthersKeep DEF Next

-----------------------------------------------------------------------------
\* The type invariant, over all callers, counts, workers and breaks.
THEOREM TypeCorrect == Spec => []TypeOK
  BY Initially, Inductive, PTL DEF Spec, IInv

\* Each executor is attached, shut down, or in the hands of the one thread that
\* will shut it down (_detach_locked).
THEOREM ExecutorsRetiredOnce == Spec => []RetiredOnce
  BY Initially, Inductive, PTL DEF Spec, IInv

\* No caller has its members rejected by an executor that was shut down.
THEOREM NobodyRejected == Spec => []NoneRejected
<1> DEFINE J == IInv /\ NoneRejected
<1>1. Init => J
  BY Initially DEF Init, NoneRejected, Actors
<1>2. J /\ [Next]_vars => J'
  <2> SUFFICES ASSUME IInv, NoneRejected, [Next]_vars PROVE NoneRejected'
    BY Inductive
  <2>1. ASSUME NEW c \in Callers, Submit(c) PROVE NoneRejected'
    <3>1. (IF attached = None THEN made + 1 ELSE attached) \notin shut
      BY NoneApart DEF IInv, TypeOK, Numbered, RetiredOnce, Executors
    <3> QED
      BY <2>1, <3>1 DEF Submit, Retire, Detached, NoneRejected, IInv, TypeOK, Actors
  <2>2. ASSUME NEW c \in Callers, Call(c) \/ TakeOutcome(c) \/ Return(c) PROVE NoneRejected'
    BY <2>2 DEF Call, TakeOutcome, Return, Retire, Detached, NoneRejected, IInv, TypeOK, Actors
  <2>3. ASSUME NEW a \in Actors, Teardown(a) PROVE NoneRejected'
    BY <2>3 DEF Teardown, Shutdown, Joined, NoneRejected, IInv, TypeOK, Actors
  <2>4. CASE Close
    BY <2>4, CloserApart DEF Close, Detached, NoneRejected, IInv, TypeOK, Actors
  <2>5. ASSUME NEW x \in Members, Resolve(x) PROVE NoneRejected'
    BY <2>5 DEF Resolve, Convert, Fail, NoneRejected
  <2>6. ASSUME NEW e \in 1 .. made, Break(e) PROVE NoneRejected'
    BY <2>6 DEF Break, NoneRejected
  <2>7. CASE UNCHANGED vars
    BY <2>7 DEF vars, NoneRejected
  <2> QED BY <2>1, <2>2, <2>3, <2>4, <2>5, <2>6, <2>7 DEF Next, Run
<1> QED BY <1>1, <1>2, PTL DEF Spec

\* Only close shuts down an executor that is not broken.
THEOREM HealthyExecutorsKept == Spec => HealthyKept
<1> DEFINE Kept == \A e \in shut' \ shut : e \in broken \/ Holds(Closer, e)
<1>1. IInv /\ [Next]_vars => [Kept]_vars
  <2> SUFFICES ASSUME IInv, Next PROVE Kept
    OBVIOUS
  <2>1. ASSUME NEW a \in Actors, Shutdown(a) PROVE Kept
    BY <2>1 DEF Shutdown, IInv, BrokenInHand, Holds, Actors
  <2>2. CASE shut' = shut
    BY <2>2
  <2>3. shut' = shut \/ \E a \in Actors : Shutdown(a)
    BY DEF Next, Call, Run, Submit, TakeOutcome, Return, Close, Teardown, Joined, Resolve,
           Convert, Fail, Break
  <2> QED BY <2>1, <2>2, <2>3
<1> QED BY <1>1, Initially, Inductive, PTL DEF Spec, HealthyKept

\* No member is handed to an executor that some caller knows to be broken.
THEOREM FreshExecutorAfterBreak == Spec => FreshAfterBreak
<1> DEFINE Fresh == \A x, y \in Members :
                      owner[x] = None /\ owner'[x] # None /\ outcome[y] = "pool"
                        => owner'[x] # owner[y]
<1>1. IInv /\ [Next]_vars => [Fresh]_vars
  <2> SUFFICES ASSUME IInv, Next PROVE Fresh
    OBVIOUS
  <2>1. ASSUME NEW c \in Callers, Submit(c) PROVE Fresh
    <3> DEFINE e == IF attached = None THEN made + 1 ELSE attached
    <3>1. \A y \in Members : outcome[y] = "pool" => owner[y] # e
      BY NoneApart DEF IInv, TypeOK, Numbered, Told, Executors
    <3>2. \A x \in Members : owner'[x] = owner[x] \/ owner'[x] = e
      BY <2>1 DEF Submit, IInv, TypeOK
    <3> QED BY <3>1, <3>2
  <2>2. owner' = owner \/ \E c \in Callers : Submit(c)
    BY DEF Next, Call, Run, TakeOutcome, Return, Close, Teardown, Shutdown, Joined, Resolve,
           Convert, Fail, Break
  <2> QED BY <2>1, <2>2
<1> QED BY <1>1, Initially, Inductive, PTL DEF Spec, FreshAfterBreak
=============================================================================
