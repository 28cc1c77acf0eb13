------------------------------ MODULE ConvertPool ------------------------------
(***************************************************************************)
(* The shared DOCX conversion pool (services/docx_convert_pool.py) with    *)
(* workers >= 2: threads hand members of their documents to one process    *)
(* pool; a dead worker process breaks the pool for all of them, and it is  *)
(* retired and replaced while they go on.                                  *)
(*                                                                         *)
(* A member is <<caller, position>>.  self._lock covers whole actions      *)
(* here.  The ProcessPoolExecutor is external: Convert, Break and Fail     *)
(* are what it may do.  workers <= 1 runs in the calling thread and shares *)
(* nothing.                                                                *)
(***************************************************************************)
EXTENDS Naturals, FiniteSets

CONSTANTS
  Callers,     \* threads in convert_members
  Closer,      \* the thread that closes the pool
  Count,       \* number of members of each call
  Workers,     \* self._workers
  MaxBreaks,   \* bound: workers that die
  None

ASSUME CountNat == Count \in [Callers -> Nat]
ASSUME WorkersPos == Workers \in Nat \ {0, 1}
ASSUME BreaksNat == MaxBreaks \in Nat
ASSUME CloserApart == Closer \notin Callers
ASSUME NoneApart == None \notin Nat

VARIABLES
  attached,    \* self._executor
  made,        \* executors made so far, numbered from 1
  broken,      \* executors one of whose workers died
  shut,        \* executors whose shutdown was called
  owner,       \* executor that each member was submitted to
  future,      \* future of each member
  outcome,     \* outcome of each member, as its caller gets it
  submitted,   \* members each caller took from its sequence
  taken,       \* members each caller has the outcome of
  pc,          \* place of every thread
  retiring     \* executor that a thread detached and has to shut down

vars == <<attached, made, broken, shut, owner, future, outcome, submitted, taken,
          pc, retiring>>

Actors == Callers \cup {Closer}
Members == UNION {{c} \X (1 .. Count[c]) : c \in Callers}
Executors == Nat \ {0}

TypeOK ==
  /\ attached \in Executors \cup {None}
  /\ made \in Nat
  /\ broken \in SUBSET Executors
  /\ shut \in SUBSET Executors
  /\ owner \in [Members -> Executors \cup {None}]
  /\ future \in [Members -> {"none", "pending", "own", "broken"}]
  /\ outcome \in [Members -> {"none", "own", "pool"}]
  /\ submitted \in [Callers -> Nat]
  /\ taken \in [Callers -> Nat]
  /\ \A c \in Callers : taken[c] <= submitted[c] /\ submitted[c] <= Count[c]
  /\ pc \in [Actors -> {"idle", "running", "detached", "joining", "done", "raised"}]
  /\ retiring \in [Actors -> Executors \cup {None}]

Init ==
  /\ attached = None
  /\ made = 0
  /\ broken = {} /\ shut = {}
  /\ owner = [x \in Members |-> None]
  /\ future = [x \in Members |-> "none"]
  /\ outcome = [x \in Members |-> "none"]
  /\ submitted = [c \in Callers |-> 0]
  /\ taken = [c \in Callers |-> 0]
  /\ pc = [a \in Actors |-> "idle"]
  /\ retiring = [a \in Actors |-> None]

-----------------------------------------------------------------------------
\* convert_members.

Window == 2 * Workers
Outstanding(c) == submitted[c] - taken[c]

\* islice(queued, window - len(outstanding)) has nothing more to give.
Filled(c) == submitted[c] = Count[c] \/ Outstanding(c) = Window

Call(c) ==
  /\ pc[c] = "idle"
  /\ pc' = [pc EXCEPT ![c] = "running"]
  /\ UNCHANGED <<attached, made, broken, shut, owner, future, outcome, submitted, taken,
                 retiring>>

\* a leaves the lock with executor e detached and its own to shut down.
Detached(a, e) ==
  /\ attached' = None
  /\ retiring' = [retiring EXCEPT ![a] = e]
  /\ pc' = [pc EXCEPT ![a] = "detached"]

\* Mutant: the error is reported and the executor stays.
RetireNever(a, e) == UNCHANGED <<attached, retiring, pc>>

\* Mutant: an executor that is no longer attached is shut down again.
RetireAgain(a, e) ==
  /\ attached' = IF attached = e THEN None ELSE attached
  /\ retiring' = [retiring EXCEPT ![a] = e]
  /\ pc' = [pc EXCEPT ![a] = "detached"]

\* _detach_locked, with what its caller does when it returns True.
Retire(a, e) == IF attached = e THEN Detached(a, e)
                                ELSE UNCHANGED <<attached, retiring, pc>>

\* Mutant: the future that stands for a rejected submission is never completed.
RejectedUnset(x) == future' = [future EXCEPT ![x] = "none"]

Rejected(x) == future' = [future EXCEPT ![x] = "broken"]

\* _submit under self._lock: the executor, a fresh one if none is attached,
\* takes the next member, unless it is broken; BrokenProcessPool is tested before
\* the shutdown flag, which would raise RuntimeError out of the call.
Submit(c) ==
  LET e == IF attached = None THEN made + 1 ELSE attached
      x == <<c, submitted[c] + 1>>
  IN  /\ pc[c] = "running" /\ ~ Filled(c)
      /\ submitted' = [submitted EXCEPT ![c] = @ + 1]
      /\ owner' = [owner EXCEPT ![x] = e]
      /\ made' = IF attached = None THEN made + 1 ELSE made
      /\ \/ /\ e \in broken
            /\ Rejected(x)
            /\ Retire(c, e)
         \/ /\ e \notin broken /\ e \in shut
            /\ pc' = [pc EXCEPT ![c] = "raised"]
            /\ UNCHANGED <<attached, retiring, future>>
         \/ /\ e \notin broken /\ e \notin shut
            /\ future' = [future EXCEPT ![x] = "pending"]
            /\ attached' = e
            /\ UNCHANGED <<retiring, pc>>
      /\ UNCHANGED <<broken, shut, outcome, taken>>

\* _outcome of the oldest outstanding member.
TakeOutcome(c) ==
  LET x == <<c, taken[c] + 1>>
  IN  /\ pc[c] = "running" /\ Filled(c)
      /\ Outstanding(c) > 0
      /\ taken' = [taken EXCEPT ![c] = @ + 1]
      /\ \/ /\ future[x] = "own"
            /\ outcome' = [outcome EXCEPT ![x] = "own"]
            /\ UNCHANGED <<attached, retiring, pc>>
         \/ /\ future[x] = "broken"
            /\ outcome' = [outcome EXCEPT ![x] = "pool"]
            /\ Retire(c, owner[x])
      /\ UNCHANGED <<made, broken, shut, owner, future, submitted>>

Return(c) ==
  /\ pc[c] = "running" /\ Filled(c)
  /\ Outstanding(c) = 0
  /\ pc' = [pc EXCEPT ![c] = "done"]
  /\ UNCHANGED <<attached, made, broken, shut, owner, future, outcome, submitted, taken,
                 retiring>>

-----------------------------------------------------------------------------
\* close, and the shutdown that close and the retiring callers share.

Close ==
  /\ pc[Closer] = "idle"
  /\ IF attached = None
     THEN pc' = [pc EXCEPT ![Closer] = "done"] /\ UNCHANGED <<attached, retiring>>
     ELSE Detached(Closer, attached)
  /\ UNCHANGED <<made, broken, shut, owner, future, outcome, submitted, taken>>

\* executor.shutdown, outside self._lock, ...
Shutdown(a) ==
  /\ pc[a] = "detached"
  /\ shut' = shut \cup {retiring[a]}
  /\ pc' = [pc EXCEPT ![a] = "joining"]
  /\ UNCHANGED <<attached, made, broken, owner, future, outcome, submitted, taken, retiring>>

PendingOn(e) == {x \in Members : owner[x] = e /\ future[x] = "pending"}

\* ... with wait=True: it returns when no submitted member is left.
Joined(a) ==
  /\ pc[a] = "joining"
  /\ PendingOn(retiring[a]) = {}
  /\ pc' = [pc EXCEPT ![a] = IF a = Closer THEN "done" ELSE "running"]
  /\ retiring' = [retiring EXCEPT ![a] = None]
  /\ UNCHANGED <<attached, made, broken, shut, owner, future, outcome, submitted, taken>>

-----------------------------------------------------------------------------
\* ProcessPoolExecutor.

\* A worker converts a member, or the conversion raises: its own outcome.
Convert(x) ==
  /\ future[x] = "pending" /\ owner[x] \notin broken
  /\ future' = [future EXCEPT ![x] = "own"]
  /\ UNCHANGED <<attached, made, broken, shut, owner, outcome, submitted, taken, pc, retiring>>

\* A worker process dies: submissions fail from here on ...
Break(e) ==
  /\ Cardinality(broken) < MaxBreaks
  /\ e \notin broken
  /\ e \in shut => PendingOn(e) # {}
  /\ broken' = broken \cup {e}
  /\ UNCHANGED <<attached, made, shut, owner, future, outcome, submitted, taken, pc, retiring>>

\* ... and every pending member gets the error, one after the other.
Fail(x) ==
  /\ future[x] = "pending" /\ owner[x] \in broken
  /\ future' = [future EXCEPT ![x] = "broken"]
  /\ UNCHANGED <<attached, made, broken, shut, owner, outcome, submitted, taken, pc, retiring>>

-----------------------------------------------------------------------------
Run(c) == Submit(c) \/ TakeOutcome(c) \/ Return(c)
Teardown(a) == Shutdown(a) \/ Joined(a)
Resolve(x) == Convert(x) \/ Fail(x)

Next ==
  \/ \E c \in Callers : Call(c) \/ Run(c)
  \/ Close
  \/ \E a \in Actors : Teardown(a)
  \/ \E x \in Members : Resolve(x)
  \/ \E e \in 1 .. made : Break(e)

Spec == Init /\ [][Next]_vars

\* Threads run, and while a member is pending some worker gets one done; nobody
\* has to call or to close.
Fairness ==
  /\ \A c \in Callers : WF_vars(Run(c))
  /\ WF_vars(\E a \in Actors : Teardown(a))
  /\ WF_vars(\E x \in Members : Resolve(x))

FairSpec == Spec /\ Fairness

-----------------------------------------------------------------------------
\* Properties.

Holds(a, e) == pc[a] = "detached" /\ retiring[a] = e

\* No executor is lost or shut down twice: each one made is attached, or has been
\* shut down, or is in the hands of exactly one thread that will do it
\* (_detach_locked: "exactly one caller shuts it down").
RetiredOnce ==
  \A e \in 1 .. made :
    /\ attached = e => e \notin shut /\ \A a \in Actors : ~ Holds(a, e)
    /\ e \in shut => \A a \in Actors : ~ Holds(a, e)
    /\ \A a, b \in Actors : Holds(a, e) /\ Holds(b, e) => a = b
    /\ attached = e \/ e \in shut \/ \E a \in Actors : Holds(a, e)

\* A caller with an old error never takes down a healthy executor that others
\* have gone on to: only close shuts down what is not broken.
HealthyKept ==
  [][\A e \in shut' \ shut : e \in broken \/ Holds(Closer, e)]_vars

\* No submission meets an executor that was shut down, which would raise out of
\* convert_members and lose the outcomes already collected.
NoneRejected == \A c \in Callers : pc[c] # "raised"

\* "The next call starts a fresh executor": once any caller was told that an
\* executor broke, no member of any caller is handed to it.
FreshAfterBreak ==
  [][\A x, y \in Members :
       owner[x] = None /\ owner'[x] # None /\ outcome[y] = "pool"
         => owner'[x] # owner[y]]_vars

\* Every call returns an outcome for each of its members, whatever broke and
\* whenever the pool was closed.
CallsEnd ==
  \A c \in Callers :
    pc[c] = "running" ~> pc[c] = "done" /\ \A x \in Members : x[1] = c => outcome[x] # "none"
=============================================================================
