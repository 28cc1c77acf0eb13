------------------------------ MODULE Pipeline ------------------------------
(***************************************************************************)
(* The shared preparation/persistence pipeline: the capacity, permits and  *)
(* executors of PipelineRuntime (pipeline_runtime.py) and its three kinds  *)
(* of clients: the batches of TDocPipeline (tdoc_pipeline.py) that run on  *)
(* the event loop (run_async) or on a thread (run_sync), and the spec      *)
(* document handler (handlers.py), which takes one permit by hand.         *)
(*                                                                         *)
(* A batch handles each finished future in a step of its own; no step      *)
(* crosses an await or a wait.  Values, reasons and progress text are      *)
(* dropped, the pools start queued work in any order (the code promises no *)
(* commit order), and a timed poll is a step that is taken when it finds   *)
(* something to do.                                                        *)
(***************************************************************************)
EXTENDS Naturals, FiniteSets

CONSTANTS
  Batches,          \* concurrent users of the pipeline
  SyncBatches,      \* those that are run_sync calls
  DirectBatches,    \* those that are spec document jobs; the rest are run_async
  Size,             \* items of each batch
  MaxCalls,         \* bound: calls that are ever made
  PrepareWorkers,   \* threads of the preparation pool
  Limit             \* max_pending: capacity permits

ASSUME BatchKinds ==
  /\ IsFiniteSet(Batches)
  /\ SyncBatches \subseteq Batches
  /\ DirectBatches \subseteq Batches \ SyncBatches
ASSUME Sizes == Size \in [Batches -> Nat] /\ \A b \in DirectBatches : Size[b] = 1
ASSUME LimitPositive == Limit \in Nat \ {0}
ASSUME PrepareWorkersPositive == PrepareWorkers \in Nat \ {0}

ItemsOf(b) == {b} \X (1 .. Size[b])
Items == UNION {ItemsOf(b) : b \in Batches}

VARIABLES
  available,   \* _PipelineCapacity._available
  held,        \* items whose PipelinePermit is not released
  stage,       \* where each item is
  result,      \* how its last executor call ended
  outcome,     \* outcomes[index]
  committed,   \* items whose persist call committed
  next,        \* next_index of each batch
  reserve,     \* reserve_task of each batch, and its place among the waiters
  flag,        \* what is_cancelled() would answer
  cancelled,   \* cancellation is not None
  fatal,       \* fatal is not None
  pc,          \* state of the call
  down         \* "up", "prepare" or "all": which executors are shut down

vars == <<available, held, stage, result, outcome, committed, next, reserve,
          flag, cancelled, fatal, pc, down>>
permitVars == <<available, held, reserve>>
stopVars == <<cancelled, fatal>>

Pending == {"prepQueued", "preparing", "prepDone", "perQueued", "persisting", "perDone"}
Stage == {"source", "recorded", "dropped"} \cup Pending
Raised == {"failed", "cancelled", "fatal"}   \* Exception, CancelledError, other
PrepareResult == {"value", "complete"} \cup Raised
PersistResult == {"ok"} \cup Raised
Outcome == {"none", "success", "skipped", "failed"}
Ended == {"returned", "cancelled", "fatal"}

\* "waiting": registered in _async_waiters; "woken": its event is set;
\* "granted": reserve_task is done with a permit.
Unreserved == {"trying", "waiting", "woken"}
Reserve == {"none", "granted"} \cup Unreserved

TypeOK ==
  /\ available \in 0 .. Limit
  /\ held \in SUBSET Items
  /\ stage \in [Items -> Stage]
  /\ result \in [Items -> {"none"} \cup PrepareResult \cup PersistResult]
  /\ outcome \in [Items -> Outcome]
  /\ committed \in SUBSET Items
  /\ next \in [Batches -> Nat]
  /\ reserve \in [Batches -> Reserve]
  /\ flag \in [Batches -> BOOLEAN]
  /\ cancelled \in [Batches -> BOOLEAN]
  /\ fatal \in [Batches -> BOOLEAN]
  /\ pc \in [Batches -> {"idle", "running"} \cup Ended]
  /\ down \in {"up", "prepare", "all"}

Init ==
  /\ available = Limit
  /\ held = {}
  /\ stage = [x \in Items |-> "source"]
  /\ result = [x \in Items |-> "none"]
  /\ outcome = [x \in Items |-> "none"]
  /\ committed = {}
  /\ next = [b \in Batches |-> 0]
  /\ reserve = [b \in Batches |-> "none"]
  /\ flag = [b \in Batches |-> FALSE]
  /\ cancelled = [b \in Batches |-> FALSE]
  /\ fatal = [b \in Batches |-> FALSE]
  /\ pc = [b \in Batches |-> "idle"]
  /\ down = "up"

Runs(b) == pc[b] = "running" /\ b \notin DirectBatches
RunsDirect(b) == pc[b] = "running" /\ b \in DirectBatches
PendingOf(b) == {x \in ItemsOf(b) : stage[x] \in Pending}
Granted == {b \in Batches : reserve[b] = "granted"}
InStage(s) == {x \in Items : stage[x] = s}

-----------------------------------------------------------------------------
\* Capacity.

\* Mutant: release tells no async waiter, only the threads.
WakeNobody(r) == r

\* release wakes every async waiter on its loop.
Wake(r) == [b \in Batches |-> IF r[b] = "waiting" THEN "woken" ELSE r[b]]

\* PipelinePermit.release: at most once per permit.
Release(x) ==
  IF x \in held
  THEN /\ held' = held \ {x}
       /\ available' = available + 1
       /\ reserve' = Wake(reserve)
  ELSE UNCHANGED permitVars

-----------------------------------------------------------------------------
\* Cancellation and errors as the batch sees them.

Stopping(b) == cancelled[b] \/ fatal[b]

\* Stopping after check_cancelled, which reads is_cancelled().
StopSeen(b) == Stopping(b) \/ flag[b]
CheckCancelled(b) ==
  cancelled' = [cancelled EXCEPT ![b] = @ \/ (flag[b] /\ ~ fatal[b])]

\* emit: on_progress may raise or cancel; `checks`: check_cancelled follows.
Emit(b, checks) ==
  \E callback \in {"returns", "raises", "cancels"} :
    /\ fatal' = [fatal EXCEPT ![b] = @ \/ callback = "raises"]
    /\ cancelled' = [cancelled EXCEPT ![b] =
         @ \/ callback = "cancels" \/ (checks /\ flag[b] /\ ~ fatal'[b])]

\* record: the outcome of the item.
Record(x, out) ==
  /\ stage' = [stage EXCEPT ![x] = "recorded"]
  /\ outcome' = [outcome EXCEPT ![x] = out]

Drop(x) ==
  /\ stage' = [stage EXCEPT ![x] = "dropped"]
  /\ UNCHANGED outcome

-----------------------------------------------------------------------------
\* Reservations.

\* One turn of acquire_async under the capacity lock: take a slot or register
\* as a waiter.
Acquire(b) ==
  /\ reserve[b] \in {"trying", "woken"}
  /\ \/ /\ available > 0
        /\ available' = available - 1
        /\ reserve' = [reserve EXCEPT ![b] = "granted"]
     \/ /\ available = 0
        /\ reserve' = [reserve EXCEPT ![b] = "waiting"]
        /\ UNCHANGED available
  /\ UNCHANGED <<held, stage, result, outcome, committed, next, flag, stopVars, pc, down>>

\* submit_prepare of the next item with a permit in hand; `free` slots are
\* left.  A pool that is shut down rejects it: the permit goes back and the item
\* fails.
Submit(b, free, waiters) ==
  LET x == <<b, next[b] + 1>>
      accepted == down = "up"
  IN  /\ next' = [next EXCEPT ![b] = @ + 1]
      /\ IF accepted
         THEN /\ stage' = [stage EXCEPT ![x] = "prepQueued"]
              /\ held' = held \cup {x}
              /\ available' = free
              /\ reserve' = waiters
              /\ UNCHANGED outcome
         ELSE /\ Record(x, "failed")
              /\ available' = free + 1
              /\ reserve' = Wake(waiters)
              /\ UNCHANGED held

-----------------------------------------------------------------------------
\* The loop of run_async and run_sync.

\* A call begins; the spec document handler goes straight for a permit.  The
\* runtime goes down when the worker loop has ended, so that nobody calls later.
Start(b) ==
  /\ pc[b] = "idle" /\ down = "up"
  /\ Cardinality({c \in Batches : pc[c] # "idle"}) < MaxCalls
  /\ pc' = [pc EXCEPT ![b] = IF Size[b] = 0 THEN "returned" ELSE "running"]
  /\ reserve' = IF b \in DirectBatches THEN [reserve EXCEPT ![b] = "trying"] ELSE reserve
  /\ UNCHANGED <<available, held, stage, result, outcome, committed, next, flag,
                 stopVars, down>>

\* The job's cancel event is set: a cancel request or the server's shutdown.
RequestCancel(b) ==
  /\ pc[b] = "running" /\ ~ flag[b]
  /\ flag' = [flag EXCEPT ![b] = TRUE]
  /\ UNCHANGED <<permitVars, stage, result, outcome, committed, next, stopVars,
                 pc, down>>

\* The top of the loop, or a poll of a wait, notices the stop and cancels a
\* reservation that is not granted.  The cancelled reserve_task then reads as a
\* cancellation, also when the batch stops for a fatal error.
NoticeStop(b) ==
  /\ Runs(b)
  /\ StopSeen(b)
  /\ LET waits == reserve[b] \in Unreserved
     IN  /\ waits \/ ~ Stopping(b)
         /\ reserve' = [reserve EXCEPT ![b] = IF waits THEN "none" ELSE @]
         /\ cancelled' = [cancelled EXCEPT ![b] = @ \/ waits \/ ~ fatal[b]]
  /\ UNCHANGED <<available, held, stage, result, outcome, committed, next, flag,
                 fatal, pc, down>>

\* run_async creates reserve_task.
StartReserve(b) ==
  /\ Runs(b) /\ b \notin SyncBatches
  /\ reserve[b] = "none" /\ next[b] < Size[b] /\ ~ StopSeen(b)
  /\ reserve' = [reserve EXCEPT ![b] = "trying"]
  /\ UNCHANGED <<available, held, stage, result, outcome, committed, next, flag,
                 stopVars, pc, down>>

\* Mutant: the granted permit is used without a look at the cancellation.
TakePermitBlindly(b) ==
  /\ Runs(b) /\ reserve[b] = "granted"
  /\ next[b] < Size[b]
  /\ Submit(b, available, [reserve EXCEPT ![b] = "none"])
  /\ UNCHANGED <<result, committed, flag, stopVars, pc, down>>

\* Mutant: a stopping batch drops the granted permit instead of giving it back.
TakePermitLost(b) ==
  /\ Runs(b) /\ reserve[b] = "granted"
  /\ \/ /\ StopSeen(b)
        /\ CheckCancelled(b)
        /\ reserve' = [reserve EXCEPT ![b] = "none"]
        /\ UNCHANGED <<available, held, stage, outcome, next, fatal>>
     \/ /\ ~ StopSeen(b)
        /\ Submit(b, available, [reserve EXCEPT ![b] = "none"])
        /\ IF down = "up" THEN UNCHANGED stopVars ELSE Emit(b, FALSE)
  /\ UNCHANGED <<result, committed, flag, pc, down>>

\* The loop takes the permit of its finished reserve_task: submit, or give it
\* back when the batch is stopping.
TakePermit(b) ==
  /\ Runs(b) /\ reserve[b] = "granted"
  /\ \/ /\ StopSeen(b)
        /\ CheckCancelled(b)
        /\ available' = available + 1
        /\ reserve' = Wake([reserve EXCEPT ![b] = "none"])
        /\ UNCHANGED <<held, stage, outcome, next, fatal>>
     \/ /\ ~ StopSeen(b)
        /\ Submit(b, available, [reserve EXCEPT ![b] = "none"])
        /\ IF down = "up" THEN UNCHANGED stopVars ELSE Emit(b, FALSE)
  /\ UNCHANGED <<result, committed, flag, pc, down>>

\* run_sync polls try_reserve and submits at once.
TryReserve(b) ==
  /\ Runs(b) /\ b \in SyncBatches
  /\ next[b] < Size[b] /\ ~ StopSeen(b)
  /\ available > 0
  /\ Submit(b, available - 1, reserve)
  /\ IF down = "up" THEN UNCHANGED stopVars ELSE Emit(b, FALSE)
  /\ UNCHANGED <<result, committed, flag, pc, down>>

\* record_exception: the permit goes back whatever was raised.
RecordException(b, x) ==
  /\ Release(x)
  /\ \/ /\ result[x] = "cancelled"
        /\ Drop(x)
        /\ cancelled' = [cancelled EXCEPT ![b] = TRUE]
        /\ UNCHANGED fatal
     \/ /\ result[x] = "fatal"
        /\ Drop(x)
        /\ fatal' = [fatal EXCEPT ![b] = TRUE]
        /\ UNCHANGED cancelled
     \/ /\ result[x] = "failed"
        /\ \E out \in {"skipped", "failed"} : Record(x, out)
        /\ Emit(b, FALSE)

\* submit_persist with the permit that preparation held.
HandOver(x) ==
  /\ stage' = [stage EXCEPT ![x] = "perQueued"]
  /\ UNCHANGED <<permitVars, outcome, stopVars>>

\* A prepared result that arrives in a stopping batch.
Discard(b, x) ==
  /\ StopSeen(b)
  /\ CheckCancelled(b)
  /\ Release(x)
  /\ Drop(x)
  /\ UNCHANGED fatal

\* process_preparation: discard, record a complete result, or hand the value
\* to the writer.
ProcessPrepared(b, x) ==
  /\ Runs(b) /\ stage[x] = "prepDone"
  /\ \/ RecordException(b, x)
     \/ /\ result[x] \in {"value", "complete"}
        /\ Discard(b, x)
     \/ /\ ~ StopSeen(b) /\ result[x] = "complete"
        /\ Release(x)
        /\ Record(x, "success")
        /\ Emit(b, FALSE)
     \/ /\ ~ StopSeen(b) /\ result[x] = "value"
        /\ IF down # "all"
           THEN HandOver(x)
           ELSE Release(x) /\ Record(x, "failed") /\ Emit(b, FALSE)
  /\ UNCHANGED <<result, committed, next, flag, pc, down>>

\* Mutant: a batch that is stopping no longer reports what was written.
ProcessPersistedDiscards(b, x) ==
  /\ Runs(b) /\ stage[x] = "perDone"
  /\ \/ RecordException(b, x)
     \/ /\ result[x] = "ok" /\ ~ StopSeen(b)
        /\ Release(x)
        /\ Record(x, "success")
        /\ Emit(b, TRUE)
     \/ /\ result[x] = "ok"
        /\ Discard(b, x)
  /\ UNCHANGED <<result, committed, next, flag, pc, down>>

\* process_future of a persist call: a write that was submitted is recorded,
\* cancelled or not.
ProcessPersisted(b, x) ==
  /\ Runs(b) /\ stage[x] = "perDone"
  /\ \/ RecordException(b, x)
     \/ /\ result[x] = "ok"
        /\ Release(x)
        /\ Record(x, "success")
        /\ Emit(b, TRUE)
  /\ UNCHANGED <<result, committed, next, flag, pc, down>>

\* Mutant: a stopping batch leaves without draining what it submitted.
FinishEarly(b) ==
  /\ Runs(b)
  /\ reserve[b] = "none"
  /\ next[b] = Size[b] \/ Stopping(b)
  /\ CheckCancelled(b)
  /\ pc' = [pc EXCEPT ![b] = IF cancelled'[b] THEN "cancelled"
                             ELSE IF fatal[b] THEN "fatal" ELSE "returned"]
  /\ UNCHANGED <<permitVars, stage, result, outcome, committed, next, flag, fatal, down>>

\* The loop ends: nothing pending, nothing reserved.  A last check comes before
\* the result; a cancellation wins over a fatal error.
Finish(b) ==
  /\ Runs(b)
  /\ PendingOf(b) = {} /\ reserve[b] = "none"
  /\ next[b] = Size[b] \/ Stopping(b)
  /\ CheckCancelled(b)
  /\ pc' = [pc EXCEPT ![b] = IF cancelled'[b] THEN "cancelled"
                             ELSE IF fatal[b] THEN "fatal" ELSE "returned"]
  /\ UNCHANGED <<permitVars, stage, result, outcome, committed, next, flag, fatal, down>>

-----------------------------------------------------------------------------
\* _parse_spec_docs: one permit, reserve_async and both submissions by hand.

EndDirect(b, how) == pc' = [pc EXCEPT ![b] = IF flag[b] THEN "cancelled" ELSE how]

\* The permit is there: submit_prepare, with no look at the cancel event.
DirectSubmit(b) ==
  /\ RunsDirect(b) /\ reserve[b] = "granted"
  /\ Submit(b, available, [reserve EXCEPT ![b] = "none"])
  /\ IF down = "up" THEN UNCHANGED pc ELSE EndDirect(b, "returned")
  /\ UNCHANGED <<result, committed, flag, stopVars, down>>

\* A future of the handler raised: an Exception is a reported failure.
DirectRaised(b, x) ==
  /\ Release(x)
  /\ \/ /\ result[x] = "failed"
        /\ \E out \in {"skipped", "failed"} : Record(x, out)
        /\ EndDirect(b, "returned")
     \/ /\ result[x] \in {"cancelled", "fatal"}
        /\ Drop(x)
        /\ pc' = [pc EXCEPT ![b] = result[x]]

DirectPrepared(b, x) ==
  /\ RunsDirect(b) /\ stage[x] = "prepDone"
  /\ \/ DirectRaised(b, x) /\ UNCHANGED stopVars
     \/ /\ result[x] \in {"value", "complete"} /\ flag[b]
        /\ Release(x)
        /\ Drop(x)
        /\ pc' = [pc EXCEPT ![b] = "cancelled"]
        /\ UNCHANGED stopVars
     \/ /\ result[x] = "complete" /\ ~ flag[b]
        /\ Release(x)
        /\ Record(x, "skipped")
        /\ pc' = [pc EXCEPT ![b] = "returned"]
        /\ UNCHANGED stopVars
     \/ /\ result[x] = "value" /\ ~ flag[b]
        /\ IF down # "all"
           THEN HandOver(x) /\ UNCHANGED pc
           ELSE /\ Release(x) /\ Record(x, "failed")
                /\ pc' = [pc EXCEPT ![b] = "returned"]
                /\ UNCHANGED stopVars
  /\ UNCHANGED <<result, committed, next, flag, down>>

DirectPersisted(b, x) ==
  /\ RunsDirect(b) /\ stage[x] = "perDone"
  /\ \/ DirectRaised(b, x)
     \/ /\ result[x] = "ok"
        /\ Release(x)
        /\ Record(x, "success")
        /\ EndDirect(b, "returned")
  /\ UNCHANGED <<result, committed, next, flag, stopVars, down>>

-----------------------------------------------------------------------------
\* The executors: PrepareWorkers preparation threads, one persistence thread.

PrepareStart(x) ==
  /\ stage[x] = "prepQueued"
  /\ Cardinality(InStage("preparing")) < PrepareWorkers
  /\ stage' = [stage EXCEPT ![x] = "preparing"]
  /\ UNCHANGED <<permitVars, result, outcome, committed, next, flag, stopVars, pc, down>>

PrepareEnd(x, res) ==
  /\ stage[x] = "preparing"
  /\ stage' = [stage EXCEPT ![x] = "prepDone"]
  /\ result' = [result EXCEPT ![x] = res]
  /\ UNCHANGED <<permitVars, outcome, committed, next, flag, stopVars, pc, down>>

PersistStart(x) ==
  /\ stage[x] = "perQueued"
  /\ InStage("persisting") = {}
  /\ stage' = [stage EXCEPT ![x] = "persisting"]
  /\ UNCHANGED <<permitVars, result, outcome, committed, next, flag, stopVars, pc, down>>

\* A persist call commits, or raises and rolls its transaction back.
PersistEnd(x, res) ==
  /\ stage[x] = "persisting"
  /\ stage' = [stage EXCEPT ![x] = "perDone"]
  /\ result' = [result EXCEPT ![x] = res]
  /\ committed' = IF res = "ok" THEN committed \cup {x} ELSE committed
  /\ UNCHANGED <<permitVars, outcome, next, flag, stopVars, pc, down>>

\* shutdown(cancel_pending_preparation=True), which JobWorkerHandle.shutdown
\* calls after setting every cancel event: queued preparations are cancelled.
Shutdown ==
  /\ down = "up"
  /\ \A b \in Batches : pc[b] = "running" => flag[b]
  /\ down' = "prepare"
  /\ stage' = [x \in Items |-> IF stage[x] = "prepQueued" THEN "prepDone" ELSE stage[x]]
  /\ result' = [x \in Items |-> IF stage[x] = "prepQueued" THEN "cancelled" ELSE result[x]]
  /\ UNCHANGED <<permitVars, outcome, committed, next, flag, stopVars, pc>>

\* Preparation has drained; the persistence pool accepts nothing more.
ShutdownPersist ==
  /\ down = "prepare"
  /\ InStage("preparing") = {}
  /\ down' = "all"
  /\ UNCHANGED <<permitVars, stage, result, outcome, committed, next, flag, stopVars, pc>>

-----------------------------------------------------------------------------
Process(b) ==
  \E x \in ItemsOf(b) :
    \/ ProcessPrepared(b, x) \/ ProcessPersisted(b, x)
    \/ DirectPrepared(b, x) \/ DirectPersisted(b, x)

Loop(b) ==
  \/ NoticeStop(b) \/ StartReserve(b) \/ Acquire(b) \/ TakePermit(b) \/ TryReserve(b)
  \/ Finish(b) \/ DirectSubmit(b) \/ Process(b)

Threads ==
  \E x \in Items :
    \/ PrepareStart(x) \/ PersistStart(x)
    \/ \E res \in PrepareResult : PrepareEnd(x, res)
    \/ \E res \in PersistResult : PersistEnd(x, res)

Next ==
  \/ \E b \in Batches : Start(b) \/ RequestCancel(b) \/ Loop(b)
  \/ Threads
  \/ Shutdown \/ ShutdownPersist

Spec == Init /\ [][Next]_vars

\* Loops and threads run; every preparation and persist call returns; a polling
\* run_sync that finds a free slot again and again gets one.
Fairness ==
  /\ \A b \in Batches :
       /\ WF_vars(NoticeStop(b)) /\ WF_vars(StartReserve(b)) /\ SF_vars(Acquire(b))
       /\ WF_vars(TakePermit(b)) /\ WF_vars(DirectSubmit(b)) /\ SF_vars(TryReserve(b))
       /\ WF_vars(Finish(b)) /\ WF_vars(Process(b))
  /\ WF_vars(Threads)

FairSpec == Spec /\ Fairness

-----------------------------------------------------------------------------
\* Properties.

\* No permit is lost or made up over grants, submissions, discards, failures,
\* cancellations and shutdown: free slots, granted reservations and items that
\* hold a permit always add up to max_pending (pipeline_runtime.py).
PermitConservation == available + Cardinality(held) + Cardinality(Granted) = Limit

\* Backpressure: an item between its submission and its outcome holds a permit,
\* and no other does, so at most max_pending prepared values are in memory over
\* all batches (PipelinePermit: "do not allow the prepared-result queue to grow").
PendingHoldPermits == \A x \in Items : stage[x] \in Pending <=> x \in held

\* A call that ended, by return, cancellation or error, left nothing behind: no
\* reservation, no permit, no item in a pool that nobody will collect.
DrainedAtEnd ==
  \A b \in Batches : pc[b] \in Ended =>
    reserve[b] = "none" /\ PendingOf(b) = {} /\ held \cap ItemsOf(b) = {}

\* A call that ended reported every committed write, also when it was cancelled;
\* it reported success for nothing else but complete results; a normal return
\* has an outcome for every item.
HonestReport ==
  \A b \in Batches : \A x \in ItemsOf(b) :
    /\ pc[b] \in Ended /\ x \in committed => outcome[x] = "success"
    /\ outcome[x] = "success" => x \in committed \/ result[x] = "complete"
    /\ pc[b] = "returned" => outcome[x] # "none"

\* Once a run_async or run_sync call has seen a cancellation it submits no
\* preparation and hands no prepared value to the writer.
OnlyDrains ==
  \A x \in Items : cancelled[x[1]] =>
    /\ stage[x] = "source" => stage'[x] = "source"
    /\ stage[x] = "prepDone" => stage'[x] # "perQueued"
NothingNewAfterCancel == [][OnlyDrains]_vars

\* Shutdown turns no item of a batch into a spurious failure: the cancel events
\* are set first, so no loop submits to a pool that rejects it.
SubmitsNothing ==
  \A x \in Items : x[1] \notin DirectBatches /\ down # "up" /\ stage[x] = "source"
    => stage'[x] = "source"
NoRejectedSubmission == [][SubmitsNothing]_vars

\* Who is stopped begins nothing: neither a batch that has seen a cancellation nor,
\* once the runtime goes down, any batch at all.
StoppedBeginsNothing == [][OnlyDrains /\ SubmitsNothing]_vars

\* Every call ends: no wake-up is lost, nobody waits for capacity for ever, a
\* stopped batch drains.
BatchesEnd == \A b \in Batches : pc[b] = "running" ~> pc[b] \in Ended
=============================================================================
