------------------------------ MODULE JobQueue ------------------------------
(***************************************************************************)
(* The background-job queue: the jobs table (jobs_sql.py), the worker loop *)
(* that claims and runs rows (job_worker.py), the cancel route             *)
(* (routes/jobs.py) and the shutdown path (state.py).                      *)
(*                                                                         *)
(* A worker is one server process (HTTP server or "mcp stdio"); each runs  *)
(* one event loop, so a stretch of code without an await is one step with  *)
(* respect to its own process.  Different processes interleave at every    *)
(* database transaction, and each transaction is one step.                 *)
(*                                                                         *)
(* Abstracted: log lines, summaries, error texts, kinds without a handler  *)
(* (KIND_TO_HANDLER is total), the 1000-row limit of orphan recovery.      *)
(* SSE queues are in JobEvents.                                            *)
(***************************************************************************)
EXTENDS Naturals, FiniteSets

CONSTANTS
  Jobs,            \* job ids; each is created at most once
  Cooperative,     \* jobs whose handler reads the cancel event after its last await
  Workers,         \* server processes sharing the database
  MaxConcurrent,   \* Settings.server.max_concurrent_jobs
  MaxHalts         \* bound: crashes and shutdowns in a behaviour

ASSUME JobsFinite == IsFiniteSet(Jobs)
ASSUME CooperativeJobs == Cooperative \subseteq Jobs
ASSUME MaxConcurrentPositive == MaxConcurrent \in Nat \ {0}
ASSUME MaxHaltsNat == MaxHalts \in Nat

VARIABLES
  status,      \* JobORM.status, or "absent" / "deleted" when there is no row
  createdAt,   \* JobORM.created_at as a creation rank; 0 before the insert
  phase,       \* what the process of each worker is doing
  orphans,     \* rows _recover_orphans listed and has yet to mark
  task,        \* the asyncio task of each worker for each job
  event,       \* JobWorkerHandle.cancel_events of each worker
  runs,        \* history: how many times the handler of a job was started
  halts        \* bounds crashes and shutdowns

vars == <<status, createdAt, phase, orphans, task, event, runs, halts>>

Terminal == {"succeeded", "failed", "cancelled"}
Status == {"absent", "queued", "running", "deleted"} \cup Terminal

\* "recovering": start-up of run(); "polling": the loop; "stopping": shutdown()
\* has cancelled the loop task; "draining": the loop awaits its handlers.
Phase == {"down", "recovering", "polling", "stopping", "draining"}

\* "spawned": created, first step not taken; "handling": claimed, handler
\* suspended at an await; "failing": mark_running raised, mark_failed is next.
Task == {"none", "spawned", "handling", "failing"}
Event == {"none", "clear", "set"}

TypeOK ==
  /\ status \in [Jobs -> Status]
  /\ createdAt \in [Jobs -> Nat]
  /\ phase \in [Workers -> Phase]
  /\ orphans \in [Workers -> SUBSET Jobs]
  /\ task \in [Workers -> [Jobs -> Task]]
  /\ event \in [Workers -> [Jobs -> Event]]
  /\ runs \in [Jobs -> Nat]
  /\ halts \in Nat

Init ==
  /\ status = [j \in Jobs |-> "absent"]
  /\ createdAt = [j \in Jobs |-> 0]
  /\ phase = [w \in Workers |-> "down"]
  /\ orphans = [w \in Workers |-> {}]
  /\ task = [w \in Workers |-> [j \in Jobs |-> "none"]]
  /\ event = [w \in Workers |-> [j \in Jobs |-> "none"]]
  /\ runs = [j \in Jobs |-> 0]
  /\ halts = 0

-----------------------------------------------------------------------------
\* The jobs table: one operator per repository statement that writes.

Exists(j) == status[j] \notin {"absent", "deleted"}
Queued == {j \in Jobs : status[j] = "queued"}

\* mark_succeeded / mark_failed / mark_cancelled: no guard on the old status;
\* a missing row raises KeyError and changes nothing.
MarkTerminal(j, out) ==
  status' = IF Exists(j) THEN [status EXCEPT ![j] = out] ELSE status

\* delete_older_than: which finished rows are older than the window is left open.
Purge(D) ==
  /\ \A j \in D : status[j] \in Terminal
  /\ status' = [j \in Jobs |-> IF j \in D THEN "deleted" ELSE status[j]]

-----------------------------------------------------------------------------
\* The event loop of a process.

InFlight(w) == {j \in Jobs : task[w][j] # "none"}
Spawned(w) == {j \in Jobs : task[w][j] = "spawned"}

\* No synchronous stretch of w is half done.
LoopFree(w) == \A j \in Jobs : task[w][j] # "failing"

\* Mutant: the break at in_flight's cap is missing.
PickedUncapped(w) ==
  {j \in Queued : Cardinality({k \in Queued : createdAt[k] > createdAt[j]}) < MaxConcurrent}

\* The newest MaxConcurrent queued rows, cut where in_flight reaches the cap.
Picked(w) ==
  {j \in Queued : Cardinality({k \in Queued : createdAt[k] > createdAt[j]})
                    + Cardinality(InFlight(w)) < MaxConcurrent}

\* End of _claim_and_run: its finally drops the cancel event with the task.
EndTask(w, j) ==
  /\ task' = [task EXCEPT ![w][j] = "none"]
  /\ event' = [event EXCEPT ![w][j] = "none"]

SetEvents(w, S) ==
  event' = [event EXCEPT ![w] =
              [j \in Jobs |-> IF j \in S /\ @[j] # "none" THEN "set" ELSE @[j]]]

-----------------------------------------------------------------------------
\* Requests served by a polling process.

\* repo.create, from an HTTP route or an MCP tool.
Create(w, j) ==
  /\ phase[w] = "polling" /\ LoopFree(w)
  /\ status[j] = "absent"
  /\ status' = [status EXCEPT ![j] = "queued"]
  /\ createdAt' = [createdAt EXCEPT ![j] =
                     1 + Cardinality({k \in Jobs : status[k] # "absent"})]
  /\ UNCHANGED <<phase, orphans, task, event, runs, halts>>

\* POST /jobs/{id}/cancel: cancel_if_queued, else the local event if any.
Cancel(w, j) ==
  /\ phase[w] = "polling" /\ LoopFree(w)
  /\ \/ /\ status[j] = "queued"
        /\ status' = [status EXCEPT ![j] = "cancelled"]
        /\ UNCHANGED event
     \/ /\ status[j] = "running"
        /\ SetEvents(w, {j})
        /\ UNCHANGED status
  /\ UNCHANGED <<createdAt, phase, orphans, task, runs, halts>>

-----------------------------------------------------------------------------
\* The worker loop.

\* A process starts: run() cleans up, then lists the RUNNING rows.
Start(w) ==
  /\ phase[w] = "down"
  /\ phase' = [phase EXCEPT ![w] = "recovering"]
  /\ \E D \in SUBSET Jobs : Purge(D)
  /\ orphans' = [orphans EXCEPT ![w] = {j \in Jobs : status[j] = "running"}]
  /\ UNCHANGED <<createdAt, task, event, runs, halts>>

\* One iteration of _recover_orphans.
RecoverOrphan(w, j) ==
  /\ phase[w] = "recovering"
  /\ j \in orphans[w]
  /\ orphans' = [orphans EXCEPT ![w] = @ \ {j}]
  /\ MarkTerminal(j, "failed")
  /\ UNCHANGED <<createdAt, phase, task, event, runs, halts>>

\* Mutant: the loop starts while orphans are still being marked.
EnterLoopEarly(w) ==
  /\ phase[w] = "recovering"
  /\ phase' = [phase EXCEPT ![w] = "polling"]
  /\ UNCHANGED <<status, createdAt, orphans, task, event, runs, halts>>

EnterLoop(w) ==
  /\ phase[w] = "recovering"
  /\ orphans[w] = {}
  /\ phase' = [phase EXCEPT ![w] = "polling"]
  /\ UNCHANGED <<status, createdAt, orphans, task, event, runs, halts>>

\* Top of the loop: list the queued rows and create a task for each.  Tasks of
\* the previous iteration took their first step during its wait.
Tick(w) ==
  /\ phase[w] = "polling" /\ LoopFree(w)
  /\ Spawned(w) = {}
  /\ Picked(w) # {}
  /\ task' = [task EXCEPT ![w] =
                [j \in Jobs |-> IF j \in Picked(w) THEN "spawned" ELSE @[j]]]
  /\ UNCHANGED <<status, createdAt, phase, orphans, event, runs, halts>>

\* Bottom of the loop, on its own cadence.
Cleanup(w) ==
  /\ phase[w] = "polling" /\ LoopFree(w)
  /\ Spawned(w) = {}
  /\ \E D \in SUBSET Jobs : D # {} /\ Purge(D)
  /\ UNCHANGED <<createdAt, phase, orphans, task, event, runs, halts>>

-----------------------------------------------------------------------------
\* _claim_and_run.

FirstStep(w, j) ==
  /\ phase[w] \in {"polling", "stopping"} /\ LoopFree(w)
  /\ task[w][j] = "spawned"

\* Mutant: mark_running without its WHERE status = 'queued'.
ClaimWonUnguarded(w, j) ==
  /\ FirstStep(w, j)
  /\ Exists(j)
  /\ status' = [status EXCEPT ![j] = "running"]
  /\ task' = [task EXCEPT ![w][j] = "handling"]
  /\ event' = [event EXCEPT ![w][j] = "clear"]
  /\ runs' = [runs EXCEPT ![j] = @ + 1]
  /\ UNCHANGED <<createdAt, phase, orphans, halts>>

\* The event is registered, mark_running wins, the handler starts.
ClaimWon(w, j) ==
  /\ FirstStep(w, j)
  /\ status[j] = "queued"
  /\ status' = [status EXCEPT ![j] = "running"]
  /\ task' = [task EXCEPT ![w][j] = "handling"]
  /\ event' = [event EXCEPT ![w][j] = "clear"]
  /\ runs' = [runs EXCEPT ![j] = @ + 1]
  /\ UNCHANGED <<createdAt, phase, orphans, halts>>

\* mark_running updated no row: the handler is skipped.
ClaimLost(w, j) ==
  /\ FirstStep(w, j)
  /\ status[j] # "queued"
  /\ EndTask(w, j)
  /\ UNCHANGED <<status, createdAt, phase, orphans, runs, halts>>

\* Mutant: no look at the event after the last await.
FinishDeaf(w, j, out) ==
  /\ phase[w] \in {"polling", "stopping", "draining"} /\ LoopFree(w)
  /\ task[w][j] = "handling"
  /\ out = "cancelled" => event[w][j] = "set"
  /\ MarkTerminal(j, out)
  /\ EndTask(w, j)
  /\ UNCHANGED <<createdAt, phase, orphans, runs, halts>>

\* The handler returns, raises or sees its cancel event.  Its last look at the
\* event, the outcome and the write are one synchronous stretch.
Finish(w, j, out) ==
  /\ phase[w] \in {"polling", "stopping", "draining"} /\ LoopFree(w)
  /\ task[w][j] = "handling"
  /\ out = "cancelled" => event[w][j] = "set"
  /\ out = "succeeded" => event[w][j] = "clear" \/ j \notin Cooperative
  /\ MarkTerminal(j, out)
  /\ EndTask(w, j)
  /\ UNCHANGED <<createdAt, phase, orphans, runs, halts>>

-----------------------------------------------------------------------------
\* Shutdown and crash.

\* JobWorkerHandle.shutdown: set every registered event, cancel the loop task.
Stop(w) ==
  /\ phase[w] = "polling" /\ LoopFree(w)
  /\ halts < MaxHalts
  /\ phase' = [phase EXCEPT ![w] = "stopping"]
  /\ SetEvents(w, Jobs)
  /\ halts' = halts + 1
  /\ UNCHANGED <<status, createdAt, orphans, task, runs>>

\* Mutant: the loop swallows CancelledError and polls on.
LoopCancelSwallowed(w) ==
  /\ phase[w] = "stopping" /\ LoopFree(w)
  /\ Spawned(w) = {}
  /\ phase' = [phase EXCEPT ![w] = "polling"]
  /\ UNCHANGED <<status, createdAt, orphans, task, event, runs, halts>>

\* run() receives CancelledError; new tasks were ahead of it in the ready
\* queue.  It signals every in-flight handler and gathers them.
LoopCancelled(w) ==
  /\ phase[w] = "stopping" /\ LoopFree(w)
  /\ Spawned(w) = {}
  /\ phase' = [phase EXCEPT ![w] = "draining"]
  /\ SetEvents(w, InFlight(w))
  /\ UNCHANGED <<status, createdAt, orphans, task, runs, halts>>

\* The five-second wait expired: closing the event loop cancels the task.
Abort(w, j) ==
  /\ phase[w] = "draining" /\ LoopFree(w)
  /\ task[w][j] = "handling"
  /\ MarkTerminal(j, "cancelled")
  /\ EndTask(w, j)
  /\ UNCHANGED <<createdAt, phase, orphans, runs, halts>>

Exit(w) ==
  /\ phase[w] = "draining"
  /\ InFlight(w) = {}
  /\ phase' = [phase EXCEPT ![w] = "down"]
  /\ UNCHANGED <<status, createdAt, orphans, task, event, runs, halts>>

\* The process dies at any point; only the database survives.
Crash(w) ==
  /\ phase[w] # "down"
  /\ halts < MaxHalts
  /\ halts' = halts + 1
  /\ phase' = [phase EXCEPT ![w] = "down"]
  /\ orphans' = [orphans EXCEPT ![w] = {}]
  /\ task' = [task EXCEPT ![w] = [j \in Jobs |-> "none"]]
  /\ event' = [event EXCEPT ![w] = [j \in Jobs |-> "none"]]
  /\ UNCHANGED <<status, createdAt, runs>>

-----------------------------------------------------------------------------
TaskStep(w, j) ==
  \/ ClaimWon(w, j) \/ ClaimLost(w, j)
  \/ \E out \in Terminal : Finish(w, j, out)

Next ==
  \E w \in Workers :
    \/ Start(w) \/ EnterLoop(w) \/ Tick(w) \/ Cleanup(w)
    \/ Stop(w) \/ LoopCancelled(w) \/ Exit(w) \/ Crash(w)
    \/ \E j \in Jobs :
         \/ Create(w, j) \/ Cancel(w, j) \/ RecoverOrphan(w, j)
         \/ TaskStep(w, j) \/ Abort(w, j)

Spec == Init /\ [][Next]_vars

\* The event loop runs what is ready and handlers return; a process that went
\* down is started again.  Requests, crashes, shutdowns and the expiry of the
\* shutdown wait are never owed.
Fairness ==
  \A w \in Workers :
    /\ WF_vars(Start(w)) /\ WF_vars(EnterLoop(w)) /\ WF_vars(Tick(w))
    /\ WF_vars(LoopCancelled(w)) /\ WF_vars(Exit(w))
    /\ \A j \in Jobs : WF_vars(RecoverOrphan(w, j)) /\ WF_vars(TaskStep(w, j))

FairSpec == Spec /\ Fairness

-----------------------------------------------------------------------------
\* A job table whose statements may raise (a locked database).

\* The listing of orphans raises: that is logged and skips recovery.
StartBlind(w) ==
  /\ phase[w] = "down"
  /\ phase' = [phase EXCEPT ![w] = "recovering"]
  /\ \E D \in SUBSET Jobs : Purge(D)
  /\ orphans' = [orphans EXCEPT ![w] = {}]
  /\ UNCHANGED <<createdAt, task, event, runs, halts>>

\* The write of one orphan raises: the row stays RUNNING.
RecoverFails(w, j) ==
  /\ phase[w] = "recovering"
  /\ j \in orphans[w]
  /\ orphans' = [orphans EXCEPT ![w] = @ \ {j}]
  /\ UNCHANGED <<status, createdAt, phase, task, event, runs, halts>>

\* mark_running raises; the except clause goes on to mark_failed ...
ClaimRaises(w, j) ==
  /\ FirstStep(w, j)
  /\ task' = [task EXCEPT ![w][j] = "failing"]
  /\ event' = [event EXCEPT ![w][j] = "clear"]
  /\ UNCHANGED <<status, createdAt, phase, orphans, runs, halts>>

\* ... which writes over whatever the row has become, or raises too.
FailClaim(w, j) ==
  /\ task[w][j] = "failing"
  /\ MarkTerminal(j, "failed") \/ UNCHANGED status
  /\ EndTask(w, j)
  /\ UNCHANGED <<createdAt, phase, orphans, runs, halts>>

\* The terminal write raises: the task dies with the row still RUNNING.
FinishLost(w, j) ==
  /\ phase[w] \in {"polling", "stopping", "draining"} /\ LoopFree(w)
  /\ task[w][j] = "handling"
  /\ EndTask(w, j)
  /\ UNCHANGED <<status, createdAt, phase, orphans, runs, halts>>

DbFault(w, j) ==
  RecoverFails(w, j) \/ ClaimRaises(w, j) \/ FailClaim(w, j) \/ FinishLost(w, j)

FaultyNext == Next \/ \E w \in Workers : StartBlind(w) \/ \E j \in Jobs : DbFault(w, j)

FaultySpec == Init /\ [][FaultyNext]_vars

-----------------------------------------------------------------------------
\* Properties.

\* Claim exclusivity, for any number of processes and with failing writes: the
\* WHERE status = 'queued' guard of mark_running lets the handler of a job be
\* started at most once, whoever lists the row, crashes or restarts.
RunAtMostOnce == \A j \in Jobs : runs[j] <= 1

\* Two processes never execute the handler of one job at the same time.
ExclusiveRun ==
  \A w, v \in Workers, j \in Jobs :
    task[w][j] = "handling" /\ task[v][j] = "handling" => w = v

\* max_concurrent_jobs bounds the tasks of a process through listing, claim
\* and completion in any order.
InFlightBounded == \A w \in Workers : Cardinality(InFlight(w)) <= MaxConcurrent

\* A cancel event exists exactly while a task that passed its first step does:
\* a cancel that loses to the claim finds an event, and none leaks after the
\* finally clause, a crash or a shutdown.
RegistryTracksTasks ==
  \A w \in Workers, j \in Jobs :
    event[w][j] # "none" <=> task[w][j] \in {"handling", "failing"}

\* No zombie rows: while a process polls, a RUNNING row has a live handler and
\* a cancel event there (one process, no write errors).
RunningIsOwned ==
  \A w \in Workers, j \in Jobs :
    phase[w] = "polling" /\ status[j] = "running" =>
      task[w][j] = "handling" /\ event[w][j] # "none"

\* The unguarded terminal writes never rewrite an outcome: a terminal row stays
\* as it is until retention deletes it (one process, no write errors).
TerminalIsFinal ==
  [][\A j \in Jobs : status[j] \in Terminal =>
       status'[j] \in {status[j], "deleted"}]_vars

\* The queue keeps the client-level contract of JobLifecycle; a cancel counts
\* as accepted while its event is set.
Lifecycle ==
  INSTANCE JobLifecycle
  WITH asked <- {j \in Jobs : \E w \in Workers : event[w][j] = "set"}

LifecycleSpec == Lifecycle!Spec

\* Every accepted request ends, through crashes, restarts, shutdowns and newer
\* requests that are picked first.
EveryJobEnds ==
  \A j \in Jobs :
    status[j] \in {"queued", "running"} ~> status[j] \in Terminal \cup {"deleted"}

\* Shutdown always gets to the end: the loop drains and the process goes down.
ShutdownEnds == \A w \in Workers : phase[w] = "stopping" ~> phase[w] = "down"

\* Both: nothing that was begun or asked for is left hanging.
EverythingEnds == EveryJobEnds /\ ShutdownEnds
=============================================================================
