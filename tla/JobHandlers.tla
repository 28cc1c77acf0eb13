---------------------------- MODULE JobHandlers ----------------------------
(***************************************************************************)
(* The handlers of the jobs (web/workers/handlers.py) as programs of steps, *)
(* the doors through which jobs are submitted (routes/jobs.py, the tools of *)
(* mcp_server.py) and the verdict the worker writes (job_worker.py).        *)
(*                                                                          *)
(* Handlers, requests and cancels share one event loop: between two awaits  *)
(* a handler has it to itself, and only while it waits for a thread can a   *)
(* cancel come in.  Claims and lost writes are in JobQueue, the batch's     *)
(* permits in Pipeline; here an item is begun, ends and is counted.         *)
(***************************************************************************)
EXTENDS Integers, Sequences

CONSTANTS
  Jobs,      \* rows of the jobs table
  MaxItems   \* bound: items a parse job selects or lists

VARIABLES
  loop,      \* the job whose handler has the event loop, or None
  job        \* each row with what its handler is at

vars == <<loop, job>>

None == 0

-----------------------------------------------------------------------------
\* Programs.  A step of the kind
\*   params    tests the parameters, known and available read rows or the services:
\*             the job goes on or fails;
\*   gate      ends the job if its cancel event is set;
\*   try       works on the loop itself and may fail, quiet swallows what fails;
\*   work      runs in a thread; progress too, and what it reports through stops it
\*             when the event is set;
\*   select, list   choose the items, on the loop and in a thread;
\*   batch     hands them to TDocPipeline.run_async;
\*   prepare, persist   are the two halves of a specification document.

sync_meetings == <<"params", "known", "gate", "work", "gate">>
sync_wis == <<"params", "known", "gate", "work", "gate">>

\* Mutant: nobody looks at the event once the sync is done.
sync_tdocs_ungated == <<"gate", "params", "work">>

sync_tdocs == <<"gate", "params", "work", "gate">>
sync_tdocs_all == <<"gate", "work", "gate">>
sync_specs == <<"params", "known", "gate", "work", "gate">>
sync_testcases == <<"gate", "work", "gate">>
parse_tdocs == <<"params", "select", "gate", "batch">>
parse_tdoc_url == <<"params", "quiet", "gate", "list", "batch", "gate">>

parse_spec_docs == <<"params", "available", "gate", "prepare", "gate", "persist", "gate">>
rebuild_search == <<"available", "try">>
run_index == <<"available", "gate", "progress", "gate">>
cache_purge == <<"params", "work", "gate">>

Program ==
  [sync_meetings |-> sync_meetings, sync_wis |-> sync_wis, sync_tdocs |-> sync_tdocs,
   sync_tdocs_all |-> sync_tdocs_all, sync_specs |-> sync_specs,
   sync_testcases |-> sync_testcases, parse_tdocs |-> parse_tdocs,
   parse_tdoc_url |-> parse_tdoc_url, parse_spec_docs |-> parse_spec_docs,
   rebuild_search |-> rebuild_search, index_tdocs |-> run_index,
   index_spec_docs |-> run_index, cache_purge |-> cache_purge]

Kinds == DOMAIN Program

-----------------------------------------------------------------------------
\* The doors.  Arguments are right, empty (a string or mapping without content) or of
\* no use.  A page of the server posts to the same routes.

ByRest(kind, args) ==
  args = "right" \/ (args = "empty" /\ kind \in {"sync_meetings", "sync_wis", "sync_specs", "parse_tdocs"})
ByTool(kind, args) ==
  /\ kind \notin {"sync_wis", "rebuild_search"}
  /\ args = "right" \/ (args = "empty" /\ kind = "sync_specs")
Accepted(kind, args) == kind # "rebuild_search" /\ (ByRest(kind, args) \/ ByTool(kind, args))

\* What the handler itself refuses; an empty filter is one.
Refused(kind, args) == args = "empty" /\ kind # "parse_tdocs"

NoJob == [status |-> "none", kind |-> "none", args |-> "right", todo |-> <<>>, cancel |-> FALSE,
          away |-> FALSE, chosen |-> 0, begun |-> 0, successes |-> 0, skipped |-> 0,
          failures |-> 0]

\* No door makes rebuild_search; an earlier release may have left such a row.
Init ==
  /\ loop = None
  /\ \E J \in SUBSET Jobs :
       job = [j \in Jobs |->
         IF j \in J THEN [NoJob EXCEPT !.status = "QUEUED", !.kind = "rebuild_search"] ELSE NoJob]

Submit(j, kind, args) ==
  /\ loop = None /\ job[j].status = "none"
  /\ Accepted(kind, args)
  /\ job' = [job EXCEPT ![j] = [NoJob EXCEPT !.status = "QUEUED", !.kind = kind, !.args = args]]
  /\ UNCHANGED loop

\* request_cancel: a queued row is ended at once, a running one has its event set.
Cancel(j) ==
  /\ loop = None
  /\ \/ job[j].status = "QUEUED" /\ job' = [job EXCEPT ![j].status = "CANCELLED"]
     \/ job[j].status = "RUNNING" /\ job' = [job EXCEPT ![j].cancel = TRUE]
  /\ UNCHANGED loop

\* The claim, the worker's own gate and the call of the handler: no await between them.
Claim(j) ==
  /\ loop = None /\ job[j].status = "QUEUED"
  /\ job' = [job EXCEPT ![j].status = "RUNNING", ![j].todo = Program[job[j].kind]]
  /\ loop' = j

-----------------------------------------------------------------------------
\* The worker's verdict: the handler returned, though a parse of which nothing came
\* but failures has failed.

Verdict(r) ==
  IF r.kind \in {"parse_tdocs", "parse_spec_docs"} /\ r.failures > 0 /\ r.successes + r.skipped = 0
    THEN "FAILED" ELSE "SUCCEEDED"

End(j, status) ==
  /\ job' = [job EXCEPT ![j].status = status, ![j].todo = <<>>, ![j].away = FALSE]
  /\ loop' = None

\* On with the next step; after the last the handler returns.
GoOn(j, r) ==
  IF Len(r.todo) = 1
    THEN job' = [job EXCEPT ![j] = [r EXCEPT !.status = Verdict(r), !.todo = <<>>, !.away = FALSE]] /\ loop' = None
    ELSE job' = [job EXCEPT ![j] = [r EXCEPT !.todo = Tail(@), !.away = FALSE]] /\ loop' = j

Step(j) == Head(job[j].todo)
OnLoop(j, kinds) == loop = j /\ Step(j) \in kinds
Away(j) == job[j].away

Params(j) ==
  /\ OnLoop(j, {"params"})
  /\ IF Refused(job[j].kind, job[j].args) THEN End(j, "FAILED") ELSE GoOn(j, job[j])

\* The TSG or the service is there or not; a rebuild on the loop fails or does not.
Look(j) ==
  /\ OnLoop(j, {"known", "available", "try"})
  /\ GoOn(j, job[j]) \/ End(j, "FAILED")

Quiet(j) == OnLoop(j, {"quiet"}) /\ GoOn(j, job[j])

Gate(j) ==
  /\ OnLoop(j, {"gate"})
  /\ IF job[j].cancel THEN End(j, "CANCELLED") ELSE GoOn(j, job[j])

-----------------------------------------------------------------------------
\* await asyncio.to_thread: the loop is free until the thread is done.
BeginWork(j) ==
  /\ OnLoop(j, {"work", "progress", "list", "prepare", "persist", "batch"})
  /\ Step(j) = "batch" => job[j].chosen > 0
  /\ job' = [job EXCEPT ![j].away = TRUE]
  /\ loop' = None

EndWork(j) ==
  /\ loop = None /\ Away(j) /\ Step(j) \in {"work", "progress"}
  /\ \/ GoOn(j, job[j])
     \/ End(j, "FAILED")
     \/ Step(j) = "progress" /\ job[j].cancel /\ End(j, "CANCELLED")

\* The files of a directory; the url of a file is listed as it is.
EndList(j) ==
  /\ Step(j) = "list"
  /\ \/ loop = j /\ GoOn(j, [job[j] EXCEPT !.chosen = 1])
     \/ /\ loop = None /\ Away(j)
        /\ End(j, "FAILED") \/ \E n \in 0 .. MaxItems : GoOn(j, [job[j] EXCEPT !.chosen = n])

\* The rows, at most max_batch of them; none at all is a success at once.
Select(j) ==
  /\ OnLoop(j, {"select"})
  /\ \/ End(j, "SUCCEEDED") \/ End(j, "FAILED")
     \/ \E n \in 1 .. MaxItems : GoOn(j, [job[j] EXCEPT !.chosen = n])

\* An exception of either half is a failed item, and what was parsed before or is too
\* large a skipped one; then only the last gate is left.
LastGate(r) == [r EXCEPT !.todo = SubSeq(@, Len(@) - 1, Len(@))]
EndHalf(j) ==
  /\ loop = None /\ Away(j) /\ Step(j) \in {"prepare", "persist"}
  /\ \/ Step(j) = "prepare" /\ GoOn(j, [job[j] EXCEPT !.chosen = 1])
     \/ Step(j) = "persist" /\ GoOn(j, [job[j] EXCEPT !.successes = 1])
     \/ GoOn(j, LastGate([job[j] EXCEPT !.chosen = 1, !.failures = 1]))
     \/ GoOn(j, LastGate([job[j] EXCEPT !.chosen = 1, !.skipped = 1]))

-----------------------------------------------------------------------------
\* run_async.
Treated(r) == r.successes + r.skipped + r.failures

\* An item is submitted on the loop, after the event was looked at.
BeginItem(j) ==
  /\ loop = None /\ Away(j) /\ Step(j) = "batch"
  /\ job[j].begun < job[j].chosen
  /\ ~ job[j].cancel
  /\ job' = [job EXCEPT ![j].begun = @ + 1]
  /\ UNCHANGED loop

EndItem(j) ==
  /\ loop = None /\ Away(j) /\ Step(j) = "batch" /\ Treated(job[j]) < job[j].begun
  /\ \E bucket \in {"successes", "skipped", "failures"} :
       job' = [job EXCEPT ![j][bucket] = @ + 1]
  /\ UNCHANGED loop

\* What was begun is drained and the event is looked at once more.  Anything fatal, as a
\* runtime that was shut down or a reporter that raises, is raised then.
EndBatch(j) ==
  LET r == job[j] IN
  /\ (loop = None /\ Away(j)) \/ (loop = j /\ r.chosen = 0)
  /\ Step(j) = "batch" /\ Treated(r) = r.begun
  /\ \/ r.chosen = 0 /\ GoOn(j, r)
     \/ r.chosen > 0 /\ ~ r.cancel /\ r.begun = r.chosen /\ GoOn(j, r)
     \/ r.chosen > 0 /\ r.cancel /\ End(j, "CANCELLED")
     \/ r.chosen > 0 /\ End(j, "FAILED")

Next ==
  \E j \in Jobs :
    \/ \E kind \in Kinds, args \in {"right", "empty", "useless"} : Submit(j, kind, args)
    \/ Cancel(j) \/ Claim(j)
    \/ job[j].status = "RUNNING" /\
         (\/ Params(j) \/ Look(j) \/ Quiet(j) \/ Gate(j) \/ Select(j)
          \/ BeginWork(j) \/ EndWork(j) \/ EndList(j) \/ EndHalf(j)
          \/ BeginItem(j) \/ EndItem(j) \/ EndBatch(j))

Spec == Init /\ [][Next]_vars

-----------------------------------------------------------------------------
\* Properties.

\* The status a handler ends with is true, wherever it was when what happened happened.
\* A cancel that was accepted while it ran is never answered with SUCCEEDED: after its
\* last await somebody looks at the event.  SUCCEEDED is earned: every item that was
\* chosen was treated and counted once, and a parse by filter or of a document of which
\* every item failed does not succeed.
HonestVerdict ==
  \A j \in Jobs :
    job[j].status = "SUCCEEDED" =>
      /\ ~ job[j].cancel
      /\ Treated(job[j]) = job[j].chosen
      /\ job[j].kind \in {"parse_tdocs", "parse_spec_docs"} /\ job[j].failures > 0 =>
           job[j].successes + job[j].skipped > 0
=============================================================================
