----------------------------- MODULE JobEvents ------------------------------
(***************************************************************************)
(* The SSE stream of one job: GET /jobs/{id}/events (routes/jobs.py), the  *)
(* registry of event queues (JobWorkerHandle in state.py) and the worker's *)
(* side of the queue (_claim_and_run and _enqueue in job_worker.py).       *)
(*                                                                         *)
(* Everything runs on one event loop: a stretch without an await is one    *)
(* step.  The job's row moves as in JobQueue with one process and writes   *)
(* that succeed; frames other than statuses are all "log".                 *)
(***************************************************************************)
EXTENDS Naturals, Sequences

CONSTANTS
  Clients,       \* HTTP clients that may open the stream
  QueueSize,     \* maxsize of a queue the worker creates (100 in the code)
  MaxLogs,       \* bound: progress lines of the run
  MaxConnects    \* bound: streams opened

ASSUME QueueSizePositive == QueueSize \in Nat \ {0}
ASSUME BoundsNat == MaxLogs \in Nat /\ MaxConnects \in Nat

VARIABLES
  status,       \* the job's row
  queues,       \* every asyncio.Queue made for this job, in creation order
  registered,   \* JobWorkerHandle.event_queues entry: index in queues, 0 = none
  listed,       \* the loop created a _claim_and_run task that has not begun
  workerQueue,  \* the queue _claim_and_run captured, 0 = not running
  pc,           \* where each client's event_generator is
  streamQueue,  \* the queue each generator captured, 0 = none
  seen,         \* last status frame each client received
  logs,         \* bounds progress lines
  connects,     \* bounds streams
  intact        \* history: see Disturbs

rowVars == <<status, logs>>
clientVars == <<pc, streamQueue, seen, connects>>
vars == <<status, queues, registered, listed, workerQueue, pc, streamQueue,
          seen, logs, connects, intact>>

Terminal == {"succeeded", "failed", "cancelled"}
Frame == {"log", "running"} \cup Terminal

\* "attached": the queue is captured, the snapshot not read; "draining": in the
\* while loop; "ended": returned after a terminal frame.
Away == {"away", "ended"}
Connected(c) == pc[c] \notin Away

QueueIds == 0 .. Len(queues)

TypeOK ==
  /\ status \in {"queued", "running"} \cup Terminal
  /\ queues \in Seq([bounded : BOOLEAN, frames : Seq(Frame)])
  /\ registered \in QueueIds /\ workerQueue \in QueueIds
  /\ listed \in BOOLEAN
  /\ pc \in [Clients -> {"attached", "draining"} \cup Away]
  /\ streamQueue \in [Clients -> QueueIds]
  /\ seen \in [Clients -> {"nothing", "running"} \cup Terminal]
  /\ logs \in 0 .. MaxLogs /\ connects \in 0 .. MaxConnects
  /\ intact \in BOOLEAN

Init ==
  /\ status = "queued"
  /\ queues = <<>>
  /\ registered = 0 /\ workerQueue = 0
  /\ listed = FALSE
  /\ pc = [c \in Clients |-> "away"]
  /\ streamQueue = [c \in Clients |-> 0]
  /\ seen = [c \in Clients |-> "nothing"]
  /\ logs = 0 /\ connects = 0
  /\ intact = TRUE

NewQueue(bounded) == [bounded |-> bounded, frames |-> <<>>]

\* Mutant: a full queue drops the new frame.
EnqueueDropNew(q, frame) ==
  IF q.bounded /\ Len(q.frames) >= QueueSize THEN q
  ELSE [q EXCEPT !.frames = Append(@, frame)]

\* _enqueue: a full queue drops its oldest frame.
Enqueue(q, frame) ==
  LET kept == IF q.bounded /\ Len(q.frames) >= QueueSize THEN Tail(q.frames) ELSE q.frames
  IN  [q EXCEPT !.frames = Append(kept, frame)]

-----------------------------------------------------------------------------
\* The worker.

\* The loop lists the queued row and creates a task for it.
List ==
  /\ status = "queued" /\ ~ listed
  /\ listed' = TRUE
  /\ UNCHANGED <<rowVars, queues, registered, workerQueue, clientVars, intact>>

\* Mutant: the worker always makes its own queue and replaces the registered one.
ClaimClobbers ==
  /\ listed /\ status = "queued"
  /\ listed' = FALSE
  /\ status' = "running"
  /\ queues' = Append(queues, Enqueue(NewQueue(TRUE), "running"))
  /\ workerQueue' = Len(queues) + 1
  /\ registered' = workerQueue'
  /\ UNCHANGED <<logs, clientVars, intact>>

\* First step of _claim_and_run: reuse the registered queue or make a bounded
\* one, claim the row, announce "running".
Claim ==
  /\ listed /\ status = "queued"
  /\ listed' = FALSE
  /\ status' = "running"
  /\ \/ /\ registered # 0
        /\ queues' = [queues EXCEPT ![registered] = Enqueue(@, "running")]
        /\ workerQueue' = registered
     \/ /\ registered = 0
        /\ queues' = Append(queues, Enqueue(NewQueue(TRUE), "running"))
        /\ workerQueue' = Len(queues) + 1
  /\ registered' = workerQueue'
  /\ UNCHANGED <<logs, clientVars, intact>>

\* The row was cancelled first: the task registers a queue, loses the claim, and
\* its finally clause drops the entry, a stream's too.
ClaimLost ==
  /\ listed /\ status # "queued"
  /\ listed' = FALSE
  /\ registered' = 0
  /\ UNCHANGED <<rowVars, queues, workerQueue, clientVars, intact>>

\* _emit of a progress line.
Log ==
  /\ status = "running"
  /\ logs < MaxLogs
  /\ logs' = logs + 1
  /\ queues' = [queues EXCEPT ![workerQueue] = Enqueue(@, "log")]
  /\ UNCHANGED <<status, registered, listed, workerQueue, clientVars, intact>>

\* End of _claim_and_run: the terminal frame, the row, the finally clause.
Finish(out) ==
  /\ status = "running"
  /\ queues' = [queues EXCEPT ![workerQueue] = Enqueue(@, out)]
  /\ status' = out
  /\ registered' = 0
  /\ workerQueue' = 0
  /\ UNCHANGED <<listed, logs, clientVars, intact>>

\* cancel_if_queued: the row becomes CANCELLED and no frame is put anywhere.
CancelQueued ==
  /\ status = "queued"
  /\ status' = "cancelled"
  /\ intact' = (intact /\ \A c \in Clients : ~ Connected(c))
  /\ UNCHANGED <<queues, registered, listed, workerQueue, logs, clientVars>>

-----------------------------------------------------------------------------
\* The stream of a client.

\* What breaks a stream is kept apart: a second stream on the same job, or a
\* stream on a running job whose registered queue an earlier stream removed.
Disturbs == (\E c \in Clients : Connected(c))
            \/ (status = "running" /\ registered # workerQueue)

\* The generator starts: capture the registered queue or register a new
\* unbounded one; the first frame is always "running".
Connect(c) ==
  /\ pc[c] = "away"
  /\ connects < MaxConnects
  /\ connects' = connects + 1
  /\ \/ /\ registered # 0
        /\ UNCHANGED <<queues, registered>>
     \/ /\ registered = 0
        /\ queues' = Append(queues, NewQueue(FALSE))
        /\ registered' = Len(queues) + 1
  /\ streamQueue' = [streamQueue EXCEPT ![c] = registered']
  /\ pc' = [pc EXCEPT ![c] = "attached"]
  /\ seen' = [seen EXCEPT ![c] = "running"]
  /\ intact' = (intact /\ ~ Disturbs)
  /\ UNCHANGED <<rowVars, listed, workerQueue>>

\* The finally clause: the entry of the job goes, whoever registered it.
Leave(c, place) ==
  /\ pc' = [pc EXCEPT ![c] = place]
  /\ streamQueue' = [streamQueue EXCEPT ![c] = 0]
  /\ registered' = 0

\* The snapshot: a terminal row is reported and ends the stream.
Snapshot(c) ==
  /\ pc[c] = "attached"
  /\ \/ /\ status \in Terminal
        /\ seen' = [seen EXCEPT ![c] = status]
        /\ Leave(c, "ended")
     \/ /\ status \notin Terminal
        /\ pc' = [pc EXCEPT ![c] = "draining"]
        /\ UNCHANGED <<seen, streamQueue, registered>>
  /\ UNCHANGED <<rowVars, queues, listed, workerQueue, connects, intact>>

\* One turn of the drain loop.
Drain(c) ==
  /\ pc[c] = "draining"
  /\ LET q == streamQueue[c]
         frame == Head(queues[q].frames)
     IN  /\ queues[q].frames # <<>>
         /\ queues' = [queues EXCEPT ![q].frames = Tail(@)]
         /\ seen' = IF frame = "log" THEN seen ELSE [seen EXCEPT ![c] = frame]
         /\ \/ frame \in Terminal /\ Leave(c, "ended")
            \/ frame \notin Terminal /\ UNCHANGED <<pc, streamQueue, registered>>
  /\ UNCHANGED <<rowVars, listed, workerQueue, connects, intact>>

\* The client goes away; it may come back.
Disconnect(c) ==
  /\ Connected(c)
  /\ Leave(c, "away")
  /\ UNCHANGED <<rowVars, queues, listed, workerQueue, seen, connects, intact>>

-----------------------------------------------------------------------------
Next ==
  \/ List \/ Claim \/ ClaimLost \/ Log \/ CancelQueued
  \/ \E out \in Terminal : Finish(out)
  \/ \E c \in Clients : Connect(c) \/ Snapshot(c) \/ Drain(c) \/ Disconnect(c)

Spec == Init /\ [][Next]_vars

\* The loop polls and the handler returns; a connected generator is driven.
Fairness ==
  /\ WF_vars(List) /\ WF_vars(Claim) /\ WF_vars(ClaimLost)
  /\ WF_vars(\E out \in Terminal : Finish(out))
  /\ \A c \in Clients : WF_vars(Snapshot(c)) /\ WF_vars(Drain(c))

FairSpec == Spec /\ Fairness

-----------------------------------------------------------------------------
\* Properties.

\* How a job ended is told truly and told at all.  A stream that ends on its own
\* reports the outcome the row has, whatever other streams do to the queue; and
\* however many lines a run logs into a full queue, the terminal frame survives as
\* the last frame of the worker's queue until some stream takes it.
EndIsTold ==
  /\ \A c \in Clients : pc[c] = "ended" => seen[c] = status
  /\ status \in Terminal =>
       \A i \in 1 .. Len(queues) :
         LET f == queues[i].frames
         IN  /\ \A k \in 1 .. Len(f) : f[k] \in Terminal => k = Len(f)
             /\ queues[i].bounded /\ f # <<>> => f[Len(f)] = status

\* A stream nobody disturbs gets to the terminal status, also when it opened
\* before the claim or replaced an earlier one that closed before the claim.
UndisturbedStreamEnds ==
  \A c \in Clients : Connected(c) ~> (~ Connected(c) \/ ~ intact)

\* What job_events' docstring and comment say of the stream of a running job: the
\* worker keeps pushing to the queue that the stream drains until the job is
\* terminal.  (On a queued job that is cancelled no frame is put at all; that is
\* not the subject here.)
StreamEnds ==
  \A c \in Clients : (Connected(c) /\ status = "running") ~> ~ Connected(c)
=============================================================================
