---------------------------- MODULE JobLifecycle ----------------------------
(***************************************************************************)
(* What the background-job queue promises a client: the state diagram of   *)
(* docs/processes.md ("Job state and cancellation") and of the JobStatus   *)
(* enum, the cancellation contract of POST /jobs/{id}/cancel and the       *)
(* retention contract of JobRepository.delete_older_than.  Nothing here    *)
(* says how the promise is kept: no worker, task or event appears.         *)
(***************************************************************************)
CONSTANTS
  Jobs,          \* job ids
  Cooperative    \* jobs whose handler reads the cancel event after its last await

VARIABLES
  status,   \* the status column of each job row
  asked     \* running jobs that accepted a cancel request

vars == <<status, asked>>

\* JobStatus, plus "absent" (no row yet) and "deleted" (purged by retention;
\* a job id is a fresh UUID4, so a purged id never comes back).
Terminal == {"succeeded", "failed", "cancelled"}
Status == {"absent", "queued", "running", "deleted"} \cup Terminal

TypeOK ==
  /\ status \in [Jobs -> Status]
  /\ asked \in SUBSET Jobs

Init ==
  /\ status = [j \in Jobs |-> "absent"]
  /\ asked = {}

Enqueue(j) ==
  /\ status[j] = "absent"
  /\ status' = [status EXCEPT ![j] = "queued"]
  /\ UNCHANGED asked

CancelQueued(j) ==
  /\ status[j] = "queued"
  /\ status' = [status EXCEPT ![j] = "cancelled"]
  /\ UNCHANGED asked

Claim(j) ==
  /\ status[j] = "queued"
  /\ status' = [status EXCEPT ![j] = "running"]
  /\ UNCHANGED asked

\* A cancel request (one job) or a shutdown (every job it knows) is recorded
\* against running jobs only.
Ask(A) ==
  /\ \A j \in A : status[j] = "running"
  /\ asked' = asked \cup A
  /\ UNCHANGED status

\* A run ends once.  After an accepted cancel it may still fail, but a
\* cooperative handler never reports it as a success.
End(j) ==
  /\ status[j] = "running"
  /\ \E out \in Terminal :
       /\ out = "succeeded" => j \notin asked \cap Cooperative
       /\ status' = [status EXCEPT ![j] = out]
  /\ asked' = asked \ {j}

\* A process that dies forgets the cancel requests it held in memory; the rows
\* it was running are failed by the next one (End with "failed").
Forget ==
  /\ asked' \in SUBSET asked
  /\ UNCHANGED status

\* Retention removes finished rows only.
Purge(D) ==
  /\ \A j \in D : status[j] \in Terminal
  /\ status' = [j \in Jobs |-> IF j \in D THEN "deleted" ELSE status[j]]
  /\ UNCHANGED asked

Next ==
  \/ \E j \in Jobs : Enqueue(j) \/ CancelQueued(j) \/ Claim(j) \/ End(j)
  \/ \E A \in SUBSET Jobs : Ask(A) \/ Purge(A)
  \/ Forget

Spec == Init /\ [][Next]_vars
=============================================================================
