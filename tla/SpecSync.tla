------------------------------ MODULE SpecSync ------------------------------
(* Syncs of specifications and their versions (spec_service.py, spec_sql.py).
   A sweep over a TSG runs one task per specification on a pool of threads; a
   task gets the detail page, may submit follow-up fetches to a second pool and
   wait for them, and stores header, versions and stamp in three transactions.
   sync_spec does the same for one specification, in another process perhaps.

   A number stands for the versions that a detail page lists; a follow-up finds
   the PDF link or the CR list of the newest of them.                         *)
EXTENDS Integers, FiniteSets

CONSTANTS Specs, Threads, MaxPage, MaxSyncs, MaxEvents

VARIABLES
  page,      \* spec -> its detail page
  header,    \* specs with a row
  stamp,     \* spec -> last_synced_at: "never", "new" or "old"
  versions,  \* spec -> the page its version rows were made of
  pdf,       \* spec -> is a pdf_url stored for its newest version
  job,       \* who and spec -> the task
  waiting,   \* follow-ups in the queue of their pool
  busy,      \* follow-ups that run
  seen,      \* spec -> its page when the last stamping task began (history)
  syncs, events

rows == <<header, stamp, versions, pdf>>
pools == <<waiting, busy>>
vars == <<page, rows, job, pools, seen, syncs, events>>

Tasks == {"sweep", "one"} \X Specs
FollowUps == Tasks \X {"pdf", "crs"}

Idle == [pc |-> "idle", force |-> FALSE, details |-> FALSE, fresh |-> FALSE, fetched |-> 0,
         pdf |-> FALSE, asked |-> 0]
\* A task between its gate and its end.
Active(j) == job[j].pc \notin {"idle", "queued", "skipped", "synced"}
Goto(j, pc) == job' = [job EXCEPT ![j].pc = pc]

----------------------------------------------------------------------------
(* Starting.                                                                 *)

\* sync: every specification of the list page gets a task.  What the list page
\* gives has no stamp, so that force makes no difference.
StartSweep(details) ==
  /\ syncs < MaxSyncs /\ syncs' = syncs + 1
  /\ \A s \in Specs : job[<<"sweep", s>>].pc = "idle"
  /\ job' = [j \in Tasks |-> IF j[1] = "sweep" THEN [Idle EXCEPT !.pc = "queued", !.details = details]
                            ELSE job[j]]
  /\ UNCHANGED <<page, rows, pools, seen, events>>

\* sync_spec: the stored row, with its stamp, or one made from the header page.
StartOne(s, force, details) ==
  /\ syncs < MaxSyncs /\ syncs' = syncs + 1
  /\ job[<<"one", s>>].pc = "idle"
  /\ job' = [job EXCEPT ![<<"one", s>>] =
       [Idle EXCEPT !.pc = IF ~force /\ stamp[s] = "new" THEN "skipped" ELSE "queued",
                    !.force = force, !.details = details, !.fresh = (stamp[s] = "new")]]
  /\ UNCHANGED <<page, rows, pools, seen, events>>

\* The pool of a sweep's tasks; sync_spec runs in its own thread.
Slots == {s \in Specs : Active(<<"sweep", s>>)}
MayRun(j) == j[1] = "sweep" => Cardinality(Slots) < Threads

\* _prepare_spec_with_executor skips a specification whose row, as it was read,
\* has a new stamp, forced or not; sync_spec then reports no versions.
Enter(j) ==
  /\ job[j].pc = "queued" /\ MayRun(j)
  /\ IF job[j].fresh THEN Goto(j, "synced")
     ELSE job' = [job EXCEPT ![j].pc = "detail", ![j].asked = page[j[2]]]
  /\ UNCHANGED <<page, rows, pools, seen, syncs, events>>

----------------------------------------------------------------------------
(* Preparing.                                                                *)

Detail(j) ==
  /\ job[j].pc = "detail"
  /\ job' = [job EXCEPT ![j].pc = "backfill", ![j].fetched = page[j[2]]]
  /\ UNCHANGED <<page, rows, pools, seen, syncs, events>>

\* _backfill_followup_fields takes over the stored link of the same version;
\* then the follow-ups are submitted.
Backfill(j) ==
  /\ job[j].pc = "backfill"
  /\ job' = [job EXCEPT ![j].pdf = (pdf[j[2]] /\ versions[j[2]] = job[j].fetched),
                        ![j].pc = IF job[j].details THEN "followups" ELSE "header"]
  /\ waiting' = IF job[j].details THEN waiting \cup ({j} \X {"pdf", "crs"}) ELSE waiting
  /\ UNCHANGED <<page, rows, busy, seen, syncs, events>>

\* Mutant: the follow-ups go to the pool of the tasks.
OnePool(j) == IF j[1] = "sweep"
              THEN Threads - Cardinality(Slots) - Cardinality({f \in busy : f[1][1] = "sweep"})
              ELSE 1 - Cardinality({f \in busy : f[1] = j})

\* The free threads for follow-ups of a task.
FreeThreads(j) == IF j[1] = "sweep" THEN Threads - Cardinality({f \in busy : f[1][1] = "sweep"})
                  ELSE 1 - Cardinality({f \in busy : f[1] = j})

StartFollowUp(f) ==
  /\ f \in waiting /\ FreeThreads(f[1]) > 0
  /\ waiting' = waiting \ {f} /\ busy' = busy \cup {f}
  /\ UNCHANGED <<page, rows, job, seen, syncs, events>>

\* A follow-up that fails is logged; a link that is known is not fetched.
EndFollowUp(f) ==
  /\ f \in busy /\ busy' = busy \ {f}
  /\ \E found \in BOOLEAN :
       job' = [job EXCEPT ![f[1]].pdf = @ \/ (f[2] = "pdf" /\ found)]
  /\ UNCHANGED <<page, rows, waiting, seen, syncs, events>>

Waits(j) == job[j].pc = "followups" /\ \E f \in waiting \cup busy : f[1] = j
Gather(j) ==
  /\ job[j].pc = "followups" /\ ~Waits(j)
  /\ Goto(j, "header")
  /\ UNCHANGED <<page, rows, pools, seen, syncs, events>>

----------------------------------------------------------------------------
(* persist_prepared_spec.                                                    *)

StoreHeader(j) ==
  /\ job[j].pc = "header"
  /\ header' = header \cup {j[2]}
  /\ Goto(j, "versions")
  /\ UNCHANGED <<page, stamp, versions, pdf, pools, seen, syncs, events>>

\* Mutant: the link of a version is overwritten, with nothing when none was found.
LinkOverwritten(j) == job[j].pdf
\* upsert_versions updates by version and keeps a link that it is not given.
LinkKept(j) == job[j].pdf \/ (versions[j[2]] = job[j].fetched /\ pdf[j[2]])
StoreVersions(j) ==
  /\ job[j].pc = "versions"
  /\ LET newest == job[j].fetched >= versions[j[2]]
     IN /\ versions' = [versions EXCEPT ![j[2]] = IF newest THEN job[j].fetched ELSE @]
        /\ pdf' = [pdf EXCEPT ![j[2]] = IF newest THEN LinkKept(j) ELSE @]
  /\ Goto(j, "stamp")
  /\ UNCHANGED <<page, header, stamp, pools, seen, syncs, events>>

Complete(j) == job[j].pc = "stamp"
Stamp(j) ==
  /\ Complete(j)
  /\ stamp' = [stamp EXCEPT ![j[2]] = "new"]
  /\ seen' = [seen EXCEPT ![j[2]] = job[j].asked]
  /\ Goto(j, "synced")
  /\ UNCHANGED <<page, header, versions, pdf, pools, syncs, events>>

\* A sweep logs the failure of a task and goes on; sync_spec passes it up.
Fail(j) ==
  /\ Active(j) /\ ~Waits(j)
  /\ job' = [job EXCEPT ![j] = Idle]
  /\ UNCHANGED <<page, rows, pools, seen, syncs, events>>

Leave(j) ==
  /\ job[j].pc \in {"skipped", "synced"}
  /\ job' = [job EXCEPT ![j] = Idle]
  /\ UNCHANGED <<page, rows, pools, seen, syncs, events>>

----------------------------------------------------------------------------
\* The interval passes, or a version is published.
Event ==
  /\ events < MaxEvents /\ events' = events + 1
  /\ \/ /\ stamp' = [s \in Specs |-> IF stamp[s] = "new" THEN "old" ELSE stamp[s]]
        /\ UNCHANGED page
     \/ /\ \E s \in Specs : page[s] < MaxPage /\ page' = [page EXCEPT ![s] = @ + 1]
        /\ UNCHANGED stamp
  /\ UNCHANGED <<header, versions, pdf, job, pools, seen, syncs>>

Init ==
  /\ page = [s \in Specs |-> 1] /\ header = {} /\ stamp = [s \in Specs |-> "never"]
  /\ versions = [s \in Specs |-> 0] /\ pdf = [s \in Specs |-> FALSE]
  /\ job = [j \in Tasks |-> Idle] /\ waiting = {} /\ busy = {}
  /\ seen = [s \in Specs |-> 0] /\ syncs = 0 /\ events = 0

Task(j) == \/ Enter(j) \/ Detail(j) \/ Backfill(j) \/ Gather(j)
           \/ StoreHeader(j) \/ StoreVersions(j) \/ Stamp(j) \/ Fail(j) \/ Leave(j)
Next ==
  \/ \E details \in BOOLEAN : \/ StartSweep(details)
                              \/ \E s \in Specs, force \in BOOLEAN : StartOne(s, force, details)
  \/ (\E j \in Tasks : Task(j)) \/ Event
  \/ \E f \in FollowUps : StartFollowUp(f) \/ EndFollowUp(f)
Spec == Init /\ [][Next]_vars

----------------------------------------------------------------------------
(* Properties.                                                               *)

\* A stamp stands for stored versions at least as new as the page was when the
\* stamping task began, wherever tasks failed or overlapped.
SpecStampIsEarned ==
  \A s \in Specs : stamp[s] # "never" => s \in header /\ versions[s] >= seen[s]

\* A sweep never blocks itself: as long as one of its tasks is not at its end, some
\* task has a step to take, or a follow-up has.
Mates(j) == IF j[1] = "sweep" THEN {i \in Tasks : i[1] = "sweep"} ELSE {j}
GoesOn(T) == \/ \E i \in T : Task(i)
             \/ \E f \in FollowUps : f[1] \in T /\ (StartFollowUp(f) \/ EndFollowUp(f))
NobodyStarves == \A j \in Tasks : job[j].pc # "idle" => ENABLED GoesOn(Mates(j))

\* The PDF link of a version, once stored, stays, whoever syncs at the same time
\* with what older knowledge.
LinkLost == \E s \in Specs : pdf[s] /\ ~pdf'[s] /\ versions'[s] = versions[s]
LinksKept == [][~LinkLost]_vars
=============================================================================
