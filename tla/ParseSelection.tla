--------------------------- MODULE ParseSelection ---------------------------
(***************************************************************************)
(* `doc3gpp tdoc parse` with filters (cli.py, tdoc_parse) and the job       *)
(* parse_tdocs (handlers.py): TDocs are selected in one query, the command  *)
(* waits for a confirmation, and each is looked up, fetched, converted and  *)
(* stored.  Commands, jobs and syncs run side by side.                      *)
(*                                                                          *)
(* A TDoc is its rank in the order of the query (tdoc_id descending, so 1   *)
(* is the first row).  Extraction itself is the module Extraction; here it  *)
(* ends as the archive lets it: "whole", "part" (a source is skipped, the   *)
(* stored content is not complete), "skip" or "fail".                       *)
(***************************************************************************)
EXTENDS Integers, FiniteSets

CONSTANTS
  Tdocs,      \* TDocs the filter matches, 1 .. n
  Clients,    \* commands and jobs, which may overlap
  Jobs,       \* those of Clients that are jobs: nobody confirms, they can be cancelled
  MaxBatch,   \* settings.tdoc_parse.max_batch
  MaxCalls,   \* bound: runs that are started
  MaxChanges  \* bound: archives that change

VARIABLES
  listed,    \* TDocs with a row
  archive,   \* how an extraction of each ends now
  stored,    \* what is stored of each: "none", "part", "whole"
  call,      \* the run of each client; what it has converted and not yet stored is fresh
  done,      \* the last run of each client that ended: what it chose and reported
  calls, changes

vars == <<listed, archive, stored, call, done, calls, changes>>

Ends == {"whole", "part", "skip", "fail"}
NoCall == [pc |-> "idle", force |-> FALSE, chosen |-> {}, parsed |-> {}, todo |-> {},
           fresh |-> [d \in Tdocs |-> "none"], alone |-> {},
           successes |-> {}, skipped |-> {}, failures |-> {}]
NoReport == [exit |-> "none", force |-> FALSE, truncated |-> FALSE, chosen |-> {},
             successes |-> {}, skipped |-> {}, failures |-> {},
             newly |-> 0, again |-> 0]

Init ==
  /\ listed \in {{}, Tdocs}
  /\ archive \in [Tdocs -> Ends]
  /\ stored = [d \in Tdocs |-> "none"]
  /\ call = [c \in Clients |-> NoCall]
  /\ done = [c \in Clients |-> NoReport]
  /\ calls = 0 /\ changes = 0

-----------------------------------------------------------------------------
\* Selection.

Complete(d) == stored[d] = "whole"

\* The first n of D in the order of the query.
FirstOf(D, n) == {d \in D : Cardinality({e \in D : e < d}) < n}

\* list(..., exclude_parsed=not force, limit=max_batch).
Selected(force) == FirstOf({d \in listed : force \/ ~ Complete(d)}, MaxBatch)

Answer(c, exit) ==
  /\ done' = [done EXCEPT ![c] = [NoReport EXCEPT !.exit = exit]]
  /\ call' = [call EXCEPT ![c] = NoCall]

\* Nothing is selected; a command without --force asks once more whether any row
\* matches at all.
SelectNothing(c, force) ==
  /\ call[c].pc = "idle" /\ calls < MaxCalls
  /\ Selected(force) = {}
  /\ calls' = calls + 1
  /\ IF c \in Jobs \/ force
       THEN Answer(c, "no match")
       ELSE call' = [call EXCEPT ![c].pc = "recheck"] /\ UNCHANGED done
  /\ UNCHANGED <<listed, archive, stored, changes>>

Recheck(c) ==
  /\ call[c].pc = "recheck"
  /\ Answer(c, IF listed # {} THEN "nothing" ELSE "no match")
  /\ UNCHANGED <<listed, archive, stored, calls, changes>>

\* The query, and the groups that are shown.
Select(c, force) ==
  /\ call[c].pc = "idle" /\ calls < MaxCalls
  /\ LET D == Selected(force) IN
       /\ D # {}
       /\ call' = [call EXCEPT ![c] =
            [NoCall EXCEPT !.pc = IF c \in Jobs THEN "extract" ELSE "confirm", !.force = force,
                           !.chosen = D, !.todo = D,
                           !.parsed = IF force THEN {d \in D : Complete(d)} ELSE {}]]
  /\ calls' = calls + 1
  /\ UNCHANGED <<listed, archive, stored, done, changes>>

\* --yes, or the answer to the prompt.
Confirm(c) ==
  /\ call[c].pc = "confirm"
  /\ \/ call' = [call EXCEPT ![c].pc = "extract"] /\ UNCHANGED done
     \/ Answer(c, "aborted")
  /\ UNCHANGED <<listed, archive, stored, calls, changes>>

-----------------------------------------------------------------------------
\* extract_many: TDocs are prepared in the order of the selection, unforced ones only
\* if they are not complete, and stored as they are ready.

\* Mutant: what was read at the selection decides, not what is stored now.
RedoneFromSelection(c, d) == TRUE

Redone(c, d) == call[c].force \/ ~ Complete(d)

Others(c, d) == \E b \in Clients \ {c} : call[b].fresh[d] # "none"

\* prepare_extract: the stored rows are looked at, before and after the download,
\* and the archive is converted.  (alone is history: nobody else has been between
\* the look and the end of the storing of the TDoc.)
Prepare(c) ==
  /\ call[c].pc = "extract"
  /\ \E d \in call[c].todo :
       LET Count(bucket) == call' = [call EXCEPT ![c].todo = @ \ {d}, ![c][bucket] = @ \cup {d}]
       IN /\ \A e \in call[c].todo : d <= e
          /\ \/ ~ Redone(c, d) /\ Count("successes")
             \/ Redone(c, d) /\ archive[d] = "skip" /\ Count("skipped")
             \/ Redone(c, d) /\ archive[d] = "fail" /\ Count("failures")
             \/ /\ Redone(c, d) /\ archive[d] \in {"whole", "part"}
                /\ call' = [b \in Clients |->
                     IF b = c THEN [call[c] EXCEPT !.todo = @ \ {d}, !.fresh[d] = archive[d],
                                      !.alone = IF Others(c, d) THEN @ \ {d} ELSE @ \cup {d}]
                     ELSE [call[b] EXCEPT !.alone = @ \ {d}]]
  /\ UNCHANGED <<listed, archive, stored, done, calls, changes>>

\* persist_prepared_extract replaces the rows and looks at nothing again.
Persist(c) ==
  /\ call[c].pc = "extract"
  /\ \E d \in Tdocs :
       /\ call[c].fresh[d] # "none"
       /\ stored' = [stored EXCEPT ![d] = call[c].fresh[d]]
       /\ call' = [call EXCEPT ![c].fresh[d] = "none", ![c].successes = @ \cup {d}]
  /\ UNCHANGED <<listed, archive, done, calls, changes>>

\* Ctrl-C, a killed process; a job also ends between two TDocs when it is cancelled.
BreakOff(c) ==
  /\ call[c].pc # "idle"
  /\ Answer(c, "broken off")
  /\ UNCHANGED <<listed, archive, stored, calls, changes>>

ExitOf(r) ==
  IF r.successes = {} /\ (r.failures # {} \/ r.skipped = {}) THEN "failed" ELSE "ok"

\* The counters and the hint that rows remain.
Report(c) ==
  /\ call[c].pc = "extract" /\ call[c].todo = {} /\ call[c].fresh = NoCall.fresh
  /\ LET r == call[c] IN
       done' = [done EXCEPT ![c] =
         [exit |-> IF c \in Jobs THEN "ok" ELSE ExitOf(r), force |-> r.force,
          truncated |-> Cardinality(r.chosen) = MaxBatch, chosen |-> r.chosen,
          successes |-> r.successes, skipped |-> r.skipped, failures |-> r.failures,
          newly |-> Cardinality(r.successes \ r.parsed),
          again |-> Cardinality(r.parsed \cap r.successes)]]
  /\ call' = [call EXCEPT ![c] = NoCall]
  /\ UNCHANGED <<listed, archive, stored, calls, changes>>

-----------------------------------------------------------------------------
\* A sync brings the rows; an archive is uploaded, replaced or withdrawn.
Sync ==
  /\ listed # Tdocs
  /\ listed' = Tdocs
  /\ UNCHANGED <<archive, stored, call, done, calls, changes>>

Change(d) ==
  /\ changes < MaxChanges /\ changes' = changes + 1
  /\ \E e \in Ends \ {archive[d]} : archive' = [archive EXCEPT ![d] = e]
  /\ UNCHANGED <<listed, stored, call, done, calls>>

Next ==
  \/ \E c \in Clients :
       \/ \E force \in BOOLEAN : SelectNothing(c, force) \/ Select(c, force)
       \/ Recheck(c) \/ Confirm(c) \/ Prepare(c) \/ Persist(c) \/ BreakOff(c) \/ Report(c)
  \/ Sync
  \/ \E d \in Tdocs : Change(d)

Spec == Init /\ [][Next]_vars

-----------------------------------------------------------------------------
\* Properties.

\* What was complete is not made incomplete again by a run without --force, however
\* long its prompt was open and whoever stored it meanwhile: it takes a forced run, or
\* two runs that are at the TDoc at once, each having found it incomplete.
Stores(c, d) == call[c].fresh[d] # "none" /\ stored'[d] = call[c].fresh[d]
CompleteLost ==
  \E d \in Tdocs : /\ Complete(d) /\ stored'[d] # "whole"
                   /\ \A c \in Clients : Stores(c, d) => ~ call[c].force /\ d \in call[c].alone
CompleteKept == [][~ CompleteLost]_vars

\* "the second run continues exactly where the first stopped" (docs/cli.md): of two
\* truncated runs without --force the second does not choose the same rows again
\* while others still wait.
SecondRunContinues ==
  [][\A c \in Clients :
       call[c].pc = "idle" /\ call'[c].chosen # {} /\ ~ call'[c].force
       /\ done[c].exit \in {"ok", "failed"} /\ ~ done[c].force /\ done[c].truncated
       /\ (\E d \in listed \ done[c].chosen : ~ Complete(d)) =>
         call'[c].chosen # done[c].chosen]_vars
=============================================================================
