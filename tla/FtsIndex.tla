------------------------------ MODULE FtsIndex -------------------------------
(* The full-text index of the TDocs (search_sql.py, search_service.py,
   tdoc_presentation_search_sql.py) beside the SQL rows it is derived from.
   List syncs and extractions change the rows; an extraction then runs a
   best-effort hook; one rebuild at a time walks the ids in batches, fresh,
   resumed or stale-only, and may die between any two of its transactions.

   One TDoc has one document, known by its content hash (0: none).  A document
   in `bad` cannot be decoded: its index transaction rolls back.  A TDoc in
   Slides has a presentation, whose chunks also carry the chunking policy.     *)
EXTENDS Integers, FiniteSetsExt

CONSTANTS N, Batch, MaxDate, MaxTitle, MaxHash, MaxEdits, MaxCrashes, Slides, NoRow

Ids == 1..N

VARIABLES
  tdocs,    \* id -> its row in tdocs: upload date (0: no row) and title
  content,  \* id -> content hash of its stored document
  bad,      \* ids whose stored document cannot be decoded
  policy,   \* the chunking fingerprint of the settings
  fts,      \* id -> the rows indexed for it, or NoRow
  stamp,    \* tdoc_search_meta.last_indexed_uploaded_date (0: none)
  cursor,   \* tdoc_search_meta.last_rebuild_last_tdoc_id (0: none)
  hooks,    \* ids whose extraction has not run its index hook yet
  run,      \* the rebuild that is running
  changed,  \* ids whose source changed since the last fresh start (history)
  full,     \* that fresh start took every TDoc, not the stale ones (history)
  edits, crashes

sql == <<tdocs, content, bad, policy>>
vars == <<sql, fts, stamp, cursor, hooks, run, changed, full, edits, crashes>>

Stored == {t \in Ids : tdocs[t].date > 0}
Latest == Max({tdocs[t].date : t \in Ids})

----------------------------------------------------------------------------
(* What an index transaction writes for a TDoc, and when it is stale.        *)

SlidePolicy(t) == IF t \in Slides /\ content[t] # 0 THEN policy ELSE 0
IndexText(t) == [title |-> tdocs[t].title, doc |-> content[t], policy |-> SlidePolicy(t)]

\* The freshness query: date past the stamp, metadata row missing, a document
\* row that differs, presentation chunks of another policy.
PresentationStale(t) == fts[t] # NoRow /\ fts[t].policy # SlidePolicy(t)
IsStale(t) == /\ t \in Stored
              /\ \/ tdocs[t].date > stamp
                 \/ fts[t] = NoRow
                 \/ fts[t] # NoRow /\ fts[t].doc # content[t]
                 \/ PresentationStale(t)
StaleIds == {t \in Ids : IsStale(t)}

\* One transaction for the ids; the fallback after a failed one indexes each
\* by itself, so that only the undecodable ones keep their old rows.
Written(ids) == ids \cap (Stored \ bad)
UpsertMany(ids) ==
  /\ fts' = [t \in Ids |-> IF t \in Written(ids) THEN IndexText(t) ELSE fts[t]]
  /\ stamp' = IF Written(ids) = {} THEN stamp ELSE tdocs[Max(Written(ids))].date

----------------------------------------------------------------------------
(* Changes of the source rows.                                               *)

Edit(t) == /\ edits < MaxEdits /\ edits' = edits + 1
           /\ changed' = changed \cup {t}
           /\ UNCHANGED <<fts, stamp, cursor, run, full, crashes>>

\* A list sync inserts a TDoc or rewrites its row; no index hook follows.
SyncRow(t) ==
  /\ Edit(t)
  /\ \E d \in 1..MaxDate, s \in 1..MaxTitle :
       /\ t \in Stored => d = tdocs[t].date
       /\ tdocs' = [tdocs EXCEPT ![t] = [date |-> d, title |-> s]]
  /\ UNCHANGED <<content, bad, policy, hooks>>

\* replace_cr_bundle / replace_family_bundle commit; the hook is still to run.
Persist(t) ==
  /\ Edit(t) /\ t \in Stored
  /\ \E h \in 1..MaxHash \ {content[t]} : content' = [content EXCEPT ![t] = h]
  /\ bad' = bad \ {t}
  /\ hooks' = hooks \cup {t}
  /\ UNCHANGED <<tdocs, policy>>

\* The stored bytes of a document are damaged.
Damage(t) == /\ Edit(t) /\ content[t] # 0
             /\ bad' = bad \cup {t}
             /\ UNCHANGED <<tdocs, content, policy, hooks>>

\* The operator changes the chunk settings.
Rechunk == /\ edits < MaxEdits /\ edits' = edits + 1 /\ Slides # {}
           /\ policy' = 3 - policy
           /\ changed' = changed \cup Slides
           /\ UNCHANGED <<tdocs, content, bad, fts, stamp, cursor, hooks, run, full, crashes>>

\* _index_after_parse -> upsert_for_tdoc -> upsert, or nothing: the setting is
\* off, the index is missing, the write failed or the process died.
Hook(t) ==
  /\ t \in hooks /\ hooks' = hooks \ {t}
  /\ UpsertMany({t})
  /\ UNCHANGED <<sql, cursor, run, changed, full, edits, crashes>>
HookSkipped(t) == /\ t \in hooks /\ hooks' = hooks \ {t}
                  /\ UNCHANGED <<sql, fts, stamp, cursor, run, changed, full, edits, crashes>>

----------------------------------------------------------------------------
(* SearchService.rebuild.                                                    *)

Idle == [pc |-> "idle", stale |-> FALSE, last |-> 0, todo |-> {}, batch |-> {}]

\* The cursor is read (resume) or cleared (fresh) before anything is listed.
StartRun(resume, stale) ==
  /\ run.pc = "idle"
  /\ cursor' = IF resume THEN cursor ELSE 0
  /\ run' = [Idle EXCEPT !.pc = IF stale THEN "list" ELSE "batch", !.stale = stale,
                         !.last = IF resume THEN cursor ELSE 0]
  /\ changed' = IF resume THEN changed ELSE {}
  /\ full' = IF resume THEN full /\ ~stale ELSE ~stale
  /\ UNCHANGED <<sql, fts, stamp, hooks, edits, crashes>>

\* A stale-only run lists what is stale once, in one snapshot.
ListStale ==
  /\ run.pc = "list"
  /\ run' = [run EXCEPT !.pc = "batch", !.todo = {t \in StaleIds : t > run.last}]
  /\ UNCHANGED <<sql, fts, stamp, cursor, hooks, changed, full, edits, crashes>>

\* The ids a run still has before it: the next page of tdocs, or of the list.
Remaining == IF run.stale THEN run.todo ELSE {t \in Stored : t > run.last}
FirstOf(ids) == {t \in ids : Cardinality({u \in ids : u < t}) < Batch}

\* The cursor is moved before the batch is written.
TakeBatchCursorFirst ==
  /\ run.pc = "batch"
  /\ run' = IF Remaining = {} THEN [run EXCEPT !.pc = "stamp"]
            ELSE [run EXCEPT !.pc = "write", !.batch = FirstOf(Remaining),
                             !.todo = run.todo \ FirstOf(Remaining)]
  /\ cursor' = IF Remaining = {} THEN cursor ELSE Max(FirstOf(Remaining))
  /\ UNCHANGED <<sql, fts, stamp, hooks, changed, full, edits, crashes>>

TakeBatch ==
  /\ run.pc = "batch"
  /\ run' = IF Remaining = {} THEN [run EXCEPT !.pc = "stamp"]
            ELSE [run EXCEPT !.pc = "write", !.batch = FirstOf(Remaining),
                             !.todo = run.todo \ FirstOf(Remaining)]
  /\ UNCHANGED <<sql, fts, stamp, cursor, hooks, changed, full, edits, crashes>>

WriteBatch ==
  /\ run.pc = "write"
  /\ UpsertMany(run.batch)
  /\ run' = [run EXCEPT !.pc = "cursor"]
  /\ UNCHANGED <<sql, cursor, hooks, changed, full, edits, crashes>>

SetCursor ==
  /\ run.pc = "cursor"
  /\ cursor' = Max(run.batch)
  /\ run' = [run EXCEPT !.pc = "batch", !.last = Max(run.batch), !.batch = {}]
  /\ UNCHANGED <<sql, fts, stamp, hooks, changed, full, edits, crashes>>

EndRunUntouched == run.pc = "stamp" /\ run' = Idle
  /\ UNCHANGED <<sql, fts, stamp, cursor, hooks, changed, full, edits, crashes>>

\* _touch_rebuild_at, _touch_indexed_uploaded_date.
EndRun ==
  /\ run.pc = "stamp"
  /\ stamp' = IF Latest = 0 THEN stamp ELSE Latest
  /\ run' = Idle
  /\ UNCHANGED <<sql, fts, cursor, hooks, changed, full, edits, crashes>>

\* The process of the run dies, or its caller drops the generator.
Crash ==
  /\ run.pc # "idle" /\ crashes < MaxCrashes
  /\ crashes' = crashes + 1
  /\ run' = Idle
  /\ UNCHANGED <<sql, fts, stamp, cursor, hooks, changed, full, edits>>

----------------------------------------------------------------------------
Init ==
  /\ tdocs = [t \in Ids |-> IF t = N THEN [date |-> 0, title |-> 0]
                                     ELSE [date |-> 1, title |-> 1]]
  /\ content = [t \in Ids |-> 0] /\ bad = {} /\ policy = 1
  /\ fts = [t \in Ids |-> NoRow] /\ stamp = 0 /\ cursor = 0
  /\ hooks = {} /\ run = Idle /\ changed = Ids /\ full = FALSE
  /\ edits = 0 /\ crashes = 0

Sources == Rechunk \/ \E t \in Ids : SyncRow(t) \/ Persist(t) \/ Damage(t)
Rebuild == \/ \E resume, stale \in BOOLEAN : StartRun(resume, stale)
           \/ ListStale \/ TakeBatch \/ WriteBatch \/ SetCursor \/ EndRun
Next == Sources \/ Rebuild \/ Crash \/ \E t \in Ids : Hook(t) \/ HookSkipped(t)
Spec == Init /\ [][Next]_vars

----------------------------------------------------------------------------
(* Properties.                                                               *)

\* A run that ends has covered its corpus: every TDoc whose rows did not change
\* since the last fresh start (through crashes, resumptions, hooks and
\* neighbours that cannot be decoded) is indexed with its stored document and,
\* when no stale-only pass took part, with its current title.
Covered(t) == /\ fts'[t] # NoRow /\ fts'[t].doc = content[t]
              /\ full => fts'[t] = IndexText(t)
CoversStep == EndRun => \A t \in Stored \ (changed \cup bad) : Covered(t)
RebuildCovers == [][CoversStep]_vars

\* A run that ends on a source that did not change reads as fresh, whatever
\* the dates of the TDocs its last batch and the hooks stamped.
FreshStep == EndRun /\ changed = {} /\ bad = {} => StaleIds' = {}
RunEndsFresh == [][FreshStep]_vars
=============================================================================
