----------------------------- MODULE SpecIndex -----------------------------
(* The full-text and the vector index of specification documents
   (spec_doc_search_service.py, spec_doc_semantic_service.py and their
   repositories).  A parse indexes its version in two hooks that may fail
   unnoticed; a rebuild walks the versions in batches behind a cursor, fresh,
   resumed or for stale versions only, next to parses of another process.  The
   vector rebuild remembers the versions it could not embed.  The two indexes
   share nothing but the rows they read, so a behaviour is about one of them.

   A pair is a version of a specification, numbered in the order of the columns
   (spec_id, version); Key is its rank as the cursor text spec_id@version.  A
   tick stands for a parse: for its chunks, and for its parsed_at.            *)
EXTENDS Integers, FiniteSetsExt, Functions

CONSTANTS Pairs, Key, Batch, MaxTick, MaxRuns, HooksFail

VARIABLES
  kind,      \* the index: "fts" or "vec"
  chunks,    \* pair -> tick of its chunks, 0 when there is no row for it
  parsedAt,  \* pair -> parsed_at, 0 when it is not set
  parse,     \* the steps that are left of a parse: a pair and "mark" or "hook"
  indexed,   \* pair -> tick of the chunks that are indexed, 0 when none are
  table,     \* does the index have its table
  stamp,     \* last_indexed_parsed_at
  cursor,    \* the resume cursor
  failed,    \* failed_pair markers of the vector index
  run,       \* the rebuild
  tick, runs,
  touched,   \* pairs parsed since the last fresh rebuild began (history)
  lost,      \* pairs whose full-text failure was only logged since then (history)
  whole      \* the last fresh rebuild was for all pairs, and so the runs that
             \* resumed it (history)

index == <<indexed, table, stamp, cursor, failed>>
history == <<touched, lost, whole>>
vars == <<kind, chunks, parsedAt, parse, index, run, tick, runs, history>>

NoParse == [pair |-> 0, step |-> "none"]
Idle == [pc |-> "idle", stale |-> FALSE, section |-> "normal", last |-> 0, failing |-> 0,
         after |-> 0, cutoff |-> 0, todo |-> {}, end |-> 0, text |-> 0, done |-> {},
         marked |-> {}]
FirstSection == IF kind = "vec" THEN "failed" ELSE "normal"

----------------------------------------------------------------------------
(* Selection.                                                                *)

Later(a, b) == IF a > b THEN a ELSE b
\* The full-text index knows every row of spec_doc_sources, the vector index
\* those that are parsed.
Known == {p \in Pairs : IF kind = "fts" THEN chunks[p] # 0 ELSE parsedAt[p] # 0}

\* The SQL of rebuild_batch: pairs of failed rebuilds first, whatever their
\* parsed_at, then the others.
Selected(r) ==
  {p \in Known :
     IF r.section = "failed" THEN Key[p] > r.failing /\ p \in failed
     ELSE /\ Key[p] > r.last /\ p \notin failed
          /\ r.stale => parsedAt[p] > r.cutoff}

\* ORDER BY spec_id, version LIMIT batch.
Page(S) == {p \in S : Cardinality({q \in S : q < p}) < Batch}

----------------------------------------------------------------------------
(* A parse, of one process.                                                  *)

Reparse(p) ==
  /\ tick < MaxTick /\ parse = NoParse
  /\ tick' = tick + 1
  /\ chunks' = [chunks EXCEPT ![p] = tick'] /\ parsedAt' = [parsedAt EXCEPT ![p] = 0]
  /\ parse' = [pair |-> p, step |-> "mark"]
  /\ touched' = touched \cup {p}
  /\ UNCHANGED <<kind, index, run, runs, lost, whole>>

MarkParsed ==
  /\ parse.step = "mark"
  /\ parsedAt' = [parsedAt EXCEPT ![parse.pair] = chunks[parse.pair]]
  /\ parse' = [parse EXCEPT !.step = "hook"]
  /\ touched' = touched \cup {parse.pair}
  /\ UNCHANGED <<kind, chunks, index, run, tick, runs, lost, whole>>

\* An upsert stamps the parsed_at that it finds: the full-text index the last,
\* the vector index the latest.
StampOf(p) == IF kind = "vec" THEN Later(stamp, parsedAt[p])
              ELSE IF parsedAt[p] = 0 THEN stamp ELSE parsedAt[p]

\* upsert_for_version, index_for_version.
Hook ==
  /\ parse.step = "hook" /\ table
  /\ indexed' = [indexed EXCEPT ![parse.pair] = chunks[parse.pair]]
  /\ stamp' = StampOf(parse.pair)
  /\ parse' = NoParse
  /\ UNCHANGED <<kind, chunks, parsedAt, table, cursor, failed, run, tick, runs, history>>

\* The hook is switched off, it fails, or the process dies before it.
HookSkipped ==
  /\ parse.step = "hook" /\ (HooksFail \/ ~table)
  /\ parse' = NoParse
  /\ UNCHANGED <<kind, chunks, parsedAt, index, run, tick, runs, history>>

----------------------------------------------------------------------------
(* A rebuild.                                                                *)

\* A fresh run clears the cursor; the vector one also drops the table, the
\* markers and the stamp, unless it is for stale pairs and the table fits.
StartFresh(stale) ==
  LET reset == kind = "vec" /\ ~(stale /\ table)
      all == reset \/ ~stale
  IN /\ run.pc = "idle" /\ runs < MaxRuns
     /\ cursor' = 0
     /\ table' = TRUE
     /\ stamp' = IF reset THEN 0 ELSE stamp
     /\ failed' = IF reset THEN {} ELSE failed
     /\ indexed' = IF reset THEN [p \in Pairs |-> 0] ELSE indexed
     /\ run' = [Idle EXCEPT !.pc = "batch", !.stale = ~all, !.section = FirstSection,
                            !.cutoff = IF all THEN 0 ELSE stamp, !.marked = failed]
     /\ touched' = {} /\ lost' = {} /\ whole' = all
     /\ runs' = runs + 1
     /\ UNCHANGED <<kind, chunks, parsedAt, parse, tick>>

StartResumed(stale) ==
  /\ run.pc = "idle" /\ runs < MaxRuns /\ table
  /\ run' = [Idle EXCEPT !.pc = "batch", !.stale = stale, !.section = FirstSection,
                         !.last = cursor, !.after = cursor,
                         !.cutoff = IF stale THEN stamp ELSE 0, !.marked = failed]
  /\ whole' = (whole /\ ~stale)
  /\ runs' = runs + 1
  /\ UNCHANGED <<kind, chunks, parsedAt, parse, index, tick, touched, lost>>

\* The next page; the failed section has a position of its own.
NextBatch ==
  /\ run.pc = "batch"
  /\ LET page == Page(Selected(run))
     IN run' = IF page # {} THEN [run EXCEPT !.pc = "write", !.todo = page, !.end = Max(page)]
               ELSE IF run.section = "failed" THEN [run EXCEPT !.section = "normal"]
               ELSE [run EXCEPT !.pc = "end"]
  /\ UNCHANGED <<kind, chunks, parsedAt, parse, index, tick, runs, history>>

\* upsert_many_versions, one transaction; when it fails each pair is tried alone
\* and a failure is logged.
WriteFts ==
  /\ run.pc = "write" /\ kind = "fts"
  /\ \E bad \in {{}} \cup {{p} : p \in run.todo} :
       LET good == run.todo \ bad
           dated == {p \in good : parsedAt[p] # 0}
       IN /\ indexed' = [p \in Pairs |-> IF p \in good THEN chunks[p] ELSE indexed[p]]
          /\ stamp' = IF dated = {} THEN stamp ELSE parsedAt[Max(dated)]
          /\ lost' = lost \cup bad
  /\ run' = [run EXCEPT !.pc = "cursor", !.todo = {}]
  /\ UNCHANGED <<kind, chunks, parsedAt, parse, table, cursor, failed, tick, runs, touched, whole>>

\* index_for_version reads the chunks of one pair, embeds them, and writes.
Current == Min(run.todo)
ReadVec ==
  /\ run.pc = "write" /\ kind = "vec"
  /\ run' = [run EXCEPT !.pc = "embed", !.text = chunks[Current]]
  /\ UNCHANGED <<kind, chunks, parsedAt, parse, index, tick, runs, history>>

NextPair == [run EXCEPT !.pc = IF run.todo = {Current} THEN "cursor" ELSE "write",
                        !.todo = @ \ {Current}, !.text = 0]
WriteVec ==
  /\ run.pc = "embed"
  /\ indexed' = [indexed EXCEPT ![Current] = run.text]
  /\ stamp' = StampOf(Current)
  /\ run' = [NextPair EXCEPT !.done = @ \cup {Current}]
  /\ UNCHANGED <<kind, chunks, parsedAt, parse, table, cursor, failed, tick, runs, history>>

\* record_rebuild_failure, when the embedding or the upsert fails.
Fail(p) == failed \cup {p}
FailVec ==
  /\ run.pc = "embed"
  /\ failed' = Fail(Current)
  /\ run' = NextPair
  /\ UNCHANGED <<kind, chunks, parsedAt, parse, indexed, table, stamp, cursor, tick, runs, history>>

\* The cursor moves behind the batch; that of a resumed vector run never back.
SetCursor ==
  /\ run.pc = "cursor"
  /\ LET k == Key[run.end] IN
       /\ cursor' = IF kind = "fts" \/ run.after = 0 \/ k > run.after THEN k ELSE cursor
       /\ run' = IF run.section = "failed" THEN [run EXCEPT !.pc = "batch", !.failing = k]
                 ELSE [run EXCEPT !.pc = "batch", !.last = k]
  /\ UNCHANGED <<kind, chunks, parsedAt, parse, indexed, table, stamp, failed, tick, runs, history>>

\* The pairs that were embedded lose their markers when the run ends, one by one.
ClearOne ==
  /\ run.pc = "end"
  /\ \E p \in run.done \cap failed : failed' = failed \ {p}
  /\ UNCHANGED <<kind, chunks, parsedAt, parse, indexed, table, stamp, cursor, run, tick, runs, history>>
End ==
  /\ run.pc = "end" /\ run.done \cap failed = {}
  /\ run' = [Idle EXCEPT !.pc = "ended", !.marked = run.marked]
  /\ UNCHANGED <<kind, chunks, parsedAt, parse, index, tick, runs, history>>
Rest ==
  /\ run.pc = "ended" /\ run' = Idle /\ whole' = FALSE
  /\ UNCHANGED <<kind, chunks, parsedAt, parse, index, tick, runs, touched, lost>>

\* The rebuild is interrupted or its process dies.
BreakOff ==
  /\ run.pc \notin {"idle", "ended"}
  /\ run' = Idle
  /\ UNCHANGED <<kind, chunks, parsedAt, parse, index, tick, runs, history>>

\* Every pair was parsed once, in some order, with the hooks switched off.
Init ==
  /\ kind \in {"fts", "vec"}
  /\ chunks \in {f \in [Pairs -> 1..Cardinality(Pairs)] : IsInjective(f)}
  /\ parsedAt = chunks /\ parse = NoParse
  /\ indexed = [p \in Pairs |-> 0] /\ table = (kind = "fts")
  /\ stamp = 0 /\ cursor = 0 /\ failed = {}
  /\ run = Idle /\ tick = Cardinality(Pairs) /\ runs = 0
  /\ touched = {} /\ lost = {} /\ whole = FALSE

Next ==
  \/ (\E p \in Pairs : Reparse(p)) \/ MarkParsed \/ Hook \/ HookSkipped
  \/ \E stale \in BOOLEAN : StartFresh(stale) \/ StartResumed(stale)
  \/ NextBatch \/ WriteFts \/ ReadVec \/ WriteVec \/ FailVec \/ SetCursor
  \/ ClearOne \/ End \/ Rest \/ BreakOff
Spec == Init /\ [][Next]_vars

----------------------------------------------------------------------------
(* Properties.                                                               *)

\* A rebuild of all pairs that runs to its end, at once or resumed any number of
\* times, leaves every pair that was not parsed meanwhile with its current
\* chunks in the index, or its failure recorded; and no vector rebuild
\* whatsoever ends with a pair whose earlier failure is forgotten.
Covered(p) == p \in Known => indexed[p] = chunks[p] \/ p \in lost \cup failed
RebuildCovers ==
  run.pc = "ended" => \A p \in Pairs \ touched : whole \/ p \in run.marked => Covered(p)
=============================================================================
