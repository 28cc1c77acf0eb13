----------------------------- MODULE Migration -----------------------------
(***************************************************************************)
(* create_schema (storage/db/migrate.py): what `db init` and every sync    *)
(* command run over a database an older release may have left behind.      *)
(*                                                                         *)
(* sqlite3's legacy transaction control opens no transaction for DDL or a  *)
(* read (session.py says so), so a DDL statement outside a DML transaction *)
(* is durable by itself and is a step of its own; the DML of one           *)
(* engine.begin() block is one step.  How many rows a batch of a backfill  *)
(* takes is left open.  FTS5 and sqlite-vec are there (without them their  *)
(* steps return at once).  A process may die between two steps             *)
(* and the statements of several processes interleave.                     *)
(***************************************************************************)
EXTENDS Integers

CONSTANTS
  Procs,        \* processes that run create_schema
  Columns,      \* columns to add or drop and indexes to add, of older releases
  Tolerant,     \* those for which finding it done by another is no error
  Optional,     \* those whose alteration may fail without anybody hearing of it
  CountRows,    \* stored content rows 1 .. CountRows, in keyset order
  Undecodable,  \* those whose payload does not decode to text
  ChunkRows,    \* stored spec chunks 1 .. ChunkRows, in keyset order
  Docs,         \* documents of the presentation index
  MaxRuns,      \* bound: runs that are started
  MaxCrashes    \* bound: processes that die within a run

VARIABLES
  legacy,    \* rows of tdoc_cr_details; None: no such table
  cover,     \* rows of tdoc_cr_cover_page; None: no such table
  columns,   \* those of Columns that are done
  counted,   \* content rows with a token_count
  blobs,     \* chunk rows whose text is compressed
  slides,    \* tdoc_presentation_search: its layout and indexed documents
  rowids,    \* documents in tdoc_presentation_search_rowids
  ledger,    \* documents in tdoc_presentation_search_ledger
  vectors,   \* vec_tdoc_embeddings: its layout and whether it holds vectors
  stamps,    \* vec_meta holds rebuild stamps and a resume cursor
  run,       \* what each process is at
  runs, crashes

vars == <<legacy, cover, columns, counted, blobs, slides, rowids, ledger, vectors,
          stamps, run, runs, crashes>>
mainVars == <<legacy, cover, columns, counted>>
slideVars == <<slides, rowids, ledger>>
vecVars == <<vectors, stamps>>
bounds == <<runs, crashes>>

None == "none"
Layout == {None, "old", "new"}
Pcs == {"idle", "rename", "drop", "move", "columns", "add", "count", "tables", "slides", "slidesNew",
        "reconcile", "vectors", "vectorsNew", "unstamp", "chunks", "done", "failed"}
Idle == [pc |-> "idle", todo |-> {}, after |-> 0, dropped |-> FALSE]

TypeOK ==
  /\ legacy \in {None, "rows"} /\ cover \in {None, "empty", "rows"}
  /\ columns \subseteq Columns
  /\ counted \subseteq 1 .. CountRows /\ blobs \subseteq 1 .. ChunkRows
  /\ slides \in [layout : Layout, docs : SUBSET Docs]
  /\ rowids \subseteq Docs /\ ledger \subseteq Docs
  /\ vectors \in [layout : Layout, filled : BOOLEAN] /\ stamps \in BOOLEAN
  /\ run \in [Procs -> [pc : Pcs, todo : SUBSET Columns, after : Nat, dropped : BOOLEAN]]
  /\ runs \in 0 .. MaxRuns /\ crashes \in 0 .. MaxCrashes

\* A database an older release left in order: the cover pages are in one table,
\* and ledgers and stamps describe what is indexed.
Init ==
  /\ \/ legacy = "rows" /\ cover = None
     \/ legacy = None /\ cover \in {"empty", "rows"}
  /\ columns \in SUBSET Columns
  /\ counted = {} /\ blobs = {}
  /\ \E l \in Layout, D \in SUBSET Docs :
       /\ l = None => D = {}
       /\ slides = [layout |-> l, docs |-> D] /\ rowids = D /\ ledger = D
  /\ \E l \in Layout, f \in BOOLEAN :
       /\ l = None => ~ f
       /\ vectors = [layout |-> l, filled |-> f] /\ stamps = f
  /\ run = [p \in Procs |-> Idle]
  /\ runs = 0 /\ crashes = 0

At(p, pc) == run[p].pc = pc
Goto(p, pc) == run' = [run EXCEPT ![p].pc = pc]

-----------------------------------------------------------------------------
\* create_schema("all") is called.
Start(p) ==
  /\ run[p].pc \in {"idle", "done", "failed"} /\ runs < MaxRuns
  /\ runs' = runs + 1
  /\ run' = [run EXCEPT ![p] = [Idle EXCEPT !.pc = "rename"]]
  /\ UNCHANGED <<mainVars, blobs, slideVars, vecVars, crashes>>

\* _migrate_rename_tdoc_cr_details looks for the legacy table ...
LookForLegacy(p) ==
  /\ At(p, "rename")
  /\ Goto(p, IF legacy = None THEN "columns" ELSE "drop")
  /\ UNCHANGED <<mainVars, blobs, slideVars, vecVars, bounds>>

\* ... makes room for it ...
DropCover(p) ==
  /\ At(p, "drop")
  /\ cover' = None
  /\ Goto(p, "move")
  /\ UNCHANGED <<legacy, columns, counted, blobs, slideVars, vecVars, bounds>>

\* Mutant: the rows are copied to nowhere: the legacy table is dropped instead.
RenameDrops(p) ==
  /\ At(p, "move")
  /\ legacy' = None /\ cover' = "empty"
  /\ Goto(p, "columns")
  /\ UNCHANGED <<columns, counted, blobs, slideVars, vecVars, bounds>>

\* ... and renames it; another process may have done so.
Rename(p) ==
  /\ At(p, "move")
  /\ IF legacy = None
       THEN Goto(p, "failed") /\ UNCHANGED <<legacy, cover>>
       ELSE /\ Goto(p, "columns")
            /\ cover' = legacy /\ legacy' = None
  /\ UNCHANGED <<columns, counted, blobs, slideVars, vecVars, bounds>>

\* The _migrate_* steps that add or drop columns read which are there (a table
\* that is missing is left to create_all) ...
ReadColumns(p) ==
  /\ At(p, "columns")
  /\ run' = [run EXCEPT ![p].pc = "add", ![p].todo = Columns \ columns]
  /\ UNCHANGED <<mainVars, blobs, slideVars, vecVars, bounds>>

\* ... and alter one by one; a change another process made first is an error, which
\* ends the run.  An older sqlite cannot drop spec_versions.comment: every exception
\* of that one statement is swallowed, and the column stays.
AlterColumn(p, c) ==
  /\ At(p, "add") /\ c \in run[p].todo
  /\ \/ /\ c \in columns \ Tolerant
        /\ Goto(p, "failed") /\ UNCHANGED columns
     \/ /\ c \notin columns \ Tolerant
        /\ columns' = columns \cup {c} \/ (c \in Optional /\ UNCHANGED columns)
        /\ run' = [run EXCEPT ![p].todo = @ \ {c}]
  /\ UNCHANGED <<legacy, cover, counted, blobs, slideVars, vecVars, bounds>>

ColumnsAdded(p) ==
  /\ At(p, "add") /\ run[p].todo = {}
  /\ run' = [run EXCEPT ![p].pc = "count", ![p].after = 0]
  /\ UNCHANGED <<mainVars, blobs, slideVars, vecVars, bounds>>

-----------------------------------------------------------------------------
\* _backfill_content_token_count: one transaction for each batch of the rows after
\* the cursor; a row that does not decode stays NULL and the cursor goes on past it.
CountBatch(p) ==
  LET todo == {r \in (1 .. CountRows) \ counted : r > run[p].after} IN
  /\ At(p, "count")
  /\ \/ /\ todo = {}
        /\ Goto(p, "tables") /\ UNCHANGED counted
     \/ \E last \in todo :
          /\ counted' = counted \cup ({r \in todo : r <= last} \ Undecodable)
          /\ run' = [run EXCEPT ![p].after = last]
  /\ UNCHANGED <<legacy, cover, columns, blobs, slideVars, vecVars, bounds>>

\* Base.metadata.create_all: tables that are missing, with all their columns.
CreateAll(p) ==
  /\ At(p, "tables")
  /\ cover' = IF cover = None THEN "empty" ELSE cover
  /\ Goto(p, "slides")
  /\ UNCHANGED <<legacy, columns, counted, blobs, slideVars, vecVars, bounds>>

-----------------------------------------------------------------------------
\* _create_search_schema: the layout is looked at, an old table is dropped ...
DropSlides(p) ==
  /\ At(p, "slides")
  /\ slides' = IF slides.layout = "old" THEN [layout |-> None, docs |-> {}] ELSE slides
  /\ run' = [run EXCEPT ![p].pc = "slidesNew", ![p].dropped = slides.layout # "new"]
  /\ UNCHANGED <<mainVars, blobs, rowids, ledger, vecVars, bounds>>

\* ... created ...
CreateSlides(p) ==
  /\ At(p, "slidesNew")
  /\ slides' = IF slides.layout = None THEN [slides EXCEPT !.layout = "new"] ELSE slides
  /\ Goto(p, "reconcile")
  /\ UNCHANGED <<mainVars, blobs, rowids, ledger, vecVars, bounds>>

\* Mutant: a table that exists is taken for one whose map and ledger are right.
ReconcileNew(p) ==
  /\ At(p, "reconcile")
  /\ rowids' = IF run[p].dropped THEN {} ELSE rowids
  /\ ledger' = IF run[p].dropped THEN {} ELSE ledger
  /\ run' = [run EXCEPT ![p].pc = "vectors", ![p].dropped = FALSE]
  /\ UNCHANGED <<mainVars, blobs, slides, vecVars, bounds>>

\* ... and, in one transaction, the map is brought in line with the table and
\* ledgers that promise more rows than the map has are dropped.
Reconcile(p) ==
  /\ At(p, "reconcile")
  /\ rowids' = slides.docs
  /\ ledger' = IF run[p].dropped THEN {} ELSE ledger \cap slides.docs
  /\ run' = [run EXCEPT ![p].pc = "vectors", ![p].dropped = FALSE]
  /\ UNCHANGED <<mainVars, blobs, slides, vecVars, bounds>>

\* _create_vector_schema: a layout without the metadata columns is dropped ...
DropVectors(p) ==
  /\ At(p, "vectors")
  /\ vectors' = IF vectors.layout = "old" THEN [layout |-> None, filled |-> FALSE] ELSE vectors
  /\ run' = [run EXCEPT ![p].pc = "vectorsNew", ![p].dropped = vectors.layout = "old"]
  /\ UNCHANGED <<mainVars, blobs, slideVars, stamps, bounds>>

\* ... created anew ...
CreateVectors(p) ==
  /\ At(p, "vectorsNew")
  /\ vectors' = IF vectors.layout = None THEN [vectors EXCEPT !.layout = "new"] ELSE vectors
  /\ Goto(p, "unstamp")
  /\ UNCHANGED <<mainVars, blobs, slideVars, stamps, bounds>>

\* ... and, in one transaction, what described the dropped rows is deleted.
Unstamp(p) ==
  /\ At(p, "unstamp")
  /\ stamps' = (stamps /\ ~ run[p].dropped)
  /\ run' = [run EXCEPT ![p].pc = "chunks", ![p].dropped = FALSE, ![p].after = 0]
  /\ UNCHANGED <<mainVars, blobs, slideVars, vectors, bounds>>

-----------------------------------------------------------------------------
\* _migrate_spec_doc_chunk_text_blob: plain rows are compressed batch by batch.
CompressBatch(p) ==
  LET todo == {r \in (1 .. ChunkRows) \ blobs : r > run[p].after} IN
  /\ At(p, "chunks")
  /\ \/ /\ todo = {}
        /\ Goto(p, "done") /\ UNCHANGED blobs
     \/ \E last \in todo :
          /\ blobs' = blobs \cup {r \in todo : r <= last}
          /\ run' = [run EXCEPT ![p].after = last]
  /\ UNCHANGED <<mainVars, slideVars, vecVars, bounds>>

\* The process dies between two statements.
Crash(p) ==
  /\ run[p].pc \notin {"idle", "done", "failed"} /\ crashes < MaxCrashes
  /\ crashes' = crashes + 1
  /\ run' = [run EXCEPT ![p] = Idle]
  /\ UNCHANGED <<mainVars, blobs, slideVars, vecVars, runs>>

Step(p) ==
  \/ LookForLegacy(p) \/ DropCover(p) \/ Rename(p)
  \/ ReadColumns(p) \/ (\E c \in Columns : AlterColumn(p, c)) \/ ColumnsAdded(p)
  \/ CountBatch(p) \/ CreateAll(p)
  \/ DropSlides(p) \/ CreateSlides(p) \/ Reconcile(p)
  \/ DropVectors(p) \/ CreateVectors(p) \/ Unstamp(p) \/ CompressBatch(p)

Next == \E p \in Procs : Start(p) \/ Step(p) \/ Crash(p)

Spec == Init /\ [][Next]_vars

\* A run that is not killed goes on to its end.

-----------------------------------------------------------------------------
\* Properties.

\* What a database is like after an upgrade: one table of cover pages, every
\* column as the release has it but one that only an older sqlite could not drop,
\* every decodable row counted, every chunk compressed, and an index whose map and
\* ledger promise exactly what the table holds.
Current ==
  /\ legacy = None /\ cover # None
  /\ Columns \ Optional \subseteq columns
  /\ (1 .. CountRows) \ Undecodable \subseteq counted
  /\ blobs = 1 .. ChunkRows
  /\ slides.layout = "new" /\ rowids = slides.docs /\ ledger \subseteq rowids
  /\ vectors.layout = "new"

\* One process: a run that reaches its end leaves the database current, whatever
\* statement earlier runs of create_schema died after.
EndsCurrent == \A p \in Procs : At(p, "done") => Current

\* One process: through an interrupted rename the cover pages that older releases
\* parsed are never gone from both tables.
CoverPagesLost == {legacy, cover} \cap {"rows"} # {} /\ {legacy', cover'} \cap {"rows"} = {}
CoverPagesKept == [][~ CoverPagesLost]_vars
=============================================================================
