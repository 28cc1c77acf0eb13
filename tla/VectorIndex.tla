----------------------------- MODULE VectorIndex -----------------------------
(* The vector index of the TDocs (vector_sql.py, semantic_search_service.py).
   Unlike the text index, what is embedded is read in one transaction and
   written in another, with a call to a remote embedder between them, so that a
   hook, a rebuild and a second extraction of the same TDoc may interleave.

   A TDoc has a text to embed and, when its content hash is not 0, a document.
   The table belongs to one embedding model; the operator may change models.   *)
EXTENDS Integers, FiniteSetsExt

CONSTANTS N, Batch, MaxDate, MaxHash, Models, MaxEdits, MaxCrashes, NoRow

Ids == 1..N

VARIABLES
  date,      \* id -> tdocs.uploaded_date (0: no such row yet)
  content,   \* id -> content hash of its stored document (0: none)
  model,     \* the embedder's model
  table,     \* vec_meta.embedding_model, the model of the vec0 table
  vec,       \* id -> the date, the content and the model of its chunks, or NoRow
  stamp,     \* vec_meta.last_indexed_uploaded_date (0: no such key)
  snap,      \* vec_meta.last_rebuild_snapshot_uploaded_date
  cursor,    \* vec_meta.last_rebuild_last_tdoc_id (0: no such key)
  hook,      \* id -> what its extraction still has to do for the index
  run,       \* the rebuild that is running
  news,      \* ids uploaded with the newest date since the last snapshot (history)
  edits, crashes

source == <<date, content, model>>
index == <<table, vec, stamp, snap, cursor>>
vars == <<source, index, hook, run, news, edits, crashes>>

Stored == {t \in Ids : date[t] > 0}
Latest == Max({date[t] : t \in Ids})

----------------------------------------------------------------------------
(* Freshness.                                                                *)

\* The chunks differ from the stored document, or the copied date from the row.
ContentStale(t) ==
  /\ t \in Stored
  /\ \/ content[t] # (IF vec[t] = NoRow THEN 0 ELSE vec[t].doc)
     \/ vec[t] # NoRow /\ vec[t].date # date[t]

\* _stale_tdoc_ids: what a stale-only run takes.  No stamp compares as NULL.
StaleIds == {t \in Stored : ContentStale(t) \/ (stamp # 0 /\ date[t] >= stamp)}

DateStale == \/ Latest > stamp
             \/ stamp # 0 /\ \E t \in Stored : date[t] = stamp /\ vec[t] = NoRow
StatusStale == DateStale \/ \E t \in Ids : ContentStale(t)

----------------------------------------------------------------------------
(* Changes of the source rows.                                               *)

Edit == edits < MaxEdits /\ edits' = edits + 1 /\ UNCHANGED <<index, run, crashes>>

\* A list sync adds a TDoc of any date, or moves the date of one forward.
SyncRow(t) ==
  /\ Edit
  /\ \E d \in date[t] + 1..MaxDate :
       /\ date' = [date EXCEPT ![t] = d]
       /\ news' = IF date[t] = 0 /\ d >= Latest THEN news \cup {t} ELSE news
  /\ UNCHANGED <<content, model, hook>>

\* The bundle of an extraction is committed; a newer one takes over its hook.
Persist(t) ==
  /\ Edit /\ t \in Stored
  /\ \E h \in 1..MaxHash \ {content[t]} : content' = [content EXCEPT ![t] = h]
  /\ hook' = [hook EXCEPT ![t] = @ \cup {[step |-> "read", doc |-> 0]}]
  /\ UNCHANGED <<date, model, news>>

ChangeModel ==
  /\ Edit /\ run.pc = "idle"
  /\ \A t \in Ids : hook[t] = {}
  /\ \E m \in Models \ {model} : model' = m
  /\ UNCHANGED <<date, content, hook, news>>

----------------------------------------------------------------------------
(* upsert_chunks_many: one transaction replaces the chunks of the TDocs; their
   date is read in it, their texts were read before.                         *)
Chunks(t, doc) == [date |-> date[t], doc |-> doc, model |-> model]
Upserted(docs) ==
  [t \in Ids |-> IF t \in DOMAIN docs THEN Chunks(t, docs[t]) ELSE vec[t]]

\* index_for_tdoc.  A table of another model refuses the write.
HookRead(t) ==
  \E h \in hook[t] :
    /\ h.step = "read"
    /\ hook' = [hook EXCEPT ![t] = (@ \ {h}) \cup {[step |-> "write", doc |-> content[t]]}]
    /\ UNCHANGED <<source, index, run, news, edits, crashes>>
HookWrite(t) ==
  \E h \in hook[t] :
    /\ h.step = "write" /\ table = model
    /\ vec' = Upserted([u \in {t} |-> h.doc])
    /\ hook' = [hook EXCEPT ![t] = @ \ {h}]
    /\ UNCHANGED <<source, table, stamp, snap, cursor, run, news, edits, crashes>>
\* The hook is off, the embedder fails, the table refuses, the process dies.
HookSkipped(t) ==
  \E h \in hook[t] : /\ hook' = [hook EXCEPT ![t] = @ \ {h}]
                     /\ UNCHANGED <<source, index, run, news, edits, crashes>>

----------------------------------------------------------------------------
(* SemanticSearchService.rebuild_embeddings.                                 *)

Idle == [pc |-> "idle", stale |-> FALSE, last |-> 0, latest |-> 0,
         todo |-> {}, docs |-> <<>>]

ResumeUnverified(stale) ==
  /\ run.pc = "idle"
  /\ run' = [Idle EXCEPT !.pc = "list", !.stale = stale, !.last = cursor, !.latest = snap]
  /\ UNCHANGED <<source, index, hook, news, edits, crashes>>

\* resume: the cursor and the snapshot of the interrupted run; a table of
\* another model is an error before anything is done.
StartResume(stale) ==
  /\ run.pc = "idle" /\ table = model
  /\ run' = [Idle EXCEPT !.pc = "list", !.stale = stale, !.last = cursor,
                         !.latest = IF cursor = 0 THEN Latest ELSE snap]
  /\ news' = IF cursor = 0 THEN {} ELSE news
  /\ UNCHANGED <<source, index, hook, edits, crashes>>

\* A fresh run clears the cursor and, unless a stale-only run can keep the
\* table, drops it together with its stamps.
Keeps(stale) == stale /\ table = model
StartFresh(stale) ==
  /\ run.pc = "idle"
  /\ cursor' = 0
  /\ IF Keeps(stale) THEN UNCHANGED <<table, vec, stamp>>
     ELSE table' = model /\ vec' = [t \in Ids |-> NoRow] /\ stamp' = 0
  /\ run' = [Idle EXCEPT !.pc = "snapshot", !.stale = Keeps(stale)]
  /\ UNCHANGED <<source, snap, hook, news, edits, crashes>>

TakeSnapshot ==
  /\ run.pc = "snapshot"
  /\ snap' = Latest
  /\ run' = [run EXCEPT !.pc = "list", !.latest = Latest]
  /\ news' = {}
  /\ UNCHANGED <<source, table, vec, stamp, cursor, hook, edits, crashes>>

ListIds ==
  /\ run.pc = "list"
  /\ run' = [run EXCEPT !.pc = "read",
                        !.todo = {t \in IF run.stale THEN StaleIds ELSE Ids : t > run.last}]
  /\ UNCHANGED <<source, index, hook, news, edits, crashes>>

\* A stale-only run keeps its list; another one pages through tdocs.
Remaining == run.todo \cap Stored
FirstOf(ids) == {t \in ids : Cardinality({u \in ids : u < t}) < Batch}

\* The texts of a batch are read and embedded; a TDoc whose text cannot be
\* decoded or embedded is logged and left out of the write.
ReadBatch ==
  /\ run.pc = "read" /\ Remaining # {}
  /\ \E lost \in SUBSET FirstOf(Remaining) :
       run' = [run EXCEPT !.pc = "write", !.last = Max(FirstOf(Remaining)),
                          !.todo = run.todo \ 1..Max(FirstOf(Remaining)),
                          !.docs = [t \in FirstOf(Remaining) \ lost |-> content[t]]]
  /\ UNCHANGED <<source, index, hook, news, edits, crashes>>

WriteBatch ==
  /\ run.pc = "write"
  /\ vec' = Upserted(run.docs)
  /\ run' = [run EXCEPT !.pc = "cursor", !.docs = <<>>]
  /\ UNCHANGED <<source, table, stamp, snap, cursor, hook, news, edits, crashes>>

SetCursor ==
  /\ run.pc = "cursor"
  /\ cursor' = run.last
  /\ run' = [run EXCEPT !.pc = "read"]
  /\ UNCHANGED <<source, table, vec, stamp, snap, hook, news, edits, crashes>>

MarkRebuiltLatest ==
  /\ run.pc = "read" /\ Remaining = {}
  /\ stamp' = Latest
  /\ run' = Idle
  /\ UNCHANGED <<source, table, vec, snap, cursor, hook, news, edits, crashes>>

\* mark_rebuilt stamps the snapshot, and removes the stamp of an empty corpus.
MarkRebuilt ==
  /\ run.pc = "read" /\ Remaining = {}
  /\ stamp' = run.latest
  /\ run' = Idle
  /\ UNCHANGED <<source, table, vec, snap, cursor, hook, news, edits, crashes>>

Crash ==
  /\ run.pc # "idle" /\ crashes < MaxCrashes
  /\ crashes' = crashes + 1
  /\ run' = Idle
  /\ UNCHANGED <<source, index, hook, news, edits>>

----------------------------------------------------------------------------
\* A corpus whose vectors were rebuilt once, its last TDoc not uploaded yet.
Init ==
  /\ date = [t \in Ids |-> IF t = N THEN 0 ELSE 1]
  /\ content = [t \in Ids |-> IF t = 1 THEN 1 ELSE 0]
  /\ model \in Models /\ table = model
  /\ vec = [t \in Ids |-> IF t = N THEN NoRow ELSE Chunks(t, content[t])]
  /\ stamp = 1 /\ snap = 1 /\ cursor = N - 1
  /\ hook = [t \in Ids |-> {}] /\ run = Idle
  /\ news = {} /\ edits = 0 /\ crashes = 0

Sources == ChangeModel \/ \E t \in Ids : SyncRow(t) \/ Persist(t)
Hook(t) == HookRead(t) \/ HookWrite(t) \/ HookSkipped(t)
Rebuild == \/ \E stale \in BOOLEAN : StartResume(stale) \/ StartFresh(stale)
           \/ TakeSnapshot \/ ListIds \/ ReadBatch \/ WriteBatch \/ SetCursor \/ MarkRebuilt
Next == Sources \/ Rebuild \/ Crash \/ \E t \in Ids : Hook(t)
Spec == Init /\ [][Next]_vars

----------------------------------------------------------------------------
(* Properties.                                                               *)

\* A TDoc uploaded while or after the corpus was rebuilt and not embedded since,
\* be it because its embedding failed, keeps the status stale, whatever runs are
\* interrupted, resumed with an older cursor or narrowed to what is stale.
LateUploadsSeen == \A t \in news : vec[t] = NoRow => StatusStale

\* The chunks of a table come from one embedder: no path mixes two models.
OneModel == \A t \in Ids : vec[t] # NoRow => vec[t].model = table
=============================================================================
