--------------------------- MODULE CommandsProofs ---------------------------
(* What the commands promise, for any terminals, rows, files, keys and numbers of
   runs and kills: each component of the command line by itself, and then any of
   them as the module Commands sets them side by side.                         *)
EXTENDS Commands, Sequences, SequenceTheorems, FiniteSetTheorems, WellFoundedInduction, TLAPS

----------------------------------------------------------------------------
(* Migration: a run of create_schema that reaches its end leaves the database
   current, whatever statement earlier runs died after.  The strengthening says
   what is established at each statement on the way there: each conjunct of
   MigrationInv belongs to one phase of the run and to the phases after it.    *)

\* The phases of a run that come after each of its parts.
AfterSlides == {"vectors", "vectorsNew", "unstamp", "chunks", "done"}
AfterTables == AfterSlides \cup {"slides", "slidesNew", "reconcile"}
AfterCount == AfterTables \cup {"tables"}
AfterColumns == AfterCount \cup {"count"}
AfterRename == AfterColumns \cup {"columns", "add"}

PagesInv(pc) ==
  /\ pc \in {"drop", "move"} => legacy = "rows"
  /\ pc \in AfterRename => legacy = G!None
  /\ pc \in AfterTables => cover # G!None
ColumnsInv(pc, todo) ==
  /\ pc = "add" => /\ columns \cap todo = {}
                   /\ Columns \ Optional \subseteq columns \cup todo
  /\ pc \in AfterColumns => Columns \ Optional \subseteq columns
CountInv(pc, after) ==
  /\ pc = "count" => \A r \in (1 .. CountRows) \ Undecodable : r <= after => r \in counted
  /\ pc \in AfterCount => (1 .. CountRows) \ Undecodable \subseteq counted
SlidesInv(pc) ==
  /\ pc = "slidesNew" => slides.layout # "old"
  /\ pc \in AfterSlides \cup {"reconcile"} => slides.layout = "new"
  /\ pc \in AfterSlides => rowids = slides.docs /\ ledger \subseteq rowids
VectorsInv(pc) ==
  /\ pc = "vectorsNew" => vectors.layout # "old"
  /\ pc \in {"unstamp", "chunks", "done"} => vectors.layout = "new"
ChunksInv(pc, after) ==
  /\ pc = "chunks" => \A r \in 1 .. ChunkRows : r <= after => r \in blobs
  /\ pc = "done" => blobs = 1 .. ChunkRows

MigrationInv ==
  /\ G!TypeOK
  /\ PagesInv(run[Terminal].pc)
  /\ ColumnsInv(run[Terminal].pc, run[Terminal].todo)
  /\ CountInv(run[Terminal].pc, run[Terminal].after)
  /\ SlidesInv(run[Terminal].pc)
  /\ VectorsInv(run[Terminal].pc)
  /\ ChunksInv(run[Terminal].pc, run[Terminal].after)

-----------------------------------------------------------------------------
\* Types of the pieces: a run that is updated in one field is a run.
LEMMA MigrationTyped ==
  ASSUME G!TypeOK, [G!Next]_(G!vars)
  PROVE  G!TypeOK'
<1> USE Numbers
<1>1. CASE UNCHANGED G!vars
  BY <1>1 DEF G!TypeOK, G!vars, G!mainVars, G!slideVars, G!vecVars, G!bounds
<1>2. CASE G!Next
  <2>1. PICK p \in {Terminal} : G!Start(p) \/ G!Step(p) \/ G!Crash(p)
    BY <1>2 DEF G!Next
  <2>a. run[p] \in [pc : G!Pcs, todo : SUBSET Columns, after : Nat, dropped : BOOLEAN]
    BY DEF G!TypeOK
  <2>2. CASE G!Start(p)
    <3>1. [G!Idle EXCEPT !.pc = "rename"] \in [pc : G!Pcs, todo : SUBSET Columns, after : Nat,
                                             dropped : BOOLEAN]
      BY DEF G!Idle, G!Pcs
    <3>2. run' \in [{Terminal} -> [pc : G!Pcs, todo : SUBSET Columns, after : Nat, dropped : BOOLEAN]]
      BY <2>2, <3>1 DEF G!Start, G!TypeOK
    <3>3. runs' \in 0 .. MaxRuns
      BY <2>2 DEF G!Start, G!TypeOK
    <3> QED BY <2>2, <3>2, <3>3 DEF G!TypeOK, G!Start, G!mainVars, G!slideVars, G!vecVars
  <2>3. CASE G!Crash(p)
    BY <2>3 DEF G!TypeOK, G!Crash, G!Idle, G!Pcs, G!mainVars, G!slideVars, G!vecVars
  <2>4. CASE G!LookForLegacy(p) \/ G!DropCover(p) \/ G!Rename(p) \/ G!CreateAll(p)
    BY <2>a, <2>4 DEF G!TypeOK, G!LookForLegacy, G!DropCover, G!Rename, G!CreateAll, G!At, G!Goto,
                      G!Pcs, G!None, G!mainVars, G!slideVars, G!vecVars, G!bounds
  <2>5. CASE G!ReadColumns(p) \/ G!ColumnsAdded(p) \/ \E c \in Columns : G!AlterColumn(p, c)
    BY <2>a, <2>5 DEF G!TypeOK, G!ReadColumns, G!ColumnsAdded, G!AlterColumn, G!At, G!Goto, G!Pcs,
                      G!mainVars, G!slideVars, G!vecVars, G!bounds
  <2>6. CASE G!CountBatch(p)
    <3> DEFINE todo == {r \in (1 .. CountRows) \ counted : r > run[p].after}
    <3>1. CASE G!Goto(p, "tables") /\ UNCHANGED counted
      BY <2>6, <2>a, <3>1 DEF G!TypeOK, G!CountBatch, G!Goto, G!Pcs, G!mainVars, G!slideVars,
                              G!vecVars, G!bounds
    <3>2. ASSUME NEW last \in todo,
                 counted' = counted \cup ({r \in todo : r <= last} \ Undecodable),
                 run' = [run EXCEPT ![p].after = last]
          PROVE  G!TypeOK'
      BY <2>6, <2>a, <3>2 DEF G!TypeOK, G!CountBatch, G!mainVars, G!slideVars, G!vecVars, G!bounds
    <3> QED BY <2>6, <3>1, <3>2 DEF G!CountBatch
  <2>7. CASE G!DropSlides(p) \/ G!CreateSlides(p) \/ G!Reconcile(p)
    BY <2>a, <2>7 DEF G!TypeOK, G!DropSlides, G!CreateSlides, G!Reconcile, G!At, G!Goto, G!Pcs,
                      G!Layout, G!None, G!mainVars, G!slideVars, G!vecVars, G!bounds
  <2>8. CASE G!DropVectors(p)
    <3>1. vectors' \in [layout : G!Layout, filled : BOOLEAN]
      BY <2>8 DEF G!DropVectors, G!TypeOK, G!Layout, G!None
    <3>2. (vectors.layout = "old") \in BOOLEAN
      OBVIOUS
    <3>3. run' \in [{Terminal} -> [pc : G!Pcs, todo : SUBSET Columns, after : Nat, dropped : BOOLEAN]]
      BY <2>8, <2>a, <3>2 DEF G!DropVectors, G!TypeOK, G!Pcs
    <3>4. UNCHANGED <<legacy, cover, columns, counted, blobs, slides, rowids, ledger, stamps, runs,
                      crashes>>
      BY <2>8 DEF G!DropVectors, G!mainVars, G!slideVars, G!bounds
    <3> QED BY <3>1, <3>3, <3>4 DEF G!TypeOK
  <2>11. CASE G!CreateVectors(p)
    BY <2>a, <2>11 DEF G!TypeOK, G!CreateVectors, G!At, G!Goto, G!Pcs, G!Layout, G!None,
                       G!mainVars, G!slideVars, G!vecVars, G!bounds
  <2>10. CASE G!Unstamp(p)
    <3>1. stamps' \in BOOLEAN
      BY <2>10 DEF G!Unstamp
    <3>2. run' \in [{Terminal} -> [pc : G!Pcs, todo : SUBSET Columns, after : Nat, dropped : BOOLEAN]]
      BY <2>10, <2>a DEF G!Unstamp, G!TypeOK, G!Pcs
    <3>3. UNCHANGED <<legacy, cover, columns, counted, blobs, slides, rowids, ledger, vectors, runs,
                      crashes>>
      BY <2>10 DEF G!Unstamp, G!mainVars, G!slideVars, G!bounds
    <3> QED BY <3>1, <3>2, <3>3 DEF G!TypeOK
  <2>9. CASE G!CompressBatch(p)
    <3> DEFINE todo == {r \in (1 .. ChunkRows) \ blobs : r > run[p].after}
    <3>1. CASE G!Goto(p, "done") /\ UNCHANGED blobs
      BY <2>9, <2>a, <3>1 DEF G!TypeOK, G!CompressBatch, G!Goto, G!Pcs, G!mainVars, G!slideVars,
                              G!vecVars, G!bounds
    <3>2. ASSUME NEW last \in todo, blobs' = blobs \cup {r \in todo : r <= last},
                 run' = [run EXCEPT ![p].after = last]
          PROVE  G!TypeOK'
      BY <2>9, <2>a, <3>2 DEF G!TypeOK, G!CompressBatch, G!mainVars, G!slideVars, G!vecVars,
                              G!bounds
    <3> QED BY <2>9, <3>1, <3>2 DEF G!CompressBatch
  <2> QED BY <2>1, <2>2, <2>3, <2>4, <2>5, <2>6, <2>7, <2>8, <2>9, <2>10, <2>11 DEF G!Step
<1> QED BY <1>1, <1>2

-----------------------------------------------------------------------------
\* The invariant is about the one run there is: what another process would do to
\* its state does not happen.
LEMMA MigrationBegins ==
  ASSUME G!Init
  PROVE  MigrationInv
<1> USE Numbers
<1>1. G!TypeOK
  <2>1. G!Idle \in [pc : G!Pcs, todo : SUBSET Columns, after : Nat, dropped : BOOLEAN]
    BY DEF G!Idle, G!Pcs
  <2>2. /\ slides \in [layout : G!Layout, docs : SUBSET Docs]
        /\ rowids \subseteq Docs /\ ledger \subseteq Docs
    BY DEF G!Init
  <2>3. vectors \in [layout : G!Layout, filled : BOOLEAN] /\ stamps \in BOOLEAN
    BY DEF G!Init
  <2> QED BY <2>1, <2>2, <2>3 DEF G!Init, G!TypeOK, G!None
<1>2. \A p \in {Terminal} : run[p].pc = "idle"
  BY DEF G!Init, G!Idle
<1> QED BY <1>1, <1>2 DEF MigrationInv, PagesInv, ColumnsInv, CountInv, SlidesInv, VectorsInv,
                          ChunksInv, AfterRename, AfterColumns, AfterCount, AfterTables,
                          AfterSlides

LEMMA MigrationKept ==
  ASSUME MigrationInv, [G!Next]_(G!vars)
  PROVE  MigrationInv'
<1> USE Numbers
<1>0. G!TypeOK'
  BY MigrationTyped DEF MigrationInv
<1>a. /\ G!TypeOK
      /\ run[Terminal] \in [pc : G!Pcs, todo : SUBSET Columns, after : Nat, dropped : BOOLEAN]
      /\ run \in [{Terminal} -> [pc : G!Pcs, todo : SUBSET Columns, after : Nat, dropped : BOOLEAN]]
  BY DEF MigrationInv, G!TypeOK
<1> USE DEF AfterRename, AfterColumns, AfterCount, AfterTables, AfterSlides
<1> SUFFICES /\ PagesInv(run[Terminal].pc)' /\ ColumnsInv(run[Terminal].pc, run[Terminal].todo)'
             /\ CountInv(run[Terminal].pc, run[Terminal].after)' /\ SlidesInv(run[Terminal].pc)'
             /\ VectorsInv(run[Terminal].pc)' /\ ChunksInv(run[Terminal].pc, run[Terminal].after)'
  BY <1>0 DEF MigrationInv
<1>b. /\ PagesInv(run[Terminal].pc) /\ ColumnsInv(run[Terminal].pc, run[Terminal].todo)
      /\ CountInv(run[Terminal].pc, run[Terminal].after) /\ SlidesInv(run[Terminal].pc)
      /\ VectorsInv(run[Terminal].pc) /\ ChunksInv(run[Terminal].pc, run[Terminal].after)
  BY DEF MigrationInv
<1> USE DEF PagesInv, ColumnsInv, CountInv, SlidesInv, VectorsInv, ChunksInv
<1>1. CASE UNCHANGED G!vars
  BY <1>1, <1>b DEF G!vars, G!mainVars, G!slideVars, G!vecVars, G!bounds
<1>2. CASE G!Start(Terminal) \/ G!Crash(Terminal)
  BY <1>a, <1>2 DEF G!Start, G!Crash, G!Idle
<1>3. CASE G!LookForLegacy(Terminal) \/ G!DropCover(Terminal) \/ G!Rename(Terminal)
  BY <1>a, <1>b, <1>3 DEF G!LookForLegacy, G!DropCover, G!Rename, G!At, G!Goto, G!TypeOK, G!None,
                          G!mainVars, G!slideVars, G!vecVars, G!bounds
<1>4. CASE G!ReadColumns(Terminal)
  BY <1>a, <1>b, <1>4 DEF G!ReadColumns, G!At, G!TypeOK, G!mainVars, G!slideVars, G!vecVars,
                          G!bounds
<1>5. CASE G!ColumnsAdded(Terminal)
  BY <1>a, <1>b, <1>5 DEF G!ColumnsAdded, G!At, G!TypeOK, G!mainVars, G!slideVars, G!vecVars,
                          G!bounds
<1>6. ASSUME NEW c \in Columns, G!AlterColumn(Terminal, c)
      PROVE  /\ PagesInv(run[Terminal].pc)' /\ ColumnsInv(run[Terminal].pc, run[Terminal].todo)'
             /\ CountInv(run[Terminal].pc, run[Terminal].after)' /\ SlidesInv(run[Terminal].pc)'
             /\ VectorsInv(run[Terminal].pc)' /\ ChunksInv(run[Terminal].pc, run[Terminal].after)'
  <2>1. c \notin columns
    BY <1>b, <1>6 DEF G!AlterColumn, G!At
  <2>2. /\ columns' = columns \cup {c} \/ (c \in Optional /\ columns' = columns)
        /\ run' = [run EXCEPT ![Terminal].todo = @ \ {c}]
    BY <1>6, <2>1 DEF G!AlterColumn
  <2>3. /\ run'[Terminal].pc = "add" /\ run'[Terminal].todo = run[Terminal].todo \ {c}
        /\ run[Terminal].todo \subseteq Columns
    BY <1>a, <1>6, <2>2 DEF G!AlterColumn, G!At
  <2>4. ColumnsInv(run[Terminal].pc, run[Terminal].todo)'
    BY <1>b, <1>6, <2>2, <2>3 DEF G!AlterColumn, G!At
  <2>5. UNCHANGED <<legacy, cover, counted, blobs, slides, rowids, ledger, vectors>>
    BY <1>6 DEF G!AlterColumn, G!slideVars, G!vecVars
  <2> QED BY <1>b, <1>6, <2>3, <2>4, <2>5 DEF G!AlterColumn, G!At
<1>7. CASE G!CountBatch(Terminal)
  <2> DEFINE todo == {r \in (1 .. CountRows) \ counted : r > run[Terminal].after}
  <2>1. UNCHANGED <<legacy, cover, columns, blobs, slides, rowids, ledger, vectors>>
    BY <1>7 DEF G!CountBatch, G!slideVars, G!vecVars
  <2>2. CASE todo = {} /\ G!Goto(Terminal, "tables") /\ UNCHANGED counted
    <3>1. \A r \in (1 .. CountRows) \ Undecodable : r \in counted
      BY <1>a, <1>b, <1>7, <2>2 DEF G!CountBatch, G!At
    <3>2. run'[Terminal].pc = "tables"
      BY <1>a, <2>2 DEF G!Goto
    <3> QED BY <1>b, <1>7, <2>1, <2>2, <3>1, <3>2 DEF G!CountBatch, G!At
  <2>3. ASSUME NEW last \in todo,
               counted' = counted \cup ({r \in todo : r <= last} \ Undecodable),
               run' = [run EXCEPT ![Terminal].after = last]
        PROVE  /\ PagesInv(run[Terminal].pc)' /\ ColumnsInv(run[Terminal].pc, run[Terminal].todo)'
               /\ CountInv(run[Terminal].pc, run[Terminal].after)' /\ SlidesInv(run[Terminal].pc)'
               /\ VectorsInv(run[Terminal].pc)' /\ ChunksInv(run[Terminal].pc, run[Terminal].after)'
    <3>1. run'[Terminal].pc = "count" /\ run'[Terminal].after = last
      BY <1>a, <1>7, <2>3 DEF G!CountBatch, G!At
    <3>2. ASSUME NEW r \in (1 .. CountRows) \ Undecodable, r <= last
          PROVE  r \in counted'
      BY <1>a, <1>b, <1>7, <2>3, <3>2 DEF G!CountBatch, G!At
    <3> QED BY <1>b, <1>7, <2>1, <3>1, <3>2 DEF G!CountBatch, G!At
  <2> QED BY <1>7, <2>2, <2>3 DEF G!CountBatch
<1>8. CASE G!CreateAll(Terminal)
  BY <1>a, <1>b, <1>8 DEF G!CreateAll, G!At, G!Goto, G!TypeOK, G!None, G!slideVars, G!vecVars,
                          G!bounds
<1>9. CASE G!DropSlides(Terminal) \/ G!CreateSlides(Terminal)
  BY <1>a, <1>b, <1>9 DEF G!DropSlides, G!CreateSlides, G!At, G!Goto, G!TypeOK, G!Layout, G!None,
                          G!mainVars, G!vecVars, G!bounds
<1>10. CASE G!Reconcile(Terminal)
  BY <1>a, <1>b, <1>10 DEF G!Reconcile, G!At, G!TypeOK, G!mainVars, G!vecVars, G!bounds
<1>11. CASE G!DropVectors(Terminal) \/ G!CreateVectors(Terminal)
  BY <1>a, <1>b, <1>11 DEF G!DropVectors, G!CreateVectors, G!At, G!Goto, G!TypeOK, G!Layout, G!None,
                           G!mainVars, G!slideVars, G!bounds
<1>12. CASE G!Unstamp(Terminal)
  BY <1>a, <1>b, <1>12 DEF G!Unstamp, G!At, G!mainVars, G!slideVars, G!bounds
<1>13. CASE G!CompressBatch(Terminal)
  <2> DEFINE todo == {r \in (1 .. ChunkRows) \ blobs : r > run[Terminal].after}
  <2>1. UNCHANGED <<legacy, cover, columns, counted, slides, rowids, ledger, vectors>>
    BY <1>13 DEF G!CompressBatch, G!mainVars, G!slideVars, G!vecVars
  <2>2. CASE todo = {} /\ G!Goto(Terminal, "done") /\ UNCHANGED blobs
    <3>1. \A r \in 1 .. ChunkRows : r \in blobs
      BY <1>a, <1>b, <1>13, <2>2 DEF G!CompressBatch, G!At
    <3>2. run'[Terminal].pc = "done"
      BY <1>a, <2>2 DEF G!Goto
    <3> QED BY <1>a, <1>b, <1>13, <2>1, <2>2, <3>1, <3>2 DEF G!CompressBatch, G!At, G!TypeOK
  <2>3. ASSUME NEW last \in todo, blobs' = blobs \cup {r \in todo : r <= last},
               run' = [run EXCEPT ![Terminal].after = last]
        PROVE  /\ PagesInv(run[Terminal].pc)' /\ ColumnsInv(run[Terminal].pc, run[Terminal].todo)'
               /\ CountInv(run[Terminal].pc, run[Terminal].after)' /\ SlidesInv(run[Terminal].pc)'
               /\ VectorsInv(run[Terminal].pc)' /\ ChunksInv(run[Terminal].pc, run[Terminal].after)'
    <3>1. run'[Terminal].pc = "chunks" /\ run'[Terminal].after = last
      BY <1>a, <1>13, <2>3 DEF G!CompressBatch, G!At
    <3>2. ASSUME NEW r \in 1 .. ChunkRows, r <= last
          PROVE  r \in blobs'
      BY <1>a, <1>b, <1>13, <2>3, <3>2 DEF G!CompressBatch, G!At
    <3> QED BY <1>b, <1>13, <2>1, <3>1, <3>2 DEF G!CompressBatch, G!At
  <2> QED BY <1>13, <2>2, <2>3 DEF G!CompressBatch
<1> QED
  BY <1>1, <1>2, <1>3, <1>4, <1>5, <1>6, <1>7, <1>8, <1>9, <1>10, <1>11, <1>12, <1>13
  DEF G!Next, G!Step

LEMMA MigrationCurrent == MigrationInv => G!EndsCurrent
  BY DEF MigrationInv, G!EndsCurrent, G!Current, G!At, PagesInv, ColumnsInv, CountInv, SlidesInv,
       VectorsInv, ChunksInv, AfterRename, AfterColumns, AfterCount, AfterTables, AfterSlides

\* For any stored rows and any number of interrupted runs before: a run of
\* create_schema (storage/db/migrate.py) that ends left the database as the release
\* expects it.
THEOREM UpgradesEndCurrent == G!Spec => []G!EndsCurrent
<1> QED
  BY MigrationBegins, MigrationKept, MigrationCurrent, PTL DEF G!Spec

LEMMA PagesStep == MigrationInv /\ [G!Next]_(G!vars) => ~G!CoverPagesLost
<1> SUFFICES ASSUME MigrationInv, [G!Next]_(G!vars) PROVE ~G!CoverPagesLost
  OBVIOUS
<1>1. CASE UNCHANGED <<legacy, cover>>
  BY <1>1 DEF G!CoverPagesLost
<1>2. CASE G!DropCover(Terminal)
  BY <1>2 DEF G!DropCover, G!At, MigrationInv, PagesInv, G!CoverPagesLost
<1>3. CASE G!Rename(Terminal)
  BY <1>3 DEF G!Rename, G!At, MigrationInv, PagesInv, G!CoverPagesLost
<1>4. CASE G!CreateAll(Terminal)
  BY <1>4 DEF G!CreateAll, G!None, G!CoverPagesLost
<1>5. \/ UNCHANGED <<legacy, cover>>
      \/ G!DropCover(Terminal) \/ G!Rename(Terminal) \/ G!CreateAll(Terminal)
  BY DEF G!Next, G!vars, G!Step, G!Start, G!Crash, G!LookForLegacy, G!ReadColumns, G!AlterColumn,
         G!ColumnsAdded, G!CountBatch, G!DropSlides, G!CreateSlides, G!Reconcile, G!DropVectors,
         G!CreateVectors, G!Unstamp, G!CompressBatch, G!mainVars
<1> QED
  BY <1>1, <1>2, <1>3, <1>4, <1>5

\* No step of a run of create_schema, nor its death, takes the cover pages from the
\* one table without the other having them.
THEOREM CoverPagesStay == G!Spec => G!CoverPagesKept
<1>1. MigrationInv /\ [G!Next]_(G!vars) => [~G!CoverPagesLost]_(G!vars)
  BY PagesStep
<1> QED
  BY MigrationBegins, MigrationKept, <1>1, PTL DEF G!Spec, G!CoverPagesKept

----------------------------------------------------------------------------
(* The configuration file: what a command carries from the file it has read to
   the file it replaces.                                                       *)

FileType == [there : BOOLEAN, parses : BOOLEAN, keys : [Keys -> F!Values], private : BOOLEAN]
ConfigCommand == [pc : {"idle", "patched", "temp", "replace"}, key : Keys,
                  env : [Keys -> F!Values], keys : [Keys -> F!Values]]
ConfigTypes ==
  /\ file \in FileType /\ temp \in [{Terminal} -> FileType]
  /\ cmd \in [{Terminal} -> ConfigCommand]
  /\ wrote \in [Keys -> F!Values] /\ handEdited \in BOOLEAN

\* Nobody but the owner reads a secret.
Hidden(f) == f.there /\ f.keys[Secret] # "unset" => f.private

\* What is read from a file that shows no secret is not shown in the one that is
\* written, and what is to be written has been validated in the environment of the
\* command.
Carried(c, t) ==
  /\ c.pc \in {"patched", "temp"} /\ c.keys[Secret] # "unset" =>
       c.key = Secret \/ ~file.there \/ file.private
  /\ c.pc = "temp" => F!Validates(c.keys, c.env)
  /\ c.pc = "replace" => t.parses /\ F!Validates(t.keys, c.env)

ConfigInv ==
  /\ ConfigTypes
  /\ F!FileStaysUsable
  /\ Hidden(file) /\ Hidden(temp[Terminal])
  /\ Carried(cmd[Terminal], temp[Terminal])

LEMMA ConfigBegins == F!Init => ConfigInv
<1> SUFFICES ASSUME F!Init PROVE ConfigInv
  OBVIOUS
<1> USE SecretIsAKey
<1>1. /\ F!Absent \in FileType /\ F!Absent.keys = [k \in Keys |-> "unset"] /\ F!Absent.parses
      /\ file \in FileType /\ file.parses /\ file.keys = F!Absent.keys
  <2> DEFINE keys == [k \in Keys |-> "unset"]
             old == [F!Absent EXCEPT !.there = TRUE, !.private = FALSE]
  <2>1. keys \in [Keys -> F!Values] /\ F!Absent.keys = keys /\ F!Absent.parses
    BY DEF F!Absent, F!Values
  <2>2. F!Absent \in FileType
    BY <2>1 DEF F!Absent, FileType
  <2> HIDE DEF keys
  <2>3. old \in FileType /\ old.parses /\ old.keys = keys
    BY <2>1, <2>2 DEF FileType
  <2>4. file \in {F!Absent, old}
    BY DEF F!Init
  <2> QED
    BY <2>1, <2>2, <2>3, <2>4 DEF keys
<1>2. /\ F!Idle \in ConfigCommand
      /\ F!Idle.pc = "idle"
      /\ F!NoVariables = [k \in Keys |-> "unset"] /\ F!NoVariables \in [Keys -> F!Values]
  <2>1. F!NoVariables = [k \in Keys |-> "unset"] /\ F!NoVariables \in [Keys -> F!Values]
    BY <1>1 DEF F!NoVariables, F!Values
  <2> QED
    BY <1>1, <2>1 DEF F!Idle, FileType, ConfigCommand
<1> HIDE DEF F!Idle, F!Absent, F!NoVariables
<1>3. ConfigTypes /\ temp[Terminal] = F!Absent /\ cmd[Terminal] = F!Idle
  BY <1>1, <1>2 DEF F!Init, ConfigTypes
<1>4. F!FileStaysUsable /\ Hidden(file) /\ Hidden(temp[Terminal])
  BY <1>1, <1>2, <1>3 DEF F!FileStaysUsable, F!Validates, F!Merged, Hidden, F!Init
<1> QED
  BY <1>2, <1>3, <1>4 DEF ConfigInv, Carried

LEMMA IdleIsACommand == F!Idle \in ConfigCommand /\ F!Idle.pc = "idle"
<1>1. F!NoVariables \in [Keys -> F!Values] /\ F!Absent.keys \in [Keys -> F!Values]
  BY DEF F!NoVariables, F!Absent, F!Values
<1> HIDE DEF F!NoVariables, F!Absent
<1> QED
  BY <1>1, SecretIsAKey DEF F!Idle, ConfigCommand

\* Ending a command, however it ends, keeps what does not depend on it.
LEMMA CommandEnded ==
  ASSUME ConfigInv, NEW verdict, F!End(Terminal, verdict), UNCHANGED <<file, temp, wrote, handEdited>>
  PROVE  ConfigInv'
<1>1. /\ F!Idle \in ConfigCommand
      /\ F!Idle.pc = "idle"
  BY IdleIsACommand
<1> HIDE DEF F!Idle
<1>2. cmd'[Terminal] = F!Idle /\ ConfigTypes'
  BY <1>1 DEF F!End, ConfigInv, ConfigTypes
<1> QED
  BY <1>1, <1>2 DEF ConfigInv, Carried, F!FileStaysUsable, Hidden

LEMMA ConfigKept == ConfigInv /\ [F!Next]_(F!vars) => ConfigInv'
<1> SUFFICES ASSUME ConfigInv, [F!Next]_(F!vars) PROVE ConfigInv'
  OBVIOUS
<1> USE SecretIsAKey
<1> DEFINE c == cmd[Terminal]
           t == temp[Terminal]
<1>t. /\ ConfigTypes /\ file \in FileType /\ t \in FileType
      /\ c \in ConfigCommand
      /\ file.keys \in [Keys -> F!Values]
  BY DEF ConfigInv, ConfigTypes, FileType
<1>1. ASSUME NEW b \in BOOLEAN, F!InitRefused(Terminal, b) PROVE ConfigInv'
  BY <1>1, CommandEnded DEF F!InitRefused
<1>2. ASSUME NEW b \in BOOLEAN, F!InitFile(Terminal, b) PROVE ConfigInv'
  <2> DEFINE new == [F!Idle EXCEPT !.pc = "temp",
                                   !.keys = [k \in Keys |-> IF k = Secret THEN "unset" ELSE "right"]]
  <2>1. /\ new \in ConfigCommand
        /\ new.pc = "temp" /\ new.keys[Secret] = "unset" /\ F!Validates(new.keys, new.env)
    <3> DEFINE keys == [k \in Keys |-> IF k = Secret THEN "unset" ELSE "right"]
    <3>1. keys \in [Keys -> F!Values] /\ keys[Secret] = "unset"
          /\ \A k \in Keys : keys[k] # "wrong"
      BY DEF F!Values
    <3>2. F!Idle.env = [k \in Keys |-> "unset"]
      BY DEF F!Idle, F!NoVariables, F!Absent
    <3> HIDE DEF keys
    <3>3. F!Validates(keys, F!Idle.env)
      BY <3>1, <3>2 DEF F!Validates, F!Merged
    <3> HIDE DEF F!Idle, F!Validates
    <3>4. [F!Idle EXCEPT !.pc = "temp", !.keys = keys] \in ConfigCommand
          /\ [F!Idle EXCEPT !.pc = "temp", !.keys = keys].pc = "temp"
          /\ [F!Idle EXCEPT !.pc = "temp", !.keys = keys].keys = keys
          /\ [F!Idle EXCEPT !.pc = "temp", !.keys = keys].env = F!Idle.env
      BY <3>1, IdleIsACommand DEF ConfigCommand
    <3> QED
      BY <3>1, <3>3, <3>4 DEF keys
  <2>2. cmd' = [cmd EXCEPT ![Terminal] = new] /\ UNCHANGED <<file, temp, wrote, handEdited>>
    BY <1>2 DEF F!InitFile
  <2> HIDE DEF new
  <2>3. cmd'[Terminal] = new /\ ConfigTypes'
    BY <2>1, <2>2, <1>t DEF ConfigTypes
  <2> QED
    BY <2>1, <2>2, <2>3 DEF ConfigInv, Carried, F!FileStaysUsable, Hidden
<1>3. ASSUME NEW key \in Keys, NEW value \in {"right", "wrong"}, NEW env \in F!Environments,
             F!Read(Terminal, key, value, env)
      PROVE  ConfigInv'
  <2>1. CASE ~(file.there /\ file.parses)
    BY <1>3, <2>1, CommandEnded DEF F!Read
  <2>2. CASE file.there /\ file.parses
    <3> DEFINE new == [pc |-> "patched", key |-> key, env |-> env,
                       keys |-> [file.keys EXCEPT ![key] = value]]
    <3>1. /\ new \in ConfigCommand
          /\ new.pc = "patched" /\ new.key = key
      BY <1>t DEF F!Values, ConfigCommand, F!Environments
    <3>2. new.keys[Secret] # "unset" => key = Secret \/ file.private
      BY <2>2, <1>t DEF ConfigInv, Hidden
    <3>3. cmd' = [cmd EXCEPT ![Terminal] = new] /\ UNCHANGED <<file, temp, wrote, handEdited>>
      BY <1>3, <2>2 DEF F!Read
    <3> HIDE DEF new
    <3>4. cmd'[Terminal] = new /\ ConfigTypes'
      BY <3>1, <3>3, <1>t DEF ConfigTypes
    <3> QED
      BY <3>1, <3>2, <3>3, <3>4 DEF ConfigInv, Carried, F!FileStaysUsable, Hidden
  <2> QED
    BY <2>1, <2>2
<1>4. ASSUME NEW b \in BOOLEAN, F!Validate(Terminal, b) PROVE ConfigInv'
  <2>1. CASE F!Validates(c.keys, c.env) /\ cmd' = [cmd EXCEPT ![Terminal].pc = "temp"]
    <3>1. /\ cmd'[Terminal] = [c EXCEPT !.pc = "temp"] /\ c.pc = "patched"
          /\ UNCHANGED <<file, temp, wrote, handEdited>>
      BY <1>4, <2>1, <1>t DEF F!Validate, ConfigTypes
    <3>2. ConfigTypes'
      BY <3>1, <2>1, <1>t DEF ConfigTypes, ConfigCommand
    <3>3. Carried(cmd[Terminal], temp[Terminal])'
      BY <3>1, <2>1, <1>t DEF ConfigInv, Carried, ConfigCommand
    <3> QED
      BY <3>1, <3>2, <3>3 DEF ConfigInv, F!FileStaysUsable, Hidden
  <2>2. ASSUME NEW verdict, F!End(Terminal, verdict) PROVE ConfigInv'
    BY <1>4, <2>2, CommandEnded DEF F!Validate
  <2> QED
    BY <1>4, <2>1, <2>2 DEF F!Validate
<1>5. CASE F!WriteTemp(Terminal)
  <2> DEFINE new == [there |-> TRUE, parses |-> TRUE, keys |-> c.keys, private |-> F!Mode(Terminal)]
  <2>1. F!Mode(Terminal) \in BOOLEAN
    BY <1>t DEF F!Mode, FileType
  <2>2. c.pc = "temp" /\ (c.keys[Secret] # "unset" => F!Mode(Terminal)) /\ F!Validates(c.keys, c.env)
    BY <1>5 DEF F!WriteTemp, ConfigInv, Carried, F!Mode
  <2> HIDE DEF F!Mode
  <2>3. new \in FileType /\ new.parses /\ F!Validates(new.keys, c.env) /\ Hidden(new)
    BY <1>t, <2>1, <2>2 DEF FileType, Hidden, ConfigCommand
  <2>4. temp' = [temp EXCEPT ![Terminal] = new] /\ cmd' = [cmd EXCEPT ![Terminal].pc = "replace"]
    BY <1>5 DEF F!WriteTemp
  <2> HIDE DEF new
  <2>5. ConfigTypes' /\ temp'[Terminal] = new
        /\ cmd'[Terminal].pc = "replace" /\ cmd'[Terminal].env = c.env
    <3>1. temp' \in [{Terminal} -> FileType] /\ temp'[Terminal] = new
      BY <2>3, <2>4, <1>t DEF ConfigTypes
    <3>2. cmd'[Terminal] = [c EXCEPT !.pc = "replace"]
      BY <2>4, <1>t DEF ConfigTypes
    <3>3. cmd'[Terminal] \in ConfigCommand
      BY <3>2, <1>t DEF ConfigCommand
    <3>4. cmd' \in [{Terminal} -> ConfigCommand]
      BY <2>4, <3>3, <1>t DEF ConfigTypes
    <3>5. UNCHANGED <<file, wrote, handEdited>>
      BY <1>5 DEF F!WriteTemp
    <3> QED
      BY <3>1, <3>2, <3>4, <3>5, <1>t DEF ConfigTypes, ConfigCommand
  <2> QED
    BY <1>5, <2>3, <2>5 DEF ConfigInv, Carried, F!FileStaysUsable, Hidden, F!WriteTemp
<1>6. CASE F!Replace(Terminal)
  <2>1. /\ F!Absent \in FileType /\ Hidden(F!Absent)
    BY DEF F!Absent, FileType, F!Values, Hidden
  <2>2. /\ F!Idle \in ConfigCommand
        /\ F!Idle.pc = "idle"
    BY IdleIsACommand
  <2> HIDE DEF F!Idle, F!Absent
  <2>3. /\ ConfigTypes' /\ file' = t /\ temp'[Terminal] = F!Absent /\ cmd'[Terminal] = F!Idle
        /\ c.pc = "replace" /\ wrote' = c.env
    BY <1>6, <2>1, <2>2, <1>t DEF ConfigTypes, ConfigCommand, F!Replace, F!End
  <2> QED
    BY <2>1, <2>2, <2>3 DEF ConfigInv, Carried, F!FileStaysUsable, Hidden
<1>7. CASE F!Kill(Terminal)
  BY <1>7, CommandEnded DEF F!Kill
<1>8. CASE F!Edit
  <2>1. UNCHANGED <<temp, cmd, wrote>> /\ file.there
    BY <1>8 DEF F!Edit
  <2> DEFINE Edited ==
        /\ file' \in FileType /\ handEdited' \in BOOLEAN
        /\ file'.there = file.there /\ file'.private = file.private
        /\ file'.keys[Secret] = file.keys[Secret]
        /\ ~handEdited' => /\ ~handEdited /\ file'.parses = file.parses
                           /\ \A k \in Keys : file'.keys[k] = "wrong" => file.keys[k] = "wrong"
  <2>2. Edited
    <3>1. CASE file' = [file EXCEPT !.parses = FALSE] /\ handEdited' = TRUE
      BY <3>1, <1>t DEF FileType
    <3>2. ASSUME NEW k \in Keys \ {Secret}, NEW v \in F!Values,
                 file' = [file EXCEPT !.keys[k] = v], handEdited' = (handEdited \/ v = "wrong")
          PROVE  Edited
      <4>1. /\ file'.keys = [file.keys EXCEPT ![k] = v] /\ file'.there = file.there
            /\ file'.private = file.private /\ file'.parses = file.parses /\ file' \in FileType
        BY <3>2, <1>t DEF FileType
      <4>2. handEdited' \in BOOLEAN
        BY <3>2
      <4>3. file'.keys[Secret] = file.keys[Secret]
        BY <4>1, <1>t
      <4>4. ASSUME ~handEdited'
            PROVE  ~handEdited /\ \A l \in Keys : file'.keys[l] = "wrong" => file.keys[l] = "wrong"
        <5>1. ~handEdited /\ v # "wrong"
          BY <4>4, <3>2
        <5> QED
          BY <5>1, <4>1, <1>t
      <4> QED
        BY <4>1, <4>2, <4>3, <4>4
    <3> HIDE DEF Edited
    <3> QED
      BY <1>8, <3>1, <3>2 DEF F!Edit
  <2>3. ConfigTypes'
    BY <2>1, <2>2, <1>t DEF ConfigTypes
  <2> QED
    BY <2>1, <2>2, <2>3 DEF ConfigInv, Carried, F!FileStaysUsable, F!Validates, F!Merged, Hidden
<1>9. CASE UNCHANGED F!vars
  BY <1>9 DEF F!vars, ConfigInv, ConfigTypes, Carried, F!FileStaysUsable, Hidden
<1> QED
  BY <1>1, <1>2, <1>3, <1>4, <1>5, <1>6, <1>7, <1>8, <1>9 DEF F!Next

LEMMA ConfigOrdered == ConfigInv => F!FileStaysInOrder
  BY DEF ConfigInv, F!FileStaysInOrder, F!SecretIsPrivate, Hidden

\* Whatever commands set, whichever are refused or killed and whatever the owner
\* edits, `config init` and `config set` (cli.py, settings/config_writer.py) leave a
\* file the program can start with and let nobody else read the secret.
THEOREM ConfigStaysInOrder == F!Spec => []F!FileStaysInOrder
<1> QED
  BY ConfigBegins, ConfigKept, ConfigOrdered, PTL DEF F!Spec

----------------------------------------------------------------------------
(* The server's processes: which process the pid file names, at each point of the
   command that may change it.                                                 *)

ServerCommand == [pc : {"idle", "watch", "health", "stopping"}, pid : Pids \cup {0}]
ServerTypes ==
  /\ proc \in [Pids -> {"none", "dead", "booting", "serving", "foreign"}]
  /\ port \in Pids \cup {0} /\ pidFile \in Pids \cup {0}
  /\ cmd \in [{Terminal} -> ServerCommand]

\* One process serves, the one that holds the port; a child is only booting while
\* the command that started it waits.
OneServes(c) ==
  \A p \in Pids : /\ proc[p] = "serving" <=> port = p
                  /\ proc[p] = "booting" => c.pc = "watch" /\ c.pid = p

Named(c) ==
  /\ c.pc = "watch" => /\ c.pid \in Pids /\ proc[c.pid] \in {"booting", "serving", "dead"}
                       /\ port \in {0, c.pid, pidFile}
  /\ c.pc # "watch" => port \in {0, pidFile}
  /\ c.pc = "stopping" => c.pid = pidFile /\ c.pid \in Pids

ServerInv == ServerTypes /\ OneServes(cmd[Terminal]) /\ Named(cmd[Terminal])

LEMMA ServerBegins == S!Init => ServerInv
  BY ZeroIsNoPid DEF S!Init, S!Idle, S!None, ServerInv, ServerTypes, ServerCommand, OneServes, Named

\* The next command, or the next state of one.
LEMMA CommandTyped ==
  ASSUME ServerTypes, NEW c \in ServerCommand, cmd' = [cmd EXCEPT ![Terminal] = c]
  PROVE  cmd' \in [{Terminal} -> ServerCommand] /\ cmd'[Terminal] = c
  BY DEF ServerTypes

LEMMA ServerKept == ServerInv /\ [S!Next]_(S!vars) => ServerInv'
<1> SUFFICES ASSUME ServerInv, [S!Next]_(S!vars) PROVE ServerInv'
  OBVIOUS
<1> USE ZeroIsNoPid DEF S!None
<1> DEFINE c == cmd[Terminal]
<1>t. /\ ServerTypes /\ OneServes(c) /\ Named(c) /\ c \in ServerCommand
      /\ S!Idle \in ServerCommand /\ S!Idle.pc = "idle"
  BY DEF ServerInv, ServerTypes, S!Idle, ServerCommand
<1>a. \A p \in Pids \cup {0} : S!Alive(p) <=> p # 0 /\ proc[p] \notin {"none", "dead"}
  BY DEF S!Alive
<1> HIDE DEF c, S!Idle, S!Alive
<1>1. ASSUME NEW force \in BOOLEAN, S!StartRefused(Terminal, force) PROVE ServerInv'
  <2>1. /\ UNCHANGED <<proc, port, pidFile>> /\ cmd' = [cmd EXCEPT ![Terminal] = S!Idle]
        /\ c.pc = "idle"
    BY <1>1 DEF S!StartRefused, S!Begin, S!Report, c
  <2>2. cmd' \in [{Terminal} -> ServerCommand] /\ cmd'[Terminal] = S!Idle
    BY <2>1, <1>t, CommandTyped
  <2> QED
    BY <2>1, <2>2, <1>t DEF ServerInv, ServerTypes, OneServes, Named
<1>2. ASSUME NEW force \in BOOLEAN, S!Launch(Terminal, force) PROVE ServerInv'
  <2>1. PICK p \in Pids : /\ ~S!Alive(p) /\ proc' = [proc EXCEPT ![p] = "booting"]
                          /\ cmd' = [cmd EXCEPT ![Terminal] = [pc |-> "watch", pid |-> p]]
    BY <1>2 DEF S!Launch
  <2> DEFINE new == [pc |-> "watch", pid |-> p]
  <2>2. UNCHANGED <<port, pidFile>> /\ c.pc = "idle" /\ new \in ServerCommand
    BY <1>2 DEF S!Launch, S!Begin, c, ServerCommand
  <2>3. cmd' \in [{Terminal} -> ServerCommand] /\ cmd'[Terminal] = new
    BY <2>1, <2>2, <1>t, CommandTyped
  <2>4. /\ proc' \in [Pids -> {"none", "dead", "booting", "serving", "foreign"}]
        /\ proc'[p] = "booting" /\ port # p /\ \A q \in Pids \ {p} : proc'[q] = proc[q]
    BY <2>1, <1>a, <1>t DEF ServerTypes, OneServes
  <2> QED
    BY <2>2, <2>3, <2>4, <1>t DEF ServerInv, ServerTypes, OneServes, Named
<1>3. CASE S!ChildExited(Terminal)
  <2>1. /\ UNCHANGED <<proc, port, pidFile>> /\ cmd' = [cmd EXCEPT ![Terminal] = S!Idle]
        /\ c.pc = "watch" /\ ~S!Alive(c.pid)
    BY <1>3 DEF S!ChildExited, S!Report, c
  <2>2. cmd' \in [{Terminal} -> ServerCommand] /\ cmd'[Terminal] = S!Idle
    BY <2>1, <1>t, CommandTyped
  <2>3. c.pid \in Pids /\ proc[c.pid] = "dead" /\ port # c.pid
    BY <2>1, <1>a, <1>t DEF Named, OneServes
  <2> QED
    BY <2>1, <2>2, <2>3, <1>t DEF ServerInv, ServerTypes, OneServes, Named
<1>4. CASE S!WritePid(Terminal)
  <2> DEFINE new == [c EXCEPT !.pc = "health"]
  <2>1. /\ UNCHANGED <<proc, port>> /\ pidFile' = c.pid /\ cmd' = [cmd EXCEPT ![Terminal] = new]
        /\ c.pc = "watch" /\ S!Alive(c.pid) /\ proc[c.pid] # "booting"
    BY <1>4 DEF S!WritePid, c
  <2>2. new \in ServerCommand /\ new.pc = "health"
    BY <1>t DEF ServerCommand
  <2>3. cmd' \in [{Terminal} -> ServerCommand] /\ cmd'[Terminal] = new
    BY <2>1, <2>2, <1>t, CommandTyped
  <2>4. c.pid \in Pids /\ port = c.pid
    BY <2>1, <1>a, <1>t DEF Named, OneServes
  <2> HIDE DEF new
  <2> QED
    BY <2>1, <2>2, <2>3, <2>4, <1>t DEF ServerInv, ServerTypes, OneServes, Named
<1>5. CASE S!Healthy(Terminal)
  <2>1. /\ UNCHANGED <<proc, port, pidFile>> /\ cmd' = [cmd EXCEPT ![Terminal] = S!Idle]
        /\ c.pc = "health"
    BY <1>5 DEF S!Healthy, S!Report, c
  <2>2. cmd' \in [{Terminal} -> ServerCommand] /\ cmd'[Terminal] = S!Idle
    BY <2>1, <1>t, CommandTyped
  <2> QED
    BY <2>1, <2>2, <1>t DEF ServerInv, ServerTypes, OneServes, Named
<1>6. CASE S!StopNothing(Terminal)
  <2>1. /\ UNCHANGED <<proc, port>> /\ pidFile' = 0 /\ cmd' = [cmd EXCEPT ![Terminal] = S!Idle]
        /\ c.pc = "idle" /\ ~S!Alive(pidFile)
    BY <1>6 DEF S!StopNothing, S!Begin, S!Report, c
  <2>2. cmd' \in [{Terminal} -> ServerCommand] /\ cmd'[Terminal] = S!Idle
    BY <2>1, <1>t, CommandTyped
  <2>3. port = 0
    BY <2>1, <1>a, <1>t DEF ServerTypes, Named, OneServes
  <2> QED
    BY <2>1, <2>2, <2>3, <1>t DEF ServerInv, ServerTypes, OneServes, Named
<1>7. CASE S!StopSignal(Terminal)
  <2> DEFINE new == [pc |-> "stopping", pid |-> pidFile]
  <2>1. /\ UNCHANGED <<proc, port, pidFile>> /\ cmd' = [cmd EXCEPT ![Terminal] = new]
        /\ c.pc = "idle" /\ S!Alive(pidFile)
    BY <1>7 DEF S!StopSignal, S!Begin, c
  <2>2. pidFile \in Pids /\ new \in ServerCommand
    BY <2>1, <1>a, <1>t DEF ServerTypes, ServerCommand
  <2>3. cmd' \in [{Terminal} -> ServerCommand] /\ cmd'[Terminal] = new
    BY <2>1, <2>2, <1>t, CommandTyped
  <2> QED
    BY <2>1, <2>2, <2>3, <1>t DEF ServerInv, ServerTypes, OneServes, Named
<1>8. CASE S!EndSignalled(Terminal)
  <2>1. /\ proc' = [proc EXCEPT ![c.pid] = "dead"] /\ port' = IF port = c.pid THEN 0 ELSE port
        /\ UNCHANGED <<pidFile, cmd>> /\ c.pc = "stopping"
    BY <1>8 DEF S!EndSignalled, c
  <2>2. c.pid \in Pids
    BY <2>1, <1>t DEF Named
  <2>3. ServerTypes'
    BY <2>1, <2>2, <1>t DEF ServerTypes
  <2>4. cmd'[Terminal] = c
    BY <2>1 DEF c
  <2>5. proc'[c.pid] = "dead" /\ \A q \in Pids \ {c.pid} : proc'[q] = proc[q]
    BY <2>1, <2>2, <1>t DEF ServerTypes
  <2> QED
    BY <2>1, <2>2, <2>3, <2>4, <2>5, <1>t DEF ServerInv, OneServes, Named
<1>9. CASE S!StopDone(Terminal)
  <2>1. /\ UNCHANGED <<proc, port>> /\ pidFile' = 0 /\ cmd' = [cmd EXCEPT ![Terminal] = S!Idle]
        /\ c.pc = "stopping" /\ ~S!Alive(c.pid)
    BY <1>9 DEF S!StopDone, S!Report, c
  <2>2. cmd' \in [{Terminal} -> ServerCommand] /\ cmd'[Terminal] = S!Idle
    BY <2>1, <1>t, CommandTyped
  <2>3. port = 0
    BY <2>1, <1>a, <1>t DEF ServerTypes, Named, OneServes
  <2> QED
    BY <2>1, <2>2, <2>3, <1>t DEF ServerInv, ServerTypes, OneServes, Named
<1>10. ASSUME NEW p \in Pids, S!Boot(p) \/ S!Die(p) \/ S!Reuse(p) PROVE ServerInv'
  <2>1. UNCHANGED <<pidFile, cmd>> /\ cmd'[Terminal] = c
    BY <1>10 DEF S!Boot, S!Die, S!Reuse, c
  <2>2. ServerTypes'
    BY <1>10, <2>1, <1>t DEF S!Boot, S!Die, S!Reuse, ServerTypes
  <2>3. \A q \in Pids \ {p} : proc'[q] = proc[q]
    BY <1>10, <1>t DEF S!Boot, S!Die, S!Reuse, ServerTypes
  <2>4. CASE S!Boot(p)
    <3>1. /\ c.pc = "watch" /\ c.pid = p
          /\ \/ port = 0 /\ port' = p /\ proc'[p] = "serving"
             \/ port' = port /\ proc'[p] = "dead" /\ port # p
      BY <2>4, <1>t DEF S!Boot, OneServes, ServerTypes
    <3> QED
      BY <3>1, <2>1, <2>2, <2>3, <1>t DEF ServerInv, OneServes, Named
  <2>5. CASE S!Die(p)
    <3>1. /\ proc[p] \in {"serving", "foreign"} /\ proc'[p] = "dead"
          /\ port' = IF port = p THEN 0 ELSE port
      BY <2>5, <1>t DEF S!Die, ServerTypes
    <3> QED
      BY <3>1, <2>1, <2>2, <2>3, <1>t DEF ServerInv, OneServes, Named
  <2>6. CASE S!Reuse(p)
    <3>1. /\ proc[p] = "dead" /\ proc'[p] = "foreign" /\ port' = port
          /\ c.pc = "watch" => c.pid # p
      BY <2>6, <1>t DEF S!Reuse, ServerTypes, c
    <3> QED
      BY <3>1, <2>1, <2>2, <2>3, <1>t DEF ServerInv, OneServes, Named
  <2> QED
    BY <1>10, <2>4, <2>5, <2>6
<1>11. CASE UNCHANGED S!vars
  BY <1>11, <1>t DEF S!vars, ServerInv, ServerTypes, OneServes, Named
<1> QED
  BY <1>1, <1>2, <1>3, <1>4, <1>5, <1>6, <1>7, <1>8, <1>9, <1>10, <1>11 DEF S!Next

LEMMA ServerNamed == ServerInv => S!ServerIsNamed
  BY DEF ServerInv, ServerTypes, S!ServerIsNamed, S!Quiet, S!None, Named

\* Whatever was forced, died by itself or was renumbered, `server start` and
\* `server stop` (cli_server.py), one after the other and with children that fail in
\* time, leave the pid file naming the server that holds the port.
THEOREM ServerStaysNamed == S!Spec => []S!ServerIsNamed
<1> QED
  BY ServerBegins, ServerKept, ServerNamed, PTL DEF S!Spec

----------------------------------------------------------------------------
(* The selection of a parse: an unforced run that is alone at a TDoc has found it
   incomplete, and nobody else can have completed it since.                    *)

Calls == [pc : {"idle", "recheck", "confirm", "extract"}, force : BOOLEAN,
          chosen : SUBSET Tdocs, parsed : SUBSET Tdocs, todo : SUBSET Tdocs,
          fresh : [Tdocs -> {"none", "part", "whole"}], alone : SUBSET Tdocs,
          successes : SUBSET Tdocs, skipped : SUBSET Tdocs, failures : SUBSET Tdocs]
SelectionTypes ==
  /\ listed \subseteq Tdocs /\ archive \in [Tdocs -> P!Ends]
  /\ stored \in [Tdocs -> {"none", "part", "whole"}]
  /\ call \in [Terminals -> Calls]

At(c, d) == call[c].fresh[d] # "none"
\* Of a run that is alone at a TDoc.
AloneInOrder(c) ==
  \A d \in call[c].alone : At(c, d) =>
    /\ \A b \in Terminals \ {c} : ~At(b, d)
    /\ ~call[c].force => ~P!Complete(d)
SelectionInv == SelectionTypes /\ \A c \in Terminals : AloneInOrder(c)

LEMMA NoCallTyped == P!NoCall \in Calls /\ P!NoCall.alone = {}
  BY DEF P!NoCall, Calls

LEMMA SelectionBegins == P!Init => SelectionInv
<1> SUFFICES ASSUME P!Init PROVE SelectionInv
  OBVIOUS
<1>1. \A c \in Terminals : call[c] = P!NoCall
  BY DEF P!Init
<1>2. SelectionTypes
  BY NoCallTyped DEF P!Init, SelectionTypes
<1>3. \A c \in Terminals : AloneInOrder(c)
  BY <1>1, NoCallTyped DEF AloneInOrder
<1> QED
  BY <1>2, <1>3 DEF SelectionInv

\* A step that stores nothing, after which one run is at no more TDocs than before.
LEMMA RunLeft ==
  ASSUME SelectionInv, NEW c \in Terminals, NEW r \in Calls, call' = [call EXCEPT ![c] = r],
         \A d \in r.alone : r.fresh[d] # "none" =>
           d \in call[c].alone /\ At(c, d) /\ r.force = call[c].force,
         \A d \in Tdocs : r.fresh[d] # "none" => At(c, d),
         UNCHANGED stored, listed' \subseteq Tdocs, archive' \in [Tdocs -> P!Ends]
  PROVE  SelectionInv'
<1>t. call \in [Terminals -> Calls]
  BY DEF SelectionInv, SelectionTypes
<1>1. /\ call' \in [Terminals -> Calls] /\ call'[c] = r
      /\ \A b \in Terminals \ {c} : call'[b] = call[b]
  BY <1>t
<1>2. SelectionTypes'
  BY <1>1 DEF SelectionInv, SelectionTypes
<1>3. ASSUME NEW b \in Terminals, NEW d \in call'[b].alone, call'[b].fresh[d] # "none"
      PROVE  /\ \A e \in Terminals \ {b} : call'[e].fresh[d] = "none"
             /\ ~call'[b].force => ~P!Complete(d)
  <2>1. d \in Tdocs
    BY <1>1, <1>3 DEF Calls
  <2>2. d \in call[b].alone /\ At(b, d) /\ call'[b].force = call[b].force
    BY <1>1, <1>3 DEF At
  <2>3. /\ \A e \in Terminals \ {b} : ~At(e, d)
        /\ ~call[b].force => ~P!Complete(d)
    BY <2>2 DEF SelectionInv, AloneInOrder
  <2> QED
    BY <1>1, <2>1, <2>2, <2>3 DEF At
<1> QED
  BY <1>2, <1>3 DEF SelectionInv, AloneInOrder, At, P!Complete

\* The step, action by action.
LEMMA SelectionKept == SelectionInv /\ [P!Next]_(P!vars) => SelectionInv'
<1> SUFFICES ASSUME SelectionInv, [P!Next]_(P!vars) PROVE SelectionInv'
  OBVIOUS
<1>t. /\ call \in [Terminals -> Calls] /\ \A c \in Terminals : call[c] \in Calls
      /\ listed \subseteq Tdocs /\ archive \in [Tdocs -> P!Ends]
      /\ stored \in [Tdocs -> {"none", "part", "whole"}]
  BY DEF SelectionInv, SelectionTypes
<1>n. P!NoCall \in Calls /\ P!NoCall.alone = {} /\ \A d \in Tdocs : P!NoCall.fresh[d] = "none"
  BY DEF P!NoCall, Calls
<1> HIDE DEF P!NoCall
\* A run ends, or begins with nothing in hand.
<1>a. ASSUME NEW c \in Terminals, NEW r \in Calls, call' = [call EXCEPT ![c] = r],
             r.alone = {}, \A d \in Tdocs : r.fresh[d] = "none",
             UNCHANGED <<stored, listed, archive>>
      PROVE  SelectionInv'
  BY <1>a, <1>t, RunLeft
<1>b. ASSUME NEW c \in Terminals, NEW exit, P!Answer(c, exit), UNCHANGED <<stored, listed, archive>>
      PROVE  SelectionInv'
  BY <1>b, <1>a, <1>n DEF P!Answer
\* A run goes on, with what it has in hand.
<1>g. ASSUME NEW c \in Terminals, NEW r \in Calls, call' = [call EXCEPT ![c] = r],
             r.alone = call[c].alone, r.fresh = call[c].fresh, r.force = call[c].force,
             UNCHANGED <<stored, listed, archive>>
      PROVE  SelectionInv'
  <2>1. \A d \in r.alone : r.fresh[d] # "none" =>
          d \in call[c].alone /\ At(c, d) /\ r.force = call[c].force
    BY <1>g DEF At
  <2>2. \A d \in Tdocs : r.fresh[d] # "none" => At(c, d)
    BY <1>g DEF At
  <2>3. UNCHANGED stored /\ listed' \subseteq Tdocs /\ archive' \in [Tdocs -> P!Ends]
    BY <1>g, <1>t
  <2> QED
    BY <1>g, <2>1, <2>2, <2>3, RunLeft
<1>1. ASSUME NEW c \in Terminals, NEW force \in BOOLEAN, P!SelectNothing(c, force)
      PROVE  SelectionInv'
  <2>1. UNCHANGED <<stored, listed, archive>>
    BY <1>1 DEF P!SelectNothing
  <2>2. CASE P!Answer(c, "no match")
    BY <2>1, <2>2, <1>b
  <2>3. CASE call' = [call EXCEPT ![c].pc = "recheck"]
    <3> DEFINE r == [call[c] EXCEPT !.pc = "recheck"]
    <3>1. /\ r \in Calls /\ r.alone = call[c].alone /\ r.fresh = call[c].fresh
          /\ r.force = call[c].force
      BY <1>t DEF Calls
    <3>2. call' = [call EXCEPT ![c] = r]
      BY <2>3
    <3> HIDE DEF r
    <3> QED
      BY <3>1, <3>2, <2>1, <1>g
  <2> QED
    BY <1>1, <2>2, <2>3 DEF P!SelectNothing
<1>2. ASSUME NEW c \in Terminals, NEW force \in BOOLEAN, P!Select(c, force)
      PROVE  SelectionInv'
  <2> DEFINE D == P!Selected(force)
             pc == IF c \in Jobs THEN "extract" ELSE "confirm"
             parsed == IF force THEN {d \in D : P!Complete(d)} ELSE {}
             r == [P!NoCall EXCEPT !.pc = pc, !.force = force, !.chosen = D, !.todo = D,
                                   !.parsed = parsed]
  <2>1. D \subseteq Tdocs
    BY <1>t DEF P!Selected, P!FirstOf
  <2>2. pc \in {"extract", "confirm"} /\ parsed \subseteq Tdocs
    BY <2>1
  <2>3. call' = [call EXCEPT ![c] = r]
    BY <1>2 DEF P!Select
  <2> HIDE DEF D, pc, parsed
  <2>4. r \in Calls /\ r.alone = {} /\ \A d \in Tdocs : r.fresh[d] = "none"
    BY <2>1, <2>2, <1>n DEF Calls
  <2>5. UNCHANGED <<stored, listed, archive>>
    BY <1>2 DEF P!Select
  <2> HIDE DEF r
  <2> QED
    BY <2>3, <2>4, <2>5, <1>a
<1>3. ASSUME NEW c \in Terminals, P!Recheck(c) PROVE SelectionInv'
  BY <1>3, <1>b DEF P!Recheck
<1>4. ASSUME NEW c \in Terminals, P!Confirm(c) PROVE SelectionInv'
  <2>1. UNCHANGED <<stored, listed, archive>>
    BY <1>4 DEF P!Confirm
  <2>2. CASE P!Answer(c, "aborted")
    BY <2>1, <2>2, <1>b
  <2>3. CASE call' = [call EXCEPT ![c].pc = "extract"]
    <3> DEFINE r == [call[c] EXCEPT !.pc = "extract"]
    <3>1. /\ r \in Calls /\ r.alone = call[c].alone /\ r.fresh = call[c].fresh
          /\ r.force = call[c].force
      BY <1>t DEF Calls
    <3>2. call' = [call EXCEPT ![c] = r]
      BY <2>3
    <3> HIDE DEF r
    <3> QED
      BY <3>1, <3>2, <2>1, <1>g
  <2> QED
    BY <1>4, <2>2, <2>3 DEF P!Confirm
<1>5. ASSUME NEW c \in Terminals, P!Prepare(c) PROVE SelectionInv'
  <2>0. UNCHANGED <<stored, listed, archive>>
    BY <1>5 DEF P!Prepare
  <2>1. PICK d \in call[c].todo :
          \/ \E bucket \in {"successes", "skipped", "failures"} :
               call' = [call EXCEPT ![c].todo = @ \ {d}, ![c][bucket] = @ \cup {d}]
          \/ /\ P!Redone(c, d) /\ archive[d] \in {"whole", "part"}
             /\ call' = [b \in Terminals |->
                  IF b = c THEN [call[c] EXCEPT !.todo = @ \ {d}, !.fresh[d] = archive[d],
                                   !.alone = IF P!Others(c, d) THEN @ \ {d} ELSE @ \cup {d}]
                  ELSE [call[b] EXCEPT !.alone = @ \ {d}]]
    BY <1>5 DEF P!Prepare
  <2>d. d \in Tdocs
    BY <1>t DEF Calls
  <2>2. ASSUME NEW bucket \in {"successes", "skipped", "failures"},
               call' = [call EXCEPT ![c].todo = @ \ {d}, ![c][bucket] = @ \cup {d}]
        PROVE  SelectionInv'
    <3> DEFINE r == [call[c] EXCEPT !.todo = @ \ {d}, ![bucket] = @ \cup {d}]
    <3>1. /\ r \in Calls /\ r.alone = call[c].alone /\ r.fresh = call[c].fresh
          /\ r.force = call[c].force
      BY <1>t, <2>d, <2>2 DEF Calls
    <3>2. call' = [call EXCEPT ![c] = r]
      BY <2>2, <1>t
    <3> HIDE DEF r
    <3> QED
      BY <3>1, <3>2, <2>0, <1>g
  <2>3. ASSUME P!Redone(c, d), archive[d] \in {"whole", "part"},
               call' = [b \in Terminals |->
                  IF b = c THEN [call[c] EXCEPT !.todo = @ \ {d}, !.fresh[d] = archive[d],
                                   !.alone = IF P!Others(c, d) THEN @ \ {d} ELSE @ \cup {d}]
                  ELSE [call[b] EXCEPT !.alone = @ \ {d}]]
        PROVE  SelectionInv'
    <3> DEFINE alone == IF P!Others(c, d) THEN call[c].alone \ {d} ELSE call[c].alone \cup {d}
               r == [call[c] EXCEPT !.todo = @ \ {d}, !.fresh[d] = archive[d], !.alone = alone]
               s(b) == [call[b] EXCEPT !.alone = @ \ {d}]
    <3>1. call'[c] = r /\ \A b \in Terminals \ {c} : call'[b] = s(b)
      BY <2>3
    <3>2. /\ alone \subseteq Tdocs
          /\ d \in alone => ~P!Others(c, d)
          /\ \A e \in alone : e # d => e \in call[c].alone
      BY <1>t, <2>d DEF Calls
    <3> HIDE DEF alone
    <3>3. /\ r \in Calls /\ r.alone = alone /\ r.force = call[c].force
          /\ \A e \in Tdocs \ {d} : r.fresh[e] = call[c].fresh[e]
      <4> DEFINE fresh == [call[c].fresh EXCEPT ![d] = archive[d]]
                 todo == call[c].todo \ {d}
      <4>1. call[c] \in Calls /\ call[c].fresh \in [Tdocs -> {"none", "part", "whole"}]
        BY <1>t DEF Calls
      <4>2. /\ fresh \in [Tdocs -> {"none", "part", "whole"}]
            /\ \A e \in Tdocs \ {d} : fresh[e] = call[c].fresh[e]
        BY <4>1, <2>d, <2>3
      <4>3. todo \subseteq Tdocs
        BY <4>1 DEF Calls
      <4>4. r = [call[c] EXCEPT !.todo = todo, !.fresh = fresh, !.alone = alone]
        BY <4>1 DEF Calls
      <4> HIDE DEF fresh, todo, r
      <4>5. /\ r \in Calls /\ r.alone = alone /\ r.force = call[c].force /\ r.fresh = fresh
        BY <4>1, <4>2, <4>3, <4>4, <3>2 DEF Calls
      <4> QED
        BY <4>2, <4>5
    <3>4. ASSUME NEW b \in Terminals \ {c}
          PROVE  /\ s(b) \in Calls /\ s(b).alone = call[b].alone \ {d}
                 /\ s(b).force = call[b].force /\ s(b).fresh = call[b].fresh
      <4>1. call[b] \in Calls
        BY <1>t
      <4> QED
        BY <4>1 DEF Calls
    <3> HIDE DEF r, s
    <3>5. SelectionTypes'
      <4>1. \A b \in Terminals : call'[b] \in Calls
        BY <3>1, <3>3, <3>4
      <4>2. call' \in [Terminals -> Calls]
        BY <4>1, <2>3
      <4> QED
        BY <4>2, <2>0, <1>t DEF SelectionTypes
    <3>6. ASSUME NEW b \in Terminals, NEW e \in call'[b].alone, call'[b].fresh[e] # "none"
          PROVE  /\ \A f \in Terminals \ {b} : call'[f].fresh[e] = "none"
                 /\ ~call'[b].force => ~P!Complete(e)
      <4>0. e \in Tdocs
        BY <3>1, <3>2, <3>3, <3>4, <3>6, <1>t DEF Calls
      <4>1. CASE b = c /\ e = d
        <5>1. ~P!Others(c, d) /\ \A f \in Terminals \ {c} : call[f].fresh[d] = "none"
          BY <4>1, <3>1, <3>2, <3>3, <3>6 DEF P!Others
        <5>2. ~call[c].force => ~P!Complete(d)
          BY <2>3 DEF P!Redone
        <5> QED
          BY <4>1, <5>1, <5>2, <3>1, <3>3, <3>4
      <4>2. CASE e # d
        <5>1. /\ e \in call[b].alone /\ call'[b].force = call[b].force
              /\ \A f \in Terminals : call'[f].fresh[e] = call[f].fresh[e]
          BY <4>0, <4>2, <3>1, <3>2, <3>3, <3>4, <3>6
        <5> QED
          BY <5>1, <3>6 DEF SelectionInv, AloneInOrder, At
      <4>3. CASE b # c /\ e = d
        BY <4>3, <3>1, <3>4, <3>6
      <4> QED
        BY <4>1, <4>2, <4>3
    <3> QED
      BY <3>5, <3>6, <2>0 DEF SelectionInv, AloneInOrder, At, P!Complete
  <2> QED
    BY <2>1, <2>2, <2>3
<1>6. ASSUME NEW c \in Terminals, P!Persist(c) PROVE SelectionInv'
  <2>1. PICK d \in Tdocs :
          /\ call[c].fresh[d] # "none"
          /\ stored' = [stored EXCEPT ![d] = call[c].fresh[d]]
          /\ call' = [call EXCEPT ![c].fresh[d] = "none", ![c].successes = @ \cup {d}]
    BY <1>6 DEF P!Persist
  <2> DEFINE r == [call[c] EXCEPT !.fresh[d] = "none", !.successes = @ \cup {d}]
  <2>2. /\ r \in Calls /\ r.alone = call[c].alone /\ r.force = call[c].force
        /\ r.fresh[d] = "none" /\ \A e \in Tdocs \ {d} : r.fresh[e] = call[c].fresh[e]
    <3>1. call[c] \in Calls
      BY <1>t
    <3> QED
      BY <3>1 DEF Calls
  <2>3. call' = [call EXCEPT ![c] = r]
    BY <2>1, <1>t
  <2> HIDE DEF r
  <2>4. /\ call' \in [Terminals -> Calls] /\ call'[c] = r
        /\ \A b \in Terminals \ {c} : call'[b] = call[b]
    BY <2>2, <2>3, <1>t
  <2>5. stored' \in [Tdocs -> {"none", "part", "whole"}]
    <3>1. call[c].fresh[d] \in {"none", "part", "whole"}
      BY <1>t DEF Calls
    <3> QED
      BY <3>1, <2>1, <1>t
  <2>6. SelectionTypes'
    BY <2>4, <2>5, <1>6, <1>t DEF SelectionTypes, P!Persist
  <2>7. ASSUME NEW b \in Terminals, NEW e \in call'[b].alone, call'[b].fresh[e] # "none"
        PROVE  /\ \A f \in Terminals \ {b} : call'[f].fresh[e] = "none"
               /\ ~call'[b].force => stored'[e] # "whole"
    <3>1. e \in call[b].alone /\ call'[b].force = call[b].force /\ e \in Tdocs
      BY <2>2, <2>4, <2>7, <1>t DEF Calls
    <3>2. At(b, e)
      BY <2>2, <2>4, <2>7, <3>1 DEF At
    <3>3. /\ \A f \in Terminals \ {b} : ~At(f, e)
          /\ ~call[b].force => stored[e] # "whole"
      BY <3>1, <3>2 DEF SelectionInv, AloneInOrder, P!Complete
    <3>4. e # d
      <4>1. CASE b = c
        BY <4>1, <2>2, <2>4, <2>7
      <4>2. CASE b # c
        BY <4>2, <3>3, <2>1 DEF At
      <4> QED
        BY <4>1, <4>2
    <3>5. \A f \in Terminals \ {b} : call'[f].fresh[e] = "none"
      <4>1. \A f \in Terminals : call'[f].fresh[e] = call[f].fresh[e]
        BY <3>1, <3>4, <2>2, <2>4
      <4> QED
        BY <4>1, <3>3 DEF At
    <3>6. stored'[e] = stored[e]
      BY <3>1, <3>4, <2>1, <1>t
    <3> QED
      BY <3>1, <3>3, <3>5, <3>6
  <2> QED
    BY <2>6, <2>7 DEF SelectionInv, AloneInOrder, At, P!Complete
<1>7. ASSUME NEW c \in Terminals, P!BreakOff(c) PROVE SelectionInv'
  BY <1>7, <1>b DEF P!BreakOff
<1>8. ASSUME NEW c \in Terminals, P!Report(c) PROVE SelectionInv'
  <2>1. call' = [call EXCEPT ![c] = P!NoCall] /\ UNCHANGED <<stored, listed, archive>>
    BY <1>8 DEF P!Report
  <2> QED
    BY <2>1, <1>a, <1>n
<1>9. CASE UNCHANGED <<call, stored>> /\ listed' \subseteq Tdocs /\ archive' \in [Tdocs -> P!Ends]
  BY <1>9 DEF SelectionInv, SelectionTypes, AloneInOrder, At, P!Complete
<1>10. CASE P!Sync
  BY <1>9, <1>10, <1>t DEF P!Sync
<1>11. ASSUME NEW d \in Tdocs, P!Change(d) PROVE SelectionInv'
  BY <1>9, <1>11, <1>t DEF P!Change
<1>12. CASE UNCHANGED P!vars
  BY <1>9, <1>12, <1>t DEF P!vars
<1> QED
  BY <1>1, <1>2, <1>3, <1>4, <1>5, <1>6, <1>7, <1>8, <1>10, <1>11, <1>12 DEF P!Next

LEMMA SelectionStep == SelectionInv /\ [P!Next]_(P!vars) => ~P!CompleteLost
<1> SUFFICES ASSUME SelectionInv, [P!Next]_(P!vars), NEW d \in Tdocs, P!Complete(d),
                    stored'[d] # "whole",
                    \A c \in Terminals : P!Stores(c, d) => ~call[c].force /\ d \in call[c].alone
             PROVE  FALSE
  BY DEF P!CompleteLost
<1>1. stored' # stored
  BY DEF P!Complete
<1>2. PICK c \in Terminals : P!Persist(c)
  BY <1>1 DEF P!Next, P!vars, P!SelectNothing, P!Select, P!Recheck, P!Confirm, P!Prepare,
              P!BreakOff, P!Report, P!Sync, P!Change
<1>3. PICK e \in Tdocs : call[c].fresh[e] # "none" /\ stored' = [stored EXCEPT ![e] = call[c].fresh[e]]
  BY <1>2 DEF P!Persist
<1>4. e = d /\ stored'[d] = call[c].fresh[d]
  BY <1>3 DEF P!Complete, SelectionInv, SelectionTypes
<1>5. ~call[c].force /\ d \in call[c].alone
  BY <1>3, <1>4 DEF P!Stores
<1> QED
  BY <1>3, <1>4, <1>5 DEF SelectionInv, AloneInOrder, At

\* However long a prompt was open and whoever stored a TDoc meanwhile, `tdoc parse` and
\* the job (cli.py, tdoc_parse; handlers.py), which write without a second look
\* (tdoc_cr_service.py, persist_prepared_extract), make a complete TDoc incomplete only
\* when they were forced to or when two of them were at it at once.
THEOREM CompleteStays == P!Spec => P!CompleteKept
<1>1. SelectionInv /\ [P!Next]_(P!vars) => [~P!CompleteLost]_(P!vars)
  BY SelectionStep
<1> QED
  BY SelectionBegins, SelectionKept, <1>1, PTL DEF P!Spec, P!CompleteKept

----------------------------------------------------------------------------
(* Batches of local files: what a run will write next is what it has opened, and
   the counters and the files that are left add up to the inputs.              *)

LessNat == {ss \in Nat \X Nat : ss[1] < ss[2]}
LEMMA LessWF == IsWellFoundedOn(LessNat, Nat)
  BY NatLessThanWellFounded DEF OpToRel, LessNat

\* Numbers have a least one among them.
LEMMA Least ==
  ASSUME NEW T, T \subseteq Nat, T # {}
  PROVE  \E m \in T : \A n \in T : m <= n
<1>1. \E m \in T : \A n \in T : ~ (<<n, m>> \in LessNat)
  BY LessWF, WFMin
<1>2. PICK m \in T : \A n \in T : ~ (<<n, m>> \in LessNat)
  BY <1>1
<1>3. \A n \in T : ~ (n < m)
  BY <1>2 DEF LessNat
<1> QED
  BY <1>3

\* Inputs that are left have a first one.
LEMMA FirstInput ==
  ASSUME NEW todo \in SUBSET Inputs, todo # {}
  PROVE  LET i == CHOOSE j \in todo : \A k \in todo : j <= k IN i \in todo
<1>1. todo \subseteq Nat
  BY InputsAreRanks
<1>2. \E j \in todo : \A k \in todo : j <= k
  BY <1>1, Least
<1> QED
  BY <1>2

CountType == [B!Counters -> Nat]
BatchRuns == [pc : {"idle", "emit", "write"}, force : BOOLEAN, todo : SUBSET Inputs, count : CountType]
BatchTypes ==
  /\ out \in [B!Paths -> [of : Inputs \cup {0}, whole : BOOLEAN]]
  /\ run \in [{Terminal} -> BatchRuns]
  /\ told \in [{Terminal} -> [exit : {"none", "ok", "failed"}, count : CountType]]

\* The file that is being written is not whole.
Opened(r) ==
  r.pc = "write" => r.todo # {} /\ ~out[Stem[B!Current(Terminal)]].whole
AddsUp(r) == r.pc # "idle" => B!Total(r.count) + Cardinality(r.todo) = Cardinality(Inputs)

BatchInv ==
  /\ BatchTypes
  /\ Opened(run[Terminal]) /\ AddsUp(run[Terminal])
  /\ B!EveryInputCounted

\* What EveryInputCounted and the counters need of sums.
LEMMA BatchCardinality == \A X : B!Cardinality(X) = Cardinality(X)
  BY DEF B!Cardinality, Cardinality

LEMMA Parts ==
  ASSUME NEW X, NEW Y, IsFiniteSet(X), IsFiniteSet(Y), X \cap Y = {}
  PROVE  IsFiniteSet(X \cup Y) /\ Cardinality(X \cup Y) = Cardinality(X) + Cardinality(Y)
<1>1. Cardinality(X) \in Nat /\ Cardinality(Y) \in Nat /\ Cardinality(X \cap Y) = 0
  BY FS_CardinalityType, FS_EmptySet
<1>2. /\ IsFiniteSet(X \cup Y)
      /\ Cardinality(X \cup Y) = Cardinality(X) + Cardinality(Y) - Cardinality(X \cap Y)
  BY FS_Union
<1> QED
  BY <1>1, <1>2

LEMMA OneMore ==
  ASSUME NEW n \in CountType, NEW k \in B!Counters
  PROVE  LET m == [n EXCEPT ![k] = @ + 1] IN m \in CountType /\ B!Total(m) = B!Total(n) + 1
  BY DEF CountType, B!Counters, B!Total

\* One input fewer is left, and it is counted.
LEMMA InputCounted ==
  ASSUME BatchInv, NEW k \in B!Counters, run[Terminal].pc # "idle", run[Terminal].todo # {},
         run' = [run EXCEPT ![Terminal] =
                   [run[Terminal] EXCEPT !.todo = run[Terminal].todo \ {B!Current(Terminal)},
                                         !.count = [run[Terminal].count EXCEPT ![k] = @ + 1],
                                         !.pc = "emit"]]
  PROVE  run' \in [{Terminal} -> BatchRuns] /\ run'[Terminal].pc = "emit" /\ AddsUp(run[Terminal])'
<1> DEFINE r == run[Terminal]
           i == B!Current(Terminal)
           n == [r.count EXCEPT ![k] = @ + 1]
<1>1. run \in [{Terminal} -> BatchRuns] /\ r \in BatchRuns /\ r.count \in CountType
      /\ r.todo \in SUBSET Inputs
  BY DEF BatchInv, BatchTypes, BatchRuns
<1>2. i \in r.todo
  BY <1>1, FirstInput DEF B!Current
<1>3. n \in CountType /\ B!Total(n) = B!Total(r.count) + 1
  BY <1>1, OneMore
<1>4. /\ IsFiniteSet(r.todo) /\ Cardinality(r.todo) \in Nat
      /\ Cardinality(r.todo \ {i}) = Cardinality(r.todo) - 1
  BY <1>1, <1>2, InputsAreRanks, FS_Subset, FS_RemoveElement, FS_CardinalityType
<1>5. B!Total(r.count) \in Nat
  BY <1>1 DEF B!Total, CountType, B!Counters
<1> HIDE DEF n, i
<1>6. [r EXCEPT !.todo = r.todo \ {i}, !.count = n, !.pc = "emit"] \in BatchRuns
  BY <1>1, <1>3 DEF BatchRuns
<1>7. run'[Terminal] = [r EXCEPT !.todo = r.todo \ {i}, !.count = n, !.pc = "emit"]
  BY <1>1 DEF n, i
<1>8. /\ run'[Terminal].pc = "emit" /\ run'[Terminal].todo = r.todo \ {i}
      /\ run'[Terminal].count = n
  BY <1>1, <1>7 DEF BatchRuns
<1>9. run' \in [{Terminal} -> BatchRuns]
  BY <1>1, <1>6 DEF n, i
<1>10. B!Total(r.count) + Cardinality(r.todo) = Cardinality(Inputs)
  BY DEF BatchInv, AddsUp
<1>11. B!Total(n) + Cardinality(r.todo \ {i}) = Cardinality(Inputs)
  BY <1>3, <1>4, <1>5, <1>10
<1>12. AddsUp(run[Terminal])'
  BY <1>8, <1>11 DEF AddsUp
<1> QED
  BY <1>8, <1>9, <1>12

LEMMA BatchBegins == B!Init => BatchInv
<1> SUFFICES ASSUME B!Init PROVE BatchInv
  OBVIOUS
<1> DEFINE none == [k \in B!Counters |-> 0]
<1>1. none \in CountType
  BY DEF CountType
<1> HIDE DEF none
<1>2. /\ B!NoFile \in [of : Inputs \cup {0}, whole : BOOLEAN]
      /\ B!NoRun \in BatchRuns /\ B!NoRun.pc = "idle"
      /\ B!NoSummary \in [exit : {"none", "ok", "failed"}, count : CountType]
      /\ B!NoSummary.exit = "none"
  BY <1>1 DEF B!NoFile, B!NoRun, B!NoSummary, BatchRuns, none
<1> HIDE DEF B!NoFile, B!NoRun, B!NoSummary
<1>3. BatchTypes /\ run[Terminal] = B!NoRun /\ told[Terminal] = B!NoSummary
  BY <1>2 DEF B!Init, BatchTypes
<1> QED
  BY <1>2, <1>3 DEF BatchInv, Opened, AddsUp, B!EveryInputCounted

LEMMA BatchStart ==
  ASSUME BatchInv, NEW force \in BOOLEAN, B!Start(Terminal, force)
  PROVE  BatchInv'
<1> DEFINE W(k) == {i \in Inputs : B!AtOnce(i, force) = k}
           n == [k \in B!Counters |-> Cardinality(W(k))]
           new == [pc |-> "emit", force |-> force, todo |-> W("pending"), count |-> n]
<1>1. UNCHANGED <<out, told>> /\ run' = [run EXCEPT ![Terminal] = new]
  BY BatchCardinality DEF B!Start
<1>2. \A i \in Inputs : B!AtOnce(i, force) \in {"skipped", "oversized", "failures", "pending"}
  BY DEF B!AtOnce
<1>3. \A k : IsFiniteSet(W(k)) /\ Cardinality(W(k)) \in Nat
  <2>1. \A k : W(k) \in SUBSET Inputs
    OBVIOUS
  <2> HIDE DEF W
  <2> QED
    BY <2>1, InputsAreRanks, FS_Subset, FS_CardinalityType
<1>4. n \in CountType
  BY <1>3 DEF CountType
<1>5. B!Total(n) + Cardinality(W("pending")) = Cardinality(Inputs)
  <2>1. W("type") = {} /\ W("again") = {} /\ W("newly") = {}
    BY <1>2
  <2>2. /\ Inputs = (W("skipped") \cup W("oversized")) \cup (W("failures") \cup W("pending"))
        /\ (W("skipped") \cup W("oversized")) \cap (W("failures") \cup W("pending")) = {}
        /\ W("skipped") \cap W("oversized") = {} /\ W("failures") \cap W("pending") = {}
    BY <1>2
  <2>3. B!Total(n) = Cardinality(W("skipped")) + Cardinality(W("oversized")) + Cardinality(W("type"))
          + Cardinality(W("again")) + Cardinality(W("newly")) + Cardinality(W("failures"))
    BY DEF B!Total, B!Counters
  <2> HIDE DEF W, n
  <2>4. /\ IsFiniteSet(W("skipped") \cup W("oversized"))
        /\ Cardinality(W("skipped") \cup W("oversized"))
             = Cardinality(W("skipped")) + Cardinality(W("oversized"))
    BY <1>3, <2>2, Parts
  <2>5. /\ IsFiniteSet(W("failures") \cup W("pending"))
        /\ Cardinality(W("failures") \cup W("pending"))
             = Cardinality(W("failures")) + Cardinality(W("pending"))
    BY <1>3, <2>2, Parts
  <2>6. Cardinality(Inputs) = Cardinality(W("skipped")) + Cardinality(W("oversized"))
                              + (Cardinality(W("failures")) + Cardinality(W("pending")))
    BY <2>2, <2>4, <2>5, Parts
  <2>7. Cardinality(W("type")) = 0 /\ Cardinality(W("again")) = 0 /\ Cardinality(W("newly")) = 0
    BY <2>1, FS_EmptySet
  <2> QED
    BY <1>3, <2>3, <2>6, <2>7
<1>6. W("pending") \in SUBSET Inputs
  OBVIOUS
<1> HIDE DEF W, n
<1>7. new \in BatchRuns /\ new.pc = "emit" /\ new.count = n /\ new.todo = W("pending")
  BY <1>4, <1>6 DEF BatchRuns
<1> HIDE DEF new
<1>8. BatchTypes' /\ run'[Terminal] = new
  BY <1>1, <1>7 DEF BatchInv, BatchTypes
<1> QED
  BY <1>1, <1>5, <1>7, <1>8 DEF BatchInv, Opened, AddsUp, B!EveryInputCounted

\* A run that ends, with its summary or without.
LEMMA BatchEnded ==
  ASSUME BatchInv, run' = [run EXCEPT ![Terminal] = B!NoRun], UNCHANGED out, B!EveryInputCounted',
         told' \in [{Terminal} -> [exit : {"none", "ok", "failed"}, count : CountType]]
  PROVE  BatchInv'
<1>1. B!NoRun \in BatchRuns /\ B!NoRun.pc = "idle"
  BY DEF B!NoRun, BatchRuns, CountType
<1> HIDE DEF B!NoRun
<1>2. BatchTypes' /\ run'[Terminal] = B!NoRun
  BY <1>1 DEF BatchInv, BatchTypes
<1> QED
  BY <1>1, <1>2 DEF BatchInv, Opened, AddsUp

LEMMA BatchKept == BatchInv /\ [B!Next]_(B!vars) => BatchInv'
<1> SUFFICES ASSUME BatchInv, [B!Next]_(B!vars) PROVE BatchInv'
  OBVIOUS
<1> DEFINE r == run[Terminal]
           i == B!Current(Terminal)
<1>t. /\ run \in [{Terminal} -> BatchRuns] /\ r \in BatchRuns /\ r.count \in CountType
      /\ r.todo \in SUBSET Inputs
      /\ out \in [B!Paths -> [of : Inputs \cup {0}, whole : BOOLEAN]]
      /\ told \in [{Terminal} -> [exit : {"none", "ok", "failed"}, count : CountType]]
  BY DEF BatchInv, BatchTypes, BatchRuns
<1>1. CASE B!Pass(Terminal)
  <2> DEFINE k == B!Bucket(Terminal)
  <2>1. k \in B!Counters
    BY <1>1 DEF B!Pass, B!Bucket, B!Counters
  <2>2. [c \in B!Counters |-> IF c = k THEN r.count[c] + 1 ELSE r.count[c]]
          = [r.count EXCEPT ![k] = @ + 1]
    BY <1>t DEF CountType
  <2>3. /\ run' = [run EXCEPT ![Terminal] =
                     [r EXCEPT !.todo = r.todo \ {i}, !.count = [r.count EXCEPT ![k] = @ + 1],
                               !.pc = "emit"]]
        /\ r.pc = "emit" /\ r.todo # {}
    <3>1. /\ run' = [run EXCEPT ![Terminal] =
                       [r EXCEPT !.todo = r.todo \ {i},
                                 !.count = [c \in B!Counters |-> IF c = k THEN r.count[c] + 1
                                                                 ELSE r.count[c]]]]
          /\ r.pc = "emit" /\ r.todo # {} 
      BY <1>1, <1>t DEF B!Pass
    <3> HIDE DEF k, i
    <3> QED
      BY <1>t, <2>2, <3>1 DEF BatchRuns
  <2> HIDE DEF k
  <2>4. run' \in [{Terminal} -> BatchRuns] /\ run'[Terminal].pc = "emit" /\ AddsUp(run[Terminal])'
    BY <2>1, <2>3, InputCounted
  <2> QED
    BY <1>1, <2>4 DEF B!Pass, BatchInv, BatchTypes, Opened, B!EveryInputCounted
<1>2. CASE B!Open(Terminal)
  <2>1. i \in r.todo /\ r.todo # {}
    BY <1>2, <1>t, FirstInput DEF B!Open, B!Current
  <2>2. Stem[i] \in B!Paths /\ i \in Inputs
    BY <2>1, <1>t DEF B!Paths
  <2>3. /\ run'[Terminal] = [r EXCEPT !.pc = "write"] /\ run' \in [{Terminal} -> BatchRuns]
        /\ r.pc = "emit"
    BY <1>2, <1>t DEF B!Open, BatchRuns
  <2>4. run'[Terminal].todo = r.todo /\ run'[Terminal].count = r.count /\ run'[Terminal].pc = "write"
    BY <2>3, <1>t DEF BatchRuns
  <2>5. B!Current(Terminal)' = i
    BY <2>4 DEF B!Current
  <2> DEFINE new == [of |-> i, whole |-> FALSE]
  <2>6. out' = [out EXCEPT ![Stem[i]] = new]
    BY <1>2 DEF B!Open
  <2> HIDE DEF i
  <2>7. /\ out' \in [B!Paths -> [of : Inputs \cup {0}, whole : BOOLEAN]]
        /\ ~out'[Stem[i]].whole
    BY <2>2, <2>6, <1>t
  <2>8. BatchTypes' /\ Opened(run[Terminal])'
    BY <1>2, <2>1, <2>3, <2>4, <2>5, <2>7, <1>t DEF B!Open, BatchTypes, Opened
  <2>9. AddsUp(run[Terminal])'
    BY <2>3, <2>4 DEF BatchInv, AddsUp
  <2> QED
    BY <1>2, <2>8, <2>9 DEF B!Open, BatchInv, B!EveryInputCounted
<1>3. ASSUME NEW k \in B!Counters, r.pc = "write", B!Counted(Terminal, k),
             out' \in [B!Paths -> [of : Inputs \cup {0}, whole : BOOLEAN]], UNCHANGED told
      PROVE  BatchInv'
  <2>1. run' = [run EXCEPT ![Terminal] =
                     [r EXCEPT !.todo = r.todo \ {i}, !.count = [r.count EXCEPT ![k] = @ + 1],
                               !.pc = "emit"]]
    BY <1>3, <1>t DEF B!Counted, B!Plus
  <2>2. r.todo # {}
    BY <1>3 DEF BatchInv, Opened
  <2>3. run' \in [{Terminal} -> BatchRuns] /\ run'[Terminal].pc = "emit" /\ AddsUp(run[Terminal])'
    BY <1>3, <2>1, <2>2, InputCounted
  <2> QED
    BY <1>3, <2>3, <1>t DEF BatchInv, BatchTypes, Opened, B!EveryInputCounted
<1>4. CASE B!Write(Terminal)
  <2>1. i \in Inputs /\ Stem[i] \in B!Paths
    BY <1>4, <1>t, FirstInput DEF B!Write, B!Current, B!Paths, BatchInv, Opened
  <2>2. out' \in [B!Paths -> [of : Inputs \cup {0}, whole : BOOLEAN]]
    BY <1>4, <2>1, <1>t DEF B!Write
  <2>3. PICK k \in {"again", "newly"} : B!Counted(Terminal, k)
    BY <1>4 DEF B!Write
  <2> QED
    BY <1>3, <1>4, <2>2, <2>3 DEF B!Write, B!Counters
<1>5. CASE B!WriteFails(Terminal)
  BY <1>3, <1>5, <1>t DEF B!WriteFails, B!Counters
<1>6. CASE B!Summary(Terminal)
  <2> DEFINE exit == IF r.count["failures"] > 0 /\ r.count["newly"] + r.count["again"] = 0
                          /\ r.count["oversized"] = 0
                     THEN "failed" ELSE "ok"
             new == [exit |-> exit, count |-> r.count]
  <2>1. /\ told' = [told EXCEPT ![Terminal] = new] /\ run' = [run EXCEPT ![Terminal] = B!NoRun]
        /\ UNCHANGED out /\ r.pc = "emit" /\ r.todo = {}
    BY <1>6 DEF B!Summary
  <2>2. new \in [exit : {"none", "ok", "failed"}, count : CountType] /\ new.count = r.count
    BY <1>t
  <2> HIDE DEF new
  <2>3. /\ told' \in [{Terminal} -> [exit : {"none", "ok", "failed"}, count : CountType]]
        /\ told'[Terminal].count = r.count
    BY <2>1, <2>2, <1>t
  <2>4. B!Total(r.count) = Cardinality(Inputs)
    <3>1. B!Total(r.count) + Cardinality({}) = Cardinality(Inputs) /\ B!Total(r.count) \in Nat
      BY <2>1, <1>t DEF BatchInv, AddsUp, B!Total, CountType, B!Counters
    <3> QED
      BY <3>1, FS_EmptySet
  <2>5. B!EveryInputCounted'
    BY <2>3, <2>4, BatchCardinality DEF B!EveryInputCounted
  <2> QED
    BY <2>1, <2>3, <2>5, BatchEnded
<1>7. CASE B!Kill(Terminal)
  BY <1>7, <1>t, BatchEnded DEF B!Kill, BatchInv, B!EveryInputCounted
<1>8. CASE UNCHANGED B!vars
  BY <1>8 DEF B!vars, BatchInv, BatchTypes, Opened, AddsUp, B!EveryInputCounted, B!Current
<1> QED
  BY <1>1, <1>2, <1>4, <1>5, <1>6, <1>7, <1>8, BatchStart DEF B!Next

LEMMA BatchStep == BatchInv /\ [B!Next]_(B!vars) => ~B!Overwritten
<1> SUFFICES ASSUME BatchInv, [B!Next]_(B!vars), B!Overwritten PROVE FALSE
  OBVIOUS
<1> DEFINE r == run[Terminal]
           i == B!Current(Terminal)
<1>1. PICK p \in B!Paths : /\ r.pc # "idle" /\ ~r.force /\ B!Exists(p) /\ out[p].whole
                           /\ out'[p] # out[p]
  BY DEF B!Overwritten
<1>2. B!Open(Terminal) \/ B!Write(Terminal)
  BY <1>1 DEF B!Next, B!vars, B!Start, B!Pass, B!WriteFails, B!Summary, B!Kill
<1>3. DOMAIN out = B!Paths
  BY DEF BatchInv, BatchTypes
<1>4. p = Stem[i]
  BY <1>1, <1>2, <1>3 DEF B!Open, B!Write
<1>5. CASE B!Open(Terminal)
  BY <1>1, <1>4, <1>5 DEF B!Open, B!Bucket
<1>6. CASE B!Write(Terminal)
  BY <1>1, <1>4, <1>6 DEF B!Write, BatchInv, Opened
<1> QED
  BY <1>2, <1>5, <1>6

\* Batches one after the other, killed ones too (cli.py, _tdoc_parse_local_batch):
\* what one without --force finds whole it leaves as it is, also when it came into
\* being after the run had looked for it, and every summary counts every input once.
THEOREM BatchesAreTrue == B!Spec => B!BatchIsTrue
<1>1. BatchInv /\ BatchInv' /\ [B!Next]_(B!vars) => [~B!Overwritten /\ B!EveryInputCounted']_(B!vars)
  BY BatchStep DEF BatchInv
<1> QED
  BY BatchBegins, BatchKept, <1>1, PTL DEF B!Spec, B!BatchIsTrue

----------------------------------------------------------------------------
(* What commands write: the order of the steps in their programs.             *)

\* The steps that neither write to FILE nor delete a database, and all steps.
Kinds == {"check", "ask", "look", "list", "read", "store", "seed", "try", "purge", "sync", "schema"}
Steps == Kinds \cup L!Databases \cup {"open", "part"}

\* Once FILE is open only parts are written to it; once a database is deleted nothing
\* is tested or asked any more.
Late == {"check", "ask", "look"}
InOrder(todo) ==
  \A j, k \in 1 .. Len(todo) : j < k =>
    /\ todo[j] = "open" => todo[k] \in {"open", "part"}
    /\ todo[j] \in L!Databases => todo[k] \notin Late
Programs == {todo \in Seq(Steps) : InOrder(todo)}

LEMMA QuietInOrder ==
  ASSUME NEW todo \in Seq(Kinds)
  PROVE  todo \in Programs
<1>1. todo \in Seq(Steps) /\ \A k \in 1 .. Len(todo) : todo[k] \in Kinds
  BY DEF Steps
<1> QED
  BY <1>1 DEF Programs, InOrder, Kinds, L!Databases

LEMMA EmitInOrder ==
  ASSUME NEW todo \in Seq(Kinds)
  PROVE  todo \o L!Emit \in Programs
<1> DEFINE e == <<"open", "part">>
           s == todo \o e
<1>1. e \in Seq(Steps) /\ Len(e) = 2 /\ e[1] = "open" /\ e[2] = "part"
  BY DEF Steps
<1>2. todo \in Seq(Steps) /\ Len(todo) \in Nat /\ \A k \in 1 .. Len(todo) : todo[k] \in Kinds
  BY DEF Steps
<1> HIDE DEF e
<1>3. /\ s \in Seq(Steps) /\ Len(s) = Len(todo) + Len(e)
      /\ \A k \in 1 .. Len(todo) + Len(e) :
           s[k] = IF k <= Len(todo) THEN todo[k] ELSE e[k - Len(todo)]
  BY <1>1, <1>2, ConcatProperties
<1> HIDE DEF s
<1>4. /\ \A k \in 1 .. Len(s) : k <= Len(todo) \/ k = Len(todo) + 1 \/ k = Len(todo) + 2
      /\ \A k \in 1 .. Len(todo) : s[k] \in Kinds
      /\ s[Len(todo) + 1] = "open" /\ s[Len(todo) + 2] = "part"
  <2>1. Len(s) = Len(todo) + 2
    BY <1>1, <1>3
  <2>2. \A k \in 1 .. Len(todo) : s[k] \in Kinds
    BY <1>1, <1>2, <1>3
  <2>3. s[Len(todo) + 1] = e[1] /\ s[Len(todo) + 2] = e[2]
    BY <1>1, <1>2, <1>3
  <2> QED
    BY <1>1, <1>2, <2>1, <2>2, <2>3
<1>5. InOrder(s)
  <2> SUFFICES ASSUME NEW j \in 1 .. Len(s), NEW k \in 1 .. Len(s), j < k
               PROVE  /\ s[j] = "open" => s[k] \in {"open", "part"}
                      /\ s[j] \in L!Databases => s[k] \notin Late
    BY DEF InOrder
  <2>1. CASE j <= Len(todo)
    <3>1. s[j] \in Kinds
      BY <2>1, <1>2, <1>4
    <3> QED
      BY <3>1 DEF Kinds, L!Databases
  <2>2. CASE j = Len(todo) + 1
    <3>1. s[j] = "open" /\ s[k] = "part"
      BY <2>2, <1>2, <1>4
    <3> QED
      BY <3>1 DEF L!Databases
  <2>3. CASE j = Len(todo) + 2
    <3>1. FALSE
      BY <2>3, <1>2, <1>4
    <3> QED
      BY <3>1
  <2> QED
    BY <1>4, <2>1, <2>2, <2>3
<1> QED
  BY <1>3, <1>5 DEF Programs, L!Emit, s, e

LEMMA CommandsInOrder == \A name \in L!Commands : L!Program[name] \in Programs
<1>1. /\ L!cache_purge \in Programs /\ L!db_check \in Programs /\ L!db_init \in Programs
      /\ L!meeting_sync \in Programs /\ L!tdoc_sync \in Programs
  <2>1. /\ <<"check", "ask", "purge">> \in Seq(Kinds)
        /\ <<"check", "try">> \in Seq(Kinds)
        /\ <<"check", "schema", "seed">> \in Seq(Kinds)
        /\ <<"schema", "seed", "list", "look", "try", "store">> \in Seq(Kinds)
        /\ <<"check", "list", "look", "try", "store">> \in Seq(Kinds)
    BY DEF Kinds
  <2> QED
    BY <2>1, QuietInOrder DEF L!cache_purge, L!db_check, L!db_init, L!meeting_sync,
                                  L!tdoc_sync
<1>2. /\ L!tdoc_search \in Programs /\ L!tdoc_index \in Programs /\ L!tsg_show \in Programs
      /\ L!tsg_seed \in Programs /\ L!wi_sync \in Programs
  <2>1. /\ <<"check", "try", "read">> \in Seq(Kinds)
        /\ <<"check", "read", "try", "store">> \in Seq(Kinds)
        /\ <<"look">> \in Seq(Kinds)
        /\ <<"schema", "seed">> \in Seq(Kinds)
        /\ <<"schema", "seed", "look", "try", "store">> \in Seq(Kinds)
    BY DEF Kinds
  <2> QED
    BY <2>1, QuietInOrder DEF L!tdoc_search, L!tdoc_index, L!tsg_show, L!tsg_seed, L!wi_sync
<1>3. /\ L!spec_sync \in Programs /\ L!spec_sync_one \in Programs /\ L!spec_doc_index \in Programs
      /\ L!spec_doc_parse \in Programs /\ L!testcase_sync \in Programs
  <2>1. /\ <<"schema", "seed", "check", "list", "look", "try", "store">> \in Seq(Kinds)
        /\ <<"schema", "seed", "check", "try", "look", "store">> \in Seq(Kinds)
        /\ <<"check", "read", "try", "store">> \in Seq(Kinds)
        /\ <<"schema", "check", "try", "store">> \in Seq(Kinds)
        /\ <<"schema", "try", "store">> \in Seq(Kinds)
    BY DEF Kinds
  <2> QED
    BY <2>1, QuietInOrder DEF L!spec_sync, L!spec_sync_one, L!spec_doc_index,
                                  L!spec_doc_parse, L!testcase_sync
<1>4. /\ L!meeting_list \in Programs /\ L!resource_schema \in Programs /\ L!tdoc_list \in Programs
      /\ L!tdoc_parse_path \in Programs /\ L!tdoc_parse_url \in Programs
  <2>1. /\ <<"check", "sync", "read">> \in Seq(Kinds)
        /\ <<"check">> \in Seq(Kinds)
        /\ <<"check", "sync", "check", "try">> \in Seq(Kinds)
        /\ <<"check", "sync", "check", "try", "store", "try">> \in Seq(Kinds)
    BY DEF Kinds
  <2> QED
    BY <2>1, EmitInOrder DEF L!meeting_list, L!resource_schema, L!tdoc_list,
                                 L!tdoc_parse_path, L!tdoc_parse_url
<1>5. /\ L!tdoc_show \in Programs /\ L!tdoc_show_raw \in Programs /\ L!tdoc_show_url \in Programs
      /\ L!tsg_list \in Programs /\ L!wi_list \in Programs
  <2>1. /\ <<"check", "sync", "look", "read">> \in Seq(Kinds)
        /\ <<"check", "sync", "look", "try", "store", "look">> \in Seq(Kinds)
        /\ <<"check", "look">> \in Seq(Kinds)
        /\ <<"check", "read">> \in Seq(Kinds)
        /\ <<"read", "check">> \in Seq(Kinds)
    BY DEF Kinds
  <2> QED
    BY <2>1, EmitInOrder DEF L!tdoc_show, L!tdoc_show_raw, L!tdoc_show_url, L!tsg_list,
                                 L!wi_list
<1>6. /\ L!spec_list \in Programs /\ L!spec_doc_search \in Programs /\ L!spec_doc_show \in Programs
      /\ L!spec_doc_toc_show \in Programs /\ L!testcase_list \in Programs
  <2>1. /\ <<"check", "read", "check">> \in Seq(Kinds)
        /\ <<"check", "try", "read">> \in Seq(Kinds)
        /\ <<"check", "schema", "look">> \in Seq(Kinds)
        /\ <<"schema", "look", "check">> \in Seq(Kinds)
    BY DEF Kinds
  <2> QED
    BY <2>1, EmitInOrder DEF L!spec_list, L!spec_doc_search, L!spec_doc_show,
                                 L!spec_doc_toc_show, L!testcase_list
<1>7. L!db_reset \in Programs
  <2> DEFINE s == <<"check", "check", "ask", "main", "testcase", "specdata", "schema", "seed">>
  <2>1. s \in Seq(Steps)
    BY DEF Steps, Kinds, L!Databases
  <2>2. /\ Len(s) = 8
        /\ s[1] = "check" /\ s[2] = "check" /\ s[3] = "ask" /\ s[4] = "main"
        /\ s[5] = "testcase" /\ s[6] = "specdata" /\ s[7] = "schema" /\ s[8] = "seed"
    OBVIOUS
  <2> HIDE DEF s
  <2>3. InOrder(s)
    BY <2>2 DEF InOrder, L!Databases, Late
  <2> QED
    BY <2>1, <2>3 DEF Programs, L!db_reset, s
<1>8. L!spec_show \in Programs
  <2> DEFINE s == <<"look", "read", "check", "open", "part", "part", "part">>
  <2>1. s \in Seq(Steps)
    BY DEF Steps, Kinds, L!Databases
  <2>2. /\ Len(s) = 7
        /\ s[1] = "look" /\ s[2] = "read" /\ s[3] = "check" /\ s[4] = "open"
        /\ s[5] = "part" /\ s[6] = "part" /\ s[7] = "part"
    OBVIOUS
  <2> HIDE DEF s
  <2>3. InOrder(s)
    BY <2>2 DEF InOrder, L!Databases, Late
  <2> QED
    BY <2>1, <2>3 DEF Programs, L!spec_show, s
<1>9. L!testcase_show \in Programs
  <2> DEFINE q == <<"check", "look", "check">>
             e == <<"open", "part">>
             f == q \o e
             s == f \o e
  <2>1. /\ q \in Seq(Steps) /\ Len(q) = 3 /\ q[1] = "check" /\ q[2] = "look" /\ q[3] = "check"
        /\ e \in Seq(Steps) /\ Len(e) = 2 /\ e[1] = "open" /\ e[2] = "part"
    BY DEF Steps, Kinds, L!Databases
  <2> HIDE DEF q, e
  <2>2. /\ f \in Seq(Steps) /\ Len(f) = Len(q) + Len(e)
        /\ \A k \in 1 .. Len(q) + Len(e) : f[k] = IF k <= Len(q) THEN q[k] ELSE e[k - Len(q)]
    BY <2>1, ConcatProperties
  <2> HIDE DEF f
  <2>3. /\ Len(f) = 5 /\ f[1] = "check" /\ f[2] = "look" /\ f[3] = "check"
        /\ f[4] = "open" /\ f[5] = "part"
    BY <2>1, <2>2
  <2>4. /\ s \in Seq(Steps) /\ Len(s) = Len(f) + Len(e)
        /\ \A k \in 1 .. Len(f) + Len(e) : s[k] = IF k <= Len(f) THEN f[k] ELSE e[k - Len(f)]
    <3>1. f \in Seq(Steps) /\ e \in Seq(Steps)
      BY <2>1, <2>2
    <3> QED
      BY <3>1, ConcatProperties
  <2> HIDE DEF s
  <2>5. /\ Len(s) = 7 /\ s[1] = "check" /\ s[2] = "look" /\ s[3] = "check"
        /\ s[4] = "open" /\ s[5] = "part" /\ s[6] = "open" /\ s[7] = "part"
    BY <2>1, <2>3, <2>4
  <2>6. InOrder(s)
    BY <2>5 DEF InOrder, L!Databases, Late
  <2> QED
    BY <2>4, <2>6 DEF Programs, L!testcase_show, L!Emit, q, e, f, s
<1> QED
  BY <1>1, <1>2, <1>3, <1>4, <1>5, <1>6, <1>7, <1>8, <1>9 DEF L!Program, L!Commands

\* What a command has done says what it has left to do.
LineRuns == [todo : Programs, rows : L!Databases \cup {"none"}, opened : BOOLEAN,
             deleted : SUBSET L!Databases]
LeftInOrder(r) ==
  /\ r.opened => \A k \in 1 .. Len(r.todo) : r.todo[k] \in {"open", "part"}
  /\ r.deleted # {} => \A k \in 1 .. Len(r.todo) : r.todo[k] \notin Late
LineTypes ==
  /\ command \in [Terminals -> LineRuns]
  /\ DOMAIN told = Terminals
LineInv ==
  /\ LineTypes
  /\ \A c \in Terminals : LeftInOrder(command[c])
  /\ L!NoMeansNothing

LEMMA RestInOrder ==
  ASSUME NEW todo \in Programs, todo # <<>>
  PROVE  /\ Tail(todo) \in Programs /\ Len(Tail(todo)) = Len(todo) - 1
         /\ \A k \in 1 .. Len(Tail(todo)) : k + 1 \in 2 .. Len(todo) /\ Tail(todo)[k] = todo[k + 1]
<1>1. todo \in Seq(Steps) /\ Len(todo) \in Nat /\ Len(todo) > 0
  BY DEF Programs
<1>2. /\ Tail(todo) \in Seq(Steps) /\ Len(Tail(todo)) = Len(todo) - 1
      /\ \A k \in 1 .. Len(Tail(todo)) : k + 1 \in 2 .. Len(todo) /\ Tail(todo)[k] = todo[k + 1]
  BY <1>1
<1>3. InOrder(Tail(todo))
  BY <1>1, <1>2 DEF Programs, InOrder
<1> QED
  BY <1>2, <1>3 DEF Programs

\* A command that says no has neither opened FILE nor deleted anything.
LEMMA LineEnded ==
  ASSUME LineInv, NEW c \in Terminals, NEW verdict, NEW r \in LineRuns, L!Ends(c, verdict, r),
         verdict \in {"refused", "aborted", "failed"} => ~r.opened,
         verdict \in {"refused", "aborted"} => r.deleted = {}
  PROVE  LineInv'
<1>1. L!NoCommand \in LineRuns /\ ~L!NoCommand.opened /\ L!NoCommand.deleted = {}
  <2>1. <<>> \in Programs
    BY DEF Programs, InOrder
  <2> QED
    BY <2>1 DEF L!NoCommand, LineRuns
<1> HIDE DEF L!NoCommand
<1>2. /\ LineTypes' /\ command'[c] = L!NoCommand
      /\ \A d \in Terminals \ {c} : command'[d] = command[d]
  BY <1>1 DEF L!Ends, LineInv, LineTypes
<1>3. L!NoMeansNothing'
  <2>1. \A d \in Terminals \ {c} : told'[d] = told[d]
    BY DEF L!Ends, LineInv, LineTypes
  <2>2. /\ told'[c].verdict = verdict /\ told'[c].opened = r.opened
        /\ told'[c].deleted = r.deleted
    BY DEF L!Ends, LineInv, LineTypes
  <2> QED
    BY <2>1, <2>2 DEF LineInv, L!NoMeansNothing
<1> QED
  BY <1>1, <1>2, <1>3 DEF LineInv, LeftInOrder

\* A command whose next step is done.
LEMMA LineWent ==
  ASSUME LineInv, NEW c \in Terminals, NEW r \in LineRuns, r.todo # <<>>, L!GoOn(c, r),
         r.opened => \A k \in 2 .. Len(r.todo) : r.todo[k] \in {"open", "part"},
         r.deleted # {} => \A k \in 2 .. Len(r.todo) : r.todo[k] \notin Late
  PROVE  LineInv'
<1>1. CASE L!Ends(c, "ok", r)
  BY <1>1, LineEnded
<1>2. CASE command' = [command EXCEPT ![c] = [r EXCEPT !.todo = Tail(@)]] /\ UNCHANGED told
  <2> DEFINE s == [r EXCEPT !.todo = Tail(@)]
  <2>1. r.todo \in Programs
    BY DEF LineRuns
  <2>2. /\ Tail(r.todo) \in Programs
        /\ \A k \in 1 .. Len(Tail(r.todo)) :
             k + 1 \in 2 .. Len(r.todo) /\ Tail(r.todo)[k] = r.todo[k + 1]
    BY <2>1, RestInOrder
  <2>3. /\ s \in LineRuns /\ s.todo = Tail(r.todo) /\ s.opened = r.opened
        /\ s.deleted = r.deleted
    BY <2>2 DEF LineRuns
  <2> HIDE DEF s
  <2>4. LeftInOrder(s)
    BY <2>2, <2>3 DEF LeftInOrder
  <2>5. LineTypes' /\ command'[c] = s /\ \A d \in Terminals \ {c} : command'[d] = command[d]
    BY <1>2, <2>3 DEF LineInv, LineTypes, s
  <2> QED
    BY <1>2, <2>4, <2>5 DEF LineInv, L!NoMeansNothing
<1> QED
  BY <1>1, <1>2 DEF L!GoOn

LEMMA LineBegins == L!Init => LineInv
<1> SUFFICES ASSUME L!Init PROVE LineInv
  OBVIOUS
<1>1. L!NoCommand \in LineRuns /\ LeftInOrder(L!NoCommand)
  <2>1. <<>> \in Programs
    BY DEF Programs, InOrder
  <2> QED
    BY <2>1 DEF L!NoCommand, LineRuns, LeftInOrder
<1> HIDE DEF L!NoCommand
<1> QED
  BY <1>1 DEF L!Init, LineInv, LineTypes, L!NoMeansNothing

LEMMA LineKept == LineInv /\ [L!Next]_(L!vars) => LineInv'
<1> SUFFICES ASSUME LineInv, [L!Next]_(L!vars) PROVE LineInv'
  OBVIOUS
<1>1. ASSUME NEW c \in Terminals, NEW name \in L!Commands, L!Start(c, name), ~L!Running(c)
      PROVE  LineInv'
  <2> DEFINE new == [L!NoCommand EXCEPT !.todo = L!Program[name], !.rows = L!Database(name)]
  <2>1. L!Program[name] \in Programs /\ L!Database(name) \in L!Databases
    BY CommandsInOrder DEF L!Database, L!Databases
  <2>2. new \in LineRuns /\ ~new.opened /\ new.deleted = {}
    BY <2>1 DEF L!NoCommand, LineRuns
  <2> HIDE DEF new
  <2>3. command' = [command EXCEPT ![c] = new] /\ UNCHANGED told
    BY <1>1 DEF L!Start, new
  <2> QED
    BY <2>2, <2>3 DEF LineInv, LineTypes, LeftInOrder, L!NoMeansNothing
<1>2. ASSUME NEW c \in Terminals, L!Running(c),
             \/ L!Check(c) \/ L!Ask(c) \/ L!Look(c) \/ L!List(c) \/ L!Access(c) \/ L!Try(c)
             \/ L!Sync(c) \/ L!Schema(c) \/ L!Delete(c) \/ L!Open(c) \/ L!Part(c) \/ L!Kill(c)
      PROVE  LineInv'
  <2> DEFINE r == command[c]
             k == L!Kind(c)
  <2>1. r \in LineRuns /\ LeftInOrder(r)
    BY DEF LineInv, LineTypes
  <2>2. /\ r.todo \in Programs /\ r.todo # <<>> /\ r.todo \in Seq(Steps) /\ InOrder(r.todo)
        /\ Len(r.todo) \in Nat /\ Len(r.todo) > 0 /\ k = r.todo[1]
        /\ r.opened \in BOOLEAN /\ r.deleted \in SUBSET L!Databases
    BY <1>2, <2>1 DEF LineRuns, Programs, L!Running, L!Kind
  <2>3. /\ r.opened => k \in {"open", "part"}
        /\ r.deleted # {} => k \notin Late
        /\ k = "open" => \A j \in 2 .. Len(r.todo) : r.todo[j] \in {"open", "part"}
        /\ k \in L!Databases => \A j \in 2 .. Len(r.todo) : r.todo[j] \notin Late
        /\ r.opened => \A j \in 2 .. Len(r.todo) : r.todo[j] \in {"open", "part"}
        /\ r.deleted # {} => \A j \in 2 .. Len(r.todo) : r.todo[j] \notin Late
    BY <2>1, <2>2 DEF LeftInOrder, InOrder
  <2> HIDE DEF k
  <2>4. ASSUME L!GoOn(c, r) PROVE LineInv'
    BY <2>1, <2>2, <2>3, <2>4, LineWent
  <2>5. ASSUME k \in Kinds, L!End(c, "failed") \/ L!End(c, "ok") PROVE LineInv'
    BY <2>1, <2>3, <2>5, LineEnded DEF L!End, Kinds
  <2>6. ASSUME k \in Late, L!End(c, "refused") \/ L!End(c, "aborted") PROVE LineInv'
    BY <2>1, <2>2, <2>3, <2>6, LineEnded DEF L!End, Late
  <2>7. CASE L!Check(c) \/ L!Ask(c) \/ L!Look(c)
    BY <2>4, <2>5, <2>6, <2>7 DEF L!Check, L!Ask, L!Look, L!Pass, Late, Kinds, k
  <2>8. CASE L!List(c) \/ L!Access(c) \/ L!Try(c) \/ L!Sync(c)
    BY <2>4, <2>5, <2>8 DEF L!List, L!Access, L!Try, L!Sync, L!Pass, Kinds, k
  <2>9. CASE L!Schema(c) \/ L!Part(c)
    BY <2>4, <2>9 DEF L!Schema, L!Part
  <2>10. CASE L!Delete(c)
    <3> DEFINE s == [r EXCEPT !.deleted = @ \cup {k}]
    <3>1. k \in L!Databases /\ L!GoOn(c, s)
      BY <2>10 DEF L!Delete, k
    <3>2. s \in LineRuns /\ s.todo = r.todo /\ s.opened = r.opened
      BY <2>1, <3>1 DEF LineRuns
    <3> HIDE DEF s
    <3> QED
      BY <2>2, <2>3, <3>1, <3>2, LineWent
  <2>11. CASE L!Open(c)
    <3> DEFINE s == [r EXCEPT !.opened = TRUE]
    <3>1. k = "open" /\ L!GoOn(c, s)
      BY <2>11 DEF L!Open, k
    <3>2. s \in LineRuns /\ s.todo = r.todo /\ s.deleted = r.deleted
      BY <2>1 DEF LineRuns
    <3> HIDE DEF s
    <3> QED
      BY <2>2, <2>3, <3>1, <3>2, LineWent
  <2>12. CASE L!Kill(c)
    BY <2>1, <2>12, LineEnded DEF L!Kill
  <2> QED
    BY <1>2, <2>7, <2>8, <2>9, <2>10, <2>11, <2>12
<1>3. CASE UNCHANGED L!vars
  BY <1>3 DEF L!vars, LineInv, LineTypes, L!NoMeansNothing
<1> QED
  BY <1>1, <1>2, <1>3 DEF L!Next

\* Whatever commands run side by side, fail or are killed, one that is refused,
\* declined or fails (cli.py) has not opened the FILE of --output, and one that is
\* refused or declined has deleted no database.
THEOREM NoIsNothing == L!Spec => []L!NoMeansNothing
<1>1. LineInv => L!NoMeansNothing
  BY DEF LineInv
<1> QED
  BY LineBegins, LineKept, <1>1, PTL DEF L!Spec

----------------------------------------------------------------------------
(* The commands side by side.                                                 *)

\* A behaviour stays with its component and takes the steps of that component.
LEMMA FocusSteps ==
  ASSUME [Next]_vars
  PROVE  /\ focus' = focus
         /\ focus = "migration" => [G!Next]_(G!vars)
         /\ focus = "selection" => [P!Next]_(P!vars)
         /\ focus = "batch" => [B!Next]_(B!vars)
         /\ focus = "config" => [F!Next]_(F!vars)
         /\ focus = "server" => [S!Next]_(S!vars)
         /\ focus = "commands" => [L!Next]_(L!vars)
<1>1. CASE UNCHANGED vars
  BY <1>1 DEF vars, inGB, onlyG, onlyP, onlyB, onlyF, onlyS, onlyL,
              G!vars, P!vars, B!vars, F!vars, S!vars, L!vars
<1>2. CASE Next
  BY <1>2 DEF Next
<1> QED
  BY <1>1, <1>2

\* EndsCurrent of the run Commands, for any behaviour of the commands.
THEOREM EndsCurrentHolds == Spec => []EndsCurrent
<1> DEFINE Inv == focus = "migration" => MigrationInv
<1>1. Init => Inv
  BY MigrationBegins DEF Init
<1>2. Inv /\ [Next]_vars => Inv'
  BY MigrationKept, FocusSteps
<1>3. Inv => EndsCurrent
  BY MigrationCurrent DEF EndsCurrent
<1> QED
  BY <1>1, <1>2, <1>3, PTL DEF Spec

\* CoverPagesKept of the run Commands, for any behaviour of the commands.
THEOREM CoverPagesKeptHolds == Spec => CoverPagesKept
<1> DEFINE Inv == focus = "migration" => MigrationInv
<1>1. Init => Inv
  BY MigrationBegins DEF Init
<1>2. Inv /\ [Next]_vars => Inv'
  BY MigrationKept, FocusSteps
<1>3. Inv /\ [Next]_vars => [focus = "migration" => ~G!CoverPagesLost]_vars
  BY PagesStep, FocusSteps
<1> QED
  BY <1>1, <1>2, <1>3, PTL DEF Spec, CoverPagesKept

\* CompleteKept of the run Commands, for any behaviour of the commands.
THEOREM CompleteKeptHolds == Spec => CompleteKept
<1> DEFINE Inv == focus = "selection" => SelectionInv
<1>1. Init => Inv
  BY SelectionBegins DEF Init
<1>2. Inv /\ [Next]_vars => Inv'
  BY SelectionKept, FocusSteps
<1>3. Inv /\ [Next]_vars => [focus = "selection" => ~P!CompleteLost]_vars
  BY SelectionStep, FocusSteps
<1> QED
  BY <1>1, <1>2, <1>3, PTL DEF Spec, CompleteKept

\* BatchIsTrue of the run Commands, for any behaviour of the commands.
THEOREM BatchIsTrueHolds == Spec => BatchIsTrue
<1> DEFINE Inv == focus = "batch" => BatchInv
<1>1. Init => Inv
  BY BatchBegins DEF Init
<1>2. Inv /\ [Next]_vars => Inv'
  BY BatchKept, FocusSteps
<1>3. Inv /\ Inv' /\ [Next]_vars
        => [focus = "batch" => ~B!Overwritten /\ B!EveryInputCounted']_vars
  BY BatchStep, FocusSteps DEF BatchInv
<1> QED
  BY <1>1, <1>2, <1>3, PTL DEF Spec, BatchIsTrue

\* FileStaysInOrder of the run Commands, for any behaviour of the commands.
THEOREM FileStaysInOrderHolds == Spec => []FileStaysInOrder
<1> DEFINE Inv == focus = "config" => ConfigInv
<1>1. Init => Inv
  BY ConfigBegins DEF Init
<1>2. Inv /\ [Next]_vars => Inv'
  BY ConfigKept, FocusSteps
<1>3. Inv => FileStaysInOrder
  BY ConfigOrdered DEF FileStaysInOrder
<1> QED
  BY <1>1, <1>2, <1>3, PTL DEF Spec

\* ServerIsNamed of the run Commands, for any behaviour of the commands.
THEOREM ServerIsNamedHolds == Spec => []ServerIsNamed
<1> DEFINE Inv == focus = "server" => ServerInv
<1>1. Init => Inv
  BY ServerBegins DEF Init
<1>2. Inv /\ [Next]_vars => Inv'
  BY ServerKept, FocusSteps
<1>3. Inv => ServerIsNamed
  BY ServerNamed DEF ServerIsNamed
<1> QED
  BY <1>1, <1>2, <1>3, PTL DEF Spec

\* NoMeansNothing of the run Commands, for any behaviour of the commands.
THEOREM NoMeansNothingHolds == Spec => []NoMeansNothing
<1> DEFINE Inv == focus = "commands" => LineInv
<1>1. Init => Inv
  BY LineBegins DEF Init
<1>2. Inv /\ [Next]_vars => Inv'
  BY LineKept, FocusSteps
<1>3. Inv => NoMeansNothing
  BY DEF LineInv, NoMeansNothing
<1> QED
  BY <1>1, <1>2, <1>3, PTL DEF Spec
=============================================================================
