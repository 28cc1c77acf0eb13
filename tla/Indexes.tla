------------------------------ MODULE Indexes -------------------------------
(* The three indexes side by side.  They share no state, so a behaviour is about
   one of them (focus); variables of the same name play the same part, and those
   of the other indexes are off.                                              *)
EXTENDS Integers, FiniteSetsExt

CONSTANTS
  N, Batch, NoRow,                  \* TDocs, the size of a batch, no row in an index
  Slides,                           \* text: the TDocs that are presentations
  Models,                           \* vectors: the models that embed
  Pairs, Key,                       \* specifications: versions, and their cursor texts
  MaxDate, MaxTitle, MaxHash, MaxTick,                        \* bounds of what changes,
  MaxTextEdits, MaxVectorEdits, MaxCrashes, MaxRuns           \* of changes, deaths, runs

ASSUME SomeTDocs == N \in Nat /\ N > 1 /\ Batch \in Nat \ {0}
ASSUME NoRowIsNoRow ==
  /\ NoRow \notin [title : Nat, doc : Nat, policy : Nat]
  /\ NoRow \notin [date : Nat, doc : Nat, model : Models]
ASSUME BoundsNat == MaxDate \in Nat \ {0} /\ MaxTitle \in Nat \ {0} /\ MaxHash \in Nat \ {0}
ASSUME KeysInOrder ==
  /\ Pairs \subseteq Nat /\ IsFiniteSet(Pairs)
  /\ Key \in [Pairs -> Nat \ {0}]
  /\ \A p, q \in Pairs : p < q => Key[p] < Key[q]

VARIABLES focus, stamp, cursor, run, content, edits, crashes, table,
          tdocs, bad, policy, fts, hooks, changed, full,
          date, model, vec, snap, hook, news,
          kind, chunks, parsedAt, parse, indexed, failed, tick, runs, touched, lost, whole

F == INSTANCE FtsIndex WITH MaxEdits <- MaxTextEdits
V == INSTANCE VectorIndex WITH MaxEdits <- MaxVectorEdits
S == INSTANCE SpecIndex WITH HooksFail <- TRUE

onlyF == <<tdocs, bad, policy, fts, hooks, changed, full>>
onlyV == <<date, model, vec, snap, hook, news>>
onlyS == <<kind, chunks, parsedAt, parse, indexed, failed, tick, runs, touched, lost, whole>>
inFV == <<content, edits, crashes>>
vars == <<focus, stamp, cursor, run, table, inFV, onlyF, onlyV, onlyS>>

OffF == /\ tdocs = "off" /\ bad = "off" /\ policy = "off" /\ fts = "off" /\ hooks = "off"
        /\ changed = "off" /\ full = "off"
OffV == /\ date = "off" /\ model = "off" /\ vec = "off" /\ snap = "off" /\ hook = "off"
        /\ news = "off"
OffS == /\ kind = "off" /\ chunks = "off" /\ parsedAt = "off" /\ parse = "off" /\ indexed = "off"
        /\ failed = "off" /\ tick = "off" /\ runs = "off" /\ touched = "off" /\ lost = "off"
        /\ whole = "off"
OffFV == content = "off" /\ edits = "off" /\ crashes = "off"

Init ==
  \/ focus = "text" /\ F!Init /\ table = "off" /\ OffV /\ OffS
  \/ focus = "vectors" /\ V!Init /\ OffF /\ OffS
  \/ focus = "specs" /\ S!Init /\ OffFV /\ OffF /\ OffV

Next ==
  \/ focus = "text" /\ F!Next /\ UNCHANGED <<focus, table, onlyV, onlyS>>
  \/ focus = "vectors" /\ V!Next /\ UNCHANGED <<focus, onlyF, onlyS>>
  \/ focus = "specs" /\ S!Next /\ UNCHANGED <<focus, inFV, onlyF, onlyV>>
Spec == Init /\ [][Next]_vars

----------------------------------------------------------------------------
(* Properties.                                                               *)

\* A rebuild, however often it was broken off and resumed, leaves nothing out that it
\* should have indexed, of TDocs and presentations or of specification versions.
RebuildCovers == [][(focus = "text" => F!CoversStep) /\ (focus = "specs" => S!RebuildCovers')]_vars
\* A rebuild of the text index ends on a stamp that reads as fresh.
RunEndsFresh == [][focus = "text" => F!FreshStep]_vars
\* What was uploaded during a rebuild of the vectors leaves the status stale.
LateUploadsSeen == focus = "vectors" => V!LateUploadsSeen
\* Vectors of two models are never in one table.
OneModel == focus = "vectors" => V!OneModel
=============================================================================
