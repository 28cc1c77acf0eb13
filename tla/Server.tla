------------------------------- MODULE Server -------------------------------
(* What a server does for its clients, side by side: the queue of the jobs and its
   workers, the verdict on a job, lists and their pages, stored Markdown, searches,
   and the same question at both doors.  A behaviour is about one of them (focus);
   variables of the same name play the same part, and those of the others are off. *)
EXTENDS JobQueue

CONSTANTS
  N, Tied, Cap,                       \* lists: the keys of rows, those that tie, the largest page
  Paths, Template, Nothing,           \* content: the URLs of a TDoc, no value
  Tdocs, Limit, Fanout, MaxK,         \* searches: TDocs, results, the reach of the index
  Handled,                            \* jobs whose handlers run
  MaxVersion, MaxChunks, MaxItems,    \* bounds of what is stored and chosen,
  MaxRows, MaxStores, MaxTurns, MaxFacts  \* and of what changes

ASSUME KeysAndPages == N \in Nat /\ Cap \in Nat \ {0}
ASSUME NothingIsNoUrl == Nothing \notin Paths \cup {Template}
ASSUME SearchReach == Limit \in Nat /\ Fanout \in Nat /\ MaxK \in Nat \ {0} /\ MaxChunks \in Nat
ASSUME HandledIsNoZero == 0 \notin Handled
ASSUME ServerBounds == MaxItems \in Nat /\ MaxRows \in Nat /\ MaxFacts \in Nat

VARIABLES focus,
          tables, writes, events, request, answer,
          rows, walk, steady, left,
          tdoc, metas, documents, covers, archives, extract, torn, read,
          locked, endpoint, dim, built, index, passing,
          facts, possible,
          loop, job

L == INSTANCE Listing WITH MaxWrites <- MaxRows
C == INSTANCE Content WITH None <- Nothing, MaxEvents <- MaxStores
S == INSTANCE Search WITH MaxEvents <- MaxTurns
D == INSTANCE Doors WITH MaxWrites <- MaxFacts
J == INSTANCE JobHandlers WITH Jobs <- Handled

onlyL == <<rows, walk, steady, left>>
onlyC == <<tdoc, metas, documents, covers, archives, extract, torn, read>>
onlyS == <<tables, locked, endpoint, dim, built, index, passing>>
onlyD == <<facts, possible>>
onlyJ == <<loop, job>>
inSD == <<request, answer>>
all == <<focus, vars, onlyL, onlyC, onlyS, onlyD, onlyJ, writes, events, inSD>>

OffQ == /\ status = "off" /\ createdAt = "off" /\ phase = "off" /\ orphans = "off"
        /\ task = "off" /\ event = "off" /\ runs = [j \in Jobs |-> 0] /\ halts = "off"
OffL == /\ rows = "off" /\ walk = "off" /\ steady = "off" /\ left = "off"
OffC == /\ tdoc = "off" /\ metas = "off" /\ documents = "off" /\ covers = "off" /\ archives = "off"
        /\ extract = "off" /\ torn = "off" /\ read = "off"
OffS == /\ tables = "off" /\ locked = "off" /\ endpoint = "off" /\ dim = "off" /\ built = "off"
        /\ index = "off" /\ passing = "off"
OffD == facts = "off" /\ possible = "off"
OffJ == loop = "off" /\ job = "off"
OffSD == request = "off" /\ answer = "off"

ServerInit ==
  \/ /\ focus = "queue" /\ Init
     /\ OffL /\ OffC /\ OffS /\ OffD /\ OffJ /\ writes = "off" /\ events = "off" /\ OffSD
  \/ /\ focus = "lists" /\ L!Init
     /\ OffQ /\ OffC /\ OffS /\ OffD /\ OffJ /\ events = "off" /\ OffSD
  \/ /\ focus = "content" /\ C!Init
     /\ OffQ /\ OffL /\ OffS /\ OffD /\ OffJ /\ writes = "off" /\ OffSD
  \/ /\ focus = "search" /\ S!Init
     /\ OffQ /\ OffL /\ OffC /\ OffD /\ OffJ /\ writes = "off"
  \/ /\ focus = "doors" /\ D!Init
     /\ OffQ /\ OffL /\ OffC /\ OffS /\ OffJ /\ events = "off"
  \/ /\ focus = "jobs" /\ J!Init
     /\ OffQ /\ OffL /\ OffC /\ OffS /\ OffD /\ writes = "off" /\ events = "off" /\ OffSD

ServerNext ==
  \/ /\ focus = "queue" /\ FaultyNext
     /\ UNCHANGED <<focus, onlyL, onlyC, onlyS, onlyD, onlyJ, writes, events, inSD>>
  \/ /\ focus = "lists" /\ L!Next
     /\ UNCHANGED <<focus, vars, onlyC, onlyS, onlyD, onlyJ, events, inSD>>
  \/ /\ focus = "content" /\ C!Next
     /\ UNCHANGED <<focus, vars, onlyL, onlyS, onlyD, onlyJ, writes, inSD>>
  \/ /\ focus = "search" /\ S!Next
     /\ UNCHANGED <<focus, vars, onlyL, onlyC, onlyD, onlyJ, writes>>
  \/ /\ focus = "doors" /\ D!Next
     /\ UNCHANGED <<focus, vars, onlyL, onlyC, onlyS, onlyJ, events>>
  \/ /\ focus = "jobs" /\ J!Next
     /\ UNCHANGED <<focus, vars, onlyL, onlyC, onlyS, onlyD, writes, events, inSD>>
ServerSpec == ServerInit /\ [][ServerNext]_all

----------------------------------------------------------------------------
(* Properties.                                                               *)

\* Who follows the pages of a list to their end misses none that was there all along.
NothingMissed == focus = "lists" => L!NothingMissed
\* Content that is called complete is all there is, and of one extraction.
AnswerIsWhole == focus = "content" => C!AnswerIsWhole
\* A search finds the nearest that pass, and by text needs no endpoint.
SearchAnswers == [][focus = "search" => ~ S!FallsShort]_all
\* Both doors give the same errors.
DoorsAgree == focus = "doors" => D!DoorsAgree
\* A job that SUCCEEDED was not cancelled and did what it chose.
HonestVerdict == focus = "jobs" => J!HonestVerdict
=============================================================================
