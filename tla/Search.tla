------------------------------- MODULE Search -------------------------------
(***************************************************************************)
(* Searching TDocs: the services that a long-lived process builds when they *)
(* are first asked for and then keeps (services/factory.py, _LazyService),  *)
(* the embedding endpoint they depend on (remote_embedder.py), and the      *)
(* search itself, whose nearest-neighbour query is widened until enough     *)
(* TDocs of its window pass the filters (semantic_search_service.py).       *)
(*                                                                          *)
(* The vector index is the sequence of its chunks' TDocs, nearest to the    *)
(* query first; hooks and rebuilds write it while a search goes on.  The    *)
(* full-text query is a set of TDocs.                                       *)
(***************************************************************************)
EXTENDS Integers, FiniteSets, Sequences

CONSTANTS
  Tdocs,      \* TDocs
  Limit,      \* the results a request asks for
  Fanout,     \* settings.semantic_search.fanout_multiplier
  MaxK,       \* _KNN_MAX_K
  MaxChunks,  \* bound: chunks in the index
  MaxEvents   \* bound: changes of the endpoint, the index and the locks, and restarts

VARIABLES
  tables,    \* which of the "text" and the "vector" tables there are
  locked,    \* another process holds a lock that outlasts the timeout
  endpoint,  \* the embedding endpoint answers
  dim,       \* the process knows the width of the endpoint's vectors
  built,     \* its two services: "unbuilt", "none" or "service"
  index,     \* chunks, nearest first
  passing,   \* TDocs that pass the filters
  request,   \* the request that is served
  answer,    \* the last answer, until the next request
  events

vars == <<tables, locked, endpoint, dim, built, index, passing, request, answer, events>>
world == <<tables, locked, endpoint, index, passing, events>>

Modes == {"text", "semantic", "hybrid", "filter"}
Idle == [pc |-> "idle", mode |-> "filter", fetch |-> 0, window |-> <<>>, quiet |-> TRUE]
NoAnswer == [verdict |-> "none", mode |-> "filter", found |-> <<>>]

SeqsUpTo(n) == UNION {[1 .. k -> Tdocs] : k \in 0 .. n}
Least(a, b) == IF a < b THEN a ELSE b
Most(a, b) == IF a > b THEN a ELSE b

\* What is at the first n of some places of a sequence, in their order.
Rank(places, i) == Cardinality({j \in places : j <= i})
Picked(s, places, n) == [r \in 1 .. n |-> s[CHOOSE i \in places : Rank(places, i) = r]]
Without(s, t) == LET rest == {i \in DOMAIN s : s[i] # t} IN Picked(s, rest, Cardinality(rest))

Init ==
  /\ tables \in SUBSET {"text", "vector"}
  /\ locked = FALSE /\ endpoint \in BOOLEAN /\ dim = FALSE
  /\ built = [text |-> "unbuilt", vector |-> "unbuilt"]
  /\ index \in SeqsUpTo(MaxChunks) /\ passing \in SUBSET Tdocs
  /\ request = Idle /\ answer = NoAnswer /\ events = 0

At(pc) == request.pc = pc
Goto(pc) == request' = [request EXCEPT !.pc = pc]
Reply(verdict, found) ==
  /\ answer' = [verdict |-> verdict, mode |-> request.mode, found |-> found]
  /\ request' = Idle

-----------------------------------------------------------------------------
\* TDocSearchFacade.search tells the modes apart.  A hybrid search reaches for the
\* semantic service first and for the full-text one when it has the query's vector.
Ask(mode) ==
  /\ At("idle")
  /\ request' = [Idle EXCEPT !.mode = mode,
                             !.pc = IF mode = "filter" THEN "rows"
                                    ELSE IF mode = "text" THEN "text" ELSE "semantic"]
  /\ answer' = NoAnswer
  /\ UNCHANGED <<world, dim, built>>

Rows ==
  /\ At("rows")
  /\ Reply("answered", <<>>)
  /\ UNCHANGED <<world, dim, built>>

-----------------------------------------------------------------------------
\* The first use of the embedder's width asks the endpoint, later ones do not.
Dim == dim \/ endpoint

\* build_search_service: without tables there is none; with them there is one, and when
\* there is no endpoint or no vector table it is one that reranks nothing.  A locked
\* database is an error of the request, and the service is built by the next.
BuildText ==
  /\ At("text") /\ built.text = "unbuilt"
  /\ dim' = (IF "text" \in tables THEN Dim ELSE dim)
  /\ IF "text" \in tables /\ Dim /\ locked
       THEN Reply("error", <<>>) /\ UNCHANGED built
       ELSE /\ built' = [built EXCEPT !.text = IF "text" \in tables THEN "service" ELSE "none"]
            /\ UNCHANGED <<request, answer>>
  /\ UNCHANGED world

\* build_semantic_search_service: whatever is missing, down or locked now, there is none
\* for the rest of the process.
BuildSemantic ==
  /\ At("semantic") /\ built.vector = "unbuilt"
  /\ dim' = Dim
  /\ built' = [built EXCEPT !.vector =
       IF Dim /\ "vector" \in tables /\ ~ locked THEN "service" ELSE "none"]
  /\ UNCHANGED <<world, request, answer>>

-----------------------------------------------------------------------------
\* SearchService.search.
SearchText ==
  /\ At("text") /\ built.text # "unbuilt"
  /\ IF built.text = "none" THEN Reply("unavailable", <<>>)
     ELSE IF request.mode = "text" THEN Reply("answered", <<>>)
     ELSE Goto("knn") /\ UNCHANGED answer
  /\ UNCHANGED <<world, dim, built>>

\* SemanticSearchService.search embeds the query, which needs the endpoint each time.
Encode ==
  /\ At("semantic") /\ built.vector # "unbuilt"
  /\ IF built.vector = "none" \/ ~ endpoint
       THEN Reply("unavailable", <<>>)
       ELSE /\ request' = [request EXCEPT !.pc = IF request.mode = "hybrid" THEN "text" ELSE "knn",
                                          !.fetch = Least(Most(Limit * Fanout, Limit), MaxK)]
            /\ UNCHANGED answer
  /\ UNCHANGED <<world, dim, built>>

\* _distinct_tdoc_rows: the window is read ...
Knn ==
  /\ At("knn")
  /\ request' = [request EXCEPT !.pc = "match",
                                !.window = SubSeq(index, 1, Least(request.fetch, Len(index)))]
  /\ UNCHANGED <<world, dim, built, answer>>

\* The places of a window whose TDocs pass, and the TDocs there.
Kept(window) == {i \in DOMAIN window : window[i] \in passing}
Distinct(window, places) == {window[i] : i \in places}

\* Mutant: as many chunks as results are enough.
EnoughChunks ==
  \/ Cardinality(Kept(request.window)) >= Limit
  \/ Len(request.window) < request.fetch \/ request.fetch >= MaxK

Enough ==
  \/ Cardinality(Distinct(request.window, Kept(request.window))) >= Limit
  \/ Len(request.window) < request.fetch \/ request.fetch >= MaxK

\* _group_vec_hits and hits[:limit]: each TDoc once, by its nearest chunk.
Nearest(window) == {i \in Kept(window) : \A j \in 1 .. (i - 1) : window[j] # window[i]}
Ranked(window) == Picked(window, Nearest(window), Least(Limit, Cardinality(Nearest(window))))

\* ... tested against the filters, and widened unless it is enough.
Match ==
  /\ At("match")
  /\ IF Enough
       THEN Reply("answered", Ranked(request.window))
       ELSE /\ request' = [request EXCEPT !.pc = "knn", !.fetch = Least(2 * @, MaxK)]
            /\ UNCHANGED answer
  /\ UNCHANGED <<world, dim, built>>

-----------------------------------------------------------------------------
Event == events < MaxEvents /\ events' = events + 1
Disturbed == request' = [request EXCEPT !.quiet = FALSE]

\* The endpoint comes and goes, a rebuild takes the lock.
Turn ==
  /\ Event
  /\ \/ endpoint' = ~ endpoint /\ UNCHANGED locked
     \/ locked' = ~ locked /\ UNCHANGED endpoint
  /\ UNCHANGED <<tables, dim, built, index, passing, request, answer>>

\* A hook, a rebuild or a sync writes.
Write ==
  /\ Event
  /\ \E t \in Tdocs :
       \/ index' = Without(index, t) /\ UNCHANGED passing
       \/ Len(index) < MaxChunks /\ index' = <<t>> \o index /\ UNCHANGED passing
       \/ passing' = (passing \ {t}) \cup ({t} \ passing) /\ UNCHANGED index
  /\ Disturbed
  /\ UNCHANGED <<tables, locked, endpoint, dim, built, answer>>

\* The server is started again, or a command takes its turn.
Restart ==
  /\ Event /\ At("idle")
  /\ dim' = FALSE /\ built' = [text |-> "unbuilt", vector |-> "unbuilt"]
  /\ UNCHANGED <<tables, locked, endpoint, index, passing, request, answer>>

Next ==
  \/ \E mode \in Modes : Ask(mode)
  \/ Rows \/ BuildText \/ BuildSemantic \/ SearchText \/ Encode \/ Knn \/ Match
  \/ Turn \/ Write \/ Restart

Spec == Init /\ [][Next]_vars

-----------------------------------------------------------------------------
\* Properties.

\* What a search may never do.  One by text is not refused while its own tables are
\* there: not because the endpoint is down, was down when the service was built, or has
\* no vectors.  One by meaning does not miss, while nobody writes, any of the nearest
\* Limit TDocs that pass its filters and are within the reach of the index, however many
\* chunks of others or of the same TDoc are nearer.
FallsShort ==
  /\ ~ At("idle") /\ request'.pc = "idle"
  /\ \/ request.mode \in {"text", "filter"} /\ answer'.verdict = "unavailable" /\ "text" \in tables
     \/ /\ At("match") /\ request.mode = "semantic" /\ request.quiet
        /\ answer'.found # Ranked(SubSeq(index, 1, Least(MaxK, Len(index))))
SearchAnswers == [][~ FallsShort]_vars
=============================================================================
