------------------------------- MODULE Listing -------------------------------
(***************************************************************************)
(* The lists of the site, its JSON answers and the MCP server: the queries  *)
(* of the repositories (storage/repositories/), the services over them, the *)
(* handlers that make a page of them with a link to the next (web/routes/,  *)
(* web/mcp_server.py), and a client that follows those links to the end     *)
(* while other processes sync and parse.                                    *)
(*                                                                          *)
(* A row stands for a TDoc, a meeting, a spec ...; the filters of a column  *)
(* share one grammar, so a row has one text column.  A row that a re-sync   *)
(* moves to another place of the order is one that leaves and one that is   *)
(* new.                                                                     *)
(***************************************************************************)
EXTENDS Integers, Sequences, FiniteSets

CONSTANTS
  N,         \* the keys a row can have are 1..N, in the order of their sort column
  Tied,      \* those of the keys that have the same value in that column, where it
             \* is not unique
  Cap,       \* the largest page the site gives
  MaxWrites  \* bound: rows written during a walk

VARIABLES
  rows,     \* the table: a row per key, or none
  walk,     \* the client: what it asked, where it stands, and what it has seen
  steady,   \* history: the rows that have matched since the walk began
  left,     \* history: a row has ceased to pass a filter since the walk began
  writes    \* rows written since the walk began

vars == <<rows, walk, steady, left, writes>>

Ids == 1..N
None == [there |-> FALSE, text |-> "NULL", parsed |-> FALSE]
Row(text, parsed) == [there |-> TRUE, text |-> text, parsed |-> parsed]

-----------------------------------------------------------------------------
\* The filters of a column: a comparison with NULL is not true, negated or not.
Keeps(filter, text) ==
  CASE filter = "any" -> TRUE
    [] filter = "null" -> text = "NULL"
    [] filter = "not-null" -> text # "NULL"
    [] filter = "x" -> text = "x"
    [] filter = "!x" -> text \notin {"NULL", "x"}

\* Complete extractions, of the TDocs, or parsed versions, of the specs.
KeepsParsed(state, row) == state = "any" \/ (state = "true") = row.parsed

Matching(table, ask) ==
  {i \in Ids : table[i].there /\ Keeps(ask.filter, table[i].text) /\ KeepsParsed(ask.parsed, table[i])}

Members(s) == {s[i] : i \in DOMAIN s}

\* LIMIT and OFFSET of SQLite, where a negative limit is none, and a slice of Python,
\* where a negative bound counts from the end.
Rest(s, offset) == SubSeq(s, (IF offset < 0 THEN 0 ELSE offset) + 1, Len(s))
Sql(s, limit, offset) == LET r == Rest(s, offset) IN IF limit < 0 \/ limit >= Len(r) THEN r ELSE SubSeq(r, 1, limit)
Slice(s, first, end) == SubSeq(s, first + 1, IF end < 0 THEN Len(s) + end ELSE IF end > Len(s) THEN Len(s) ELSE end)

\* The queries: the order of the rows, whether rows can tie in it (a test case is there
\* once per group, jobs are made in one instant), whether the database or the service
\* cuts the page, whether a filter on parsed is among them, and whether a second
\* statement then reads more of the rows found.
tdocs == [order |-> "down", ties |-> FALSE, cut |-> "sql", parsed |-> TRUE, more |-> TRUE]
meetings == [order |-> "down", ties |-> FALSE, cut |-> "sql", parsed |-> FALSE, more |-> FALSE]
specs == [order |-> "up", ties |-> FALSE, cut |-> "sql", parsed |-> FALSE, more |-> TRUE]
parsed_specs == [order |-> "up", ties |-> FALSE, cut |-> "slice", parsed |-> TRUE, more |-> TRUE]
versions == [order |-> "down", ties |-> FALSE, cut |-> "slice", parsed |-> FALSE, more |-> TRUE]
testcases == [order |-> "up", ties |-> TRUE, cut |-> "sql", parsed |-> FALSE, more |-> TRUE]
wis == [order |-> "down", ties |-> FALSE, cut |-> "sql", parsed |-> FALSE, more |-> FALSE]
jobs == [order |-> "down", ties |-> TRUE, cut |-> "slice", parsed |-> FALSE, more |-> FALSE]
chunks == [order |-> "up", ties |-> FALSE, cut |-> "counted", parsed |-> FALSE, more |-> TRUE]

\* The doors: what becomes of a limit that is out of range, and what follows a page.
\* The link of the jobs page names no status.
list_tdocs == [query |-> tdocs, limit |-> "refused", next |-> "full"]
list_meetings == [query |-> meetings, limit |-> "refused", next |-> "full"]
list_specs == [query |-> specs, limit |-> "refused", next |-> "full"]
list_parsed_specs == [query |-> parsed_specs, limit |-> "refused", next |-> "full"]
show_spec == [query |-> versions, limit |-> "refused", next |-> "full"]
list_testcases == [query |-> testcases, limit |-> "refused", next |-> "full"]
list_wis == [query |-> wis, limit |-> "refused", next |-> "none"]
list_jobs == [query |-> jobs, limit |-> "clamped", next |-> "unfiltered"]
spec_doc_show == [query |-> chunks, limit |-> "refused", next |-> "counted"]
tool_list_meetings == [query |-> meetings, limit |-> "any", next |-> "asked"]
tool_list_tdocs == [query |-> tdocs, limit |-> "any", next |-> "asked"]
tool_list_wis == [query |-> wis, limit |-> "any", next |-> "none"]
tool_list_specs == [query |-> specs, limit |-> "any", next |-> "asked"]
tool_get_spec == [query |-> versions, limit |-> "any", next |-> "asked"]
tool_list_testcases == [query |-> testcases, limit |-> "any", next |-> "asked"]
tool_list_jobs == [query |-> jobs, limit |-> "any", next |-> "asked"]

Doors ==
  {list_tdocs, list_meetings, list_specs, list_parsed_specs, show_spec, list_testcases, list_wis, list_jobs, spec_doc_show,
   tool_list_meetings, tool_list_tdocs, tool_list_wis, tool_list_specs, tool_get_spec, tool_list_testcases, tool_list_jobs}

-----------------------------------------------------------------------------
\* The order of a query as a place for each key.  Where rows tie, each statement takes
\* them as the database finds them.
Sorted(query) == [i \in Ids |-> IF query.order = "up" THEN i ELSE N + 1 - i]
Loose(query) == IF query.ties THEN Tied ELSE {}
Orders(query) ==
  IF ~ query.ties THEN {Sorted(query)}
  ELSE {f \in [Ids -> Ids] : \A i, j \in Ids : i # j =>
          /\ f[i] # f[j]
          /\ ~ {i, j} \subseteq Tied => (f[i] < f[j] <=> Sorted(query)[i] < Sorted(query)[j])}

\* Rows in an order: each at its rank.
Rank(order, ids, i) == Cardinality({j \in ids : order[j] <= order[i]})
Ordered(order, ids) == [r \in 1 .. Cardinality(ids) |-> CHOOSE i \in ids : Rank(order, ids, i) = r]

\* Mutant: the specs are cut to the end of the page, as the jobs are, before those that
\* are not parsed are left out.
FoundCut(ask, order, offset) ==
  LET query == ask.door.query
      all == Ordered(order, Matching(rows, ask))
      whole == Ordered(order, Matching(rows, [ask EXCEPT !.parsed = "any"]))
  IN CASE query.cut = "sql" -> Sql(all, ask.limit, offset)
       [] query \in {jobs, parsed_specs} -> Sql(whole, ask.limit + offset, 0)
       [] OTHER -> all

\* What the first statement of a page brings.  A list filtered on parsed_specs is read
\* whole, the jobs to the end of the page, the chunks only counted.
Found(ask, order, offset) ==
  LET query == ask.door.query
      all == Ordered(order, Matching(rows, ask))
      whole == Ordered(order, Matching(rows, [ask EXCEPT !.parsed = "any"]))
  IN CASE query.cut = "sql" -> Sql(all, ask.limit, offset)
       [] query = jobs -> Sql(all, ask.limit + offset, 0)
       [] query = parsed_specs -> whole
       [] OTHER -> all

\* The page: the part of the rows found that is shown, after the second statement, which
\* puts rows in order where none of them tie.
LastPage(found, limit) == IF found = <<>> THEN 0 ELSE (Len(found) - 1) \div limit
Effective(found, limit, offset) ==
  LET last == LastPage(found, limit) * limit IN ((IF offset < last THEN offset ELSE last) \div limit) * limit

Page(ask, found, offset) ==
  LET query == ask.door.query
      parsed == Ordered(Sorted(query), {i \in Members(found) : KeepsParsed(ask.parsed, rows[i])})
      again == Sql(Ordered(Sorted(query), Matching(rows, ask)), ask.limit + 1, Effective(found, ask.limit, offset))
  IN CASE query.cut = "sql" -> found
       [] query = parsed_specs -> Slice(parsed, offset, offset + ask.limit)
       [] query.cut = "counted" -> IF found = <<>> THEN <<>> ELSE again
       [] OTHER -> Slice(found, offset, offset + ask.limit)

Shown(ask, page) == IF ask.door.query.cut = "counted" THEN Sql(page, ask.limit, 0) ELSE page

\* The offset of the next link, or -1.
Next_offset(ask, found, page, offset) ==
  CASE ask.door.next = "none" -> -1
    [] ask.door.next = "counted" ->
         LET here == Effective(found, ask.limit, offset) IN
         IF Len(page) > ask.limit /\ here \div ask.limit < LastPage(found, ask.limit) THEN here + ask.limit ELSE -1
    [] OTHER -> IF Len(page) = ask.limit /\ page # <<>> THEN offset + Len(page) ELSE -1

\* What the next link asks: the same, or all jobs.
Next_ask(ask) == IF ask.door.next = "unfiltered" THEN [ask EXCEPT !.filter = "any"] ELSE ask

-----------------------------------------------------------------------------
NoAsk == [door |-> list_tdocs, filter |-> "any", parsed |-> "any", limit |-> 1]
Quiet == [pc |-> "idle", ask |-> NoAsk, offset |-> 0, found |-> <<>>, seen |-> <<>>]

Init ==
  /\ rows \in [Ids -> {None, Row("NULL", FALSE), Row("y", FALSE)}]
  /\ walk = Quiet /\ steady = {} /\ left = FALSE /\ writes = 0

\* A request.  The site refuses a limit out of range, the jobs page clamps it, and the
\* tools take it as it is.  A list that cannot be filtered on parsed is not.
InRange(door, limit) == IF door.limit = "clamped" THEN (IF limit < 1 THEN 1 ELSE IF limit > Cap THEN Cap ELSE limit) ELSE limit

Ask(door, filter, parsed, limit) ==
  /\ parsed # "any" => door.query.parsed
  /\ LET ask == [door |-> door, filter |-> filter, parsed |-> parsed, limit |-> InRange(door, limit)] IN
     IF door.limit = "refused" /\ limit \notin 1..Cap
     THEN walk' = [Quiet EXCEPT !.pc = "refused"] /\ UNCHANGED steady
     ELSE walk' = [Quiet EXCEPT !.pc = "query", !.ask = ask] /\ steady' = Matching(rows, ask)
  /\ UNCHANGED <<rows, left, writes>>

Show(found) ==
  LET page == Page(walk.ask, found, walk.offset)
      next == Next_offset(walk.ask, found, page, walk.offset)
      seen == walk.seen \o Shown(walk.ask, page)
      onward == next # -1
  IN walk' = [walk EXCEPT !.seen = seen, !.found = <<>>,
                          !.pc = IF onward THEN "query" ELSE "done",
                          !.offset = IF onward THEN next ELSE @,
                          !.ask = IF onward THEN Next_ask(@) ELSE @]

\* The first statement of a page and, where there is one, the second, in a transaction
\* of its own.
Query ==
  /\ walk.pc = "query"
  /\ \E order \in Orders(walk.ask.door.query) :
       LET found == Found(walk.ask, order, walk.offset) IN
       IF walk.ask.door.query.more /\ found # <<>>
       THEN walk' = [walk EXCEPT !.pc = "more", !.found = found]
       ELSE Show(found)
  /\ UNCHANGED <<rows, steady, left, writes>>

More ==
  /\ walk.pc = "more"
  /\ Show(walk.found)
  /\ UNCHANGED <<rows, steady, left, writes>>

\* A row ceases to pass a filter.
Ceases(old, new) ==
  /\ old.there
  /\ \/ Keeps(walk.ask.filter, old.text) /\ ~ Keeps(walk.ask.filter, new.text)
     \/ KeepsParsed(walk.ask.parsed, old) /\ ~ KeepsParsed(walk.ask.parsed, new)

\* A sync or a parse writes a row; a column that the walk does not filter on plays no
\* part.  The chunks of a version are only replaced together.
Write(i, row) ==
  /\ walk.pc \in {"query", "more"}
  /\ writes < MaxWrites /\ writes' = writes + 1
  /\ row # rows[i]
  /\ walk.ask.filter = "any" => row.text = "y"
  /\ walk.ask.parsed = "any" => ~ row.parsed
  /\ rows' = [rows EXCEPT ![i] = row]
  /\ steady' = steady \cap Matching(rows', walk.ask)
  /\ left' = (left \/ Ceases(rows[i], row) \/ walk.ask.door.query = chunks)
  /\ UNCHANGED walk

Next ==
  \/ /\ walk.pc = "idle"
     /\ \E door \in Doors, filter \in {"any", "null", "!x"},
           parsed \in {"any", "true", "false"}, limit \in {-1, 1, Cap, Cap + 1} : Ask(door, filter, parsed, limit)
  \/ Query
  \/ More
  \/ \E i \in Ids, text \in {"NULL", "x", "y"}, parsed \in BOOLEAN : Write(i, Row(text, parsed))

Spec == Init /\ [][Next]_vars

-----------------------------------------------------------------------------
(***************************************************************************)
(* A client that follows the links of a list to their end has seen every    *)
(* row that matched all the while, unless a row ceased to pass one of its   *)
(* filters meanwhile and the later ones moved up; and where nothing was     *)
(* written it has seen each once and in order.  New rows may come before    *)
(* the place it has reached and show it rows again.  The links of the jobs  *)
(* page leave the status out, which shows other jobs and jobs twice, and    *)
(* yet none is missed.  Rows that tie with others in the order of their     *)
(* list are promised nothing, nor is the sequence of such a list.  A list   *)
(* without links promises its first page only, and a tool that is asked for *)
(* less than one row nothing.                                               *)
(***************************************************************************)
NothingMissed ==
  walk.pc = "done" /\ walk.ask.limit >= 1 /\ walk.ask.door.next # "none" =>
    /\ ~ left => steady \ Loose(walk.ask.door.query) \subseteq Members(walk.seen)
    /\ writes = 0 /\ ~ walk.ask.door.query.ties =>
         walk.seen = Ordered(Sorted(walk.ask.door.query), Matching(rows, walk.ask))
=============================================================================
