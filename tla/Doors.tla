-------------------------------- MODULE Doors --------------------------------
(***************************************************************************)
(* The questions that can be asked of both doors of the server: of the site  *)
(* (web/routes/) and of the MCP server (web/mcp_server.py).  Each door has a  *)
(* handler of its own for a question, which reads one fact after another,    *)
(* each in its own transaction, and tables of its own that make an error     *)
(* code of an exception (web/errors.py); syncs, parses and rebuilds write    *)
(* between two reads.                                                        *)
(*                                                                           *)
(* A fact is something a handler looks at: what is in the question, what the *)
(* build has, which rows are stored.  Whether the content of a TDoc is whole  *)
(* is Content's, how a search finds its services Search's matter.            *)
(***************************************************************************)
EXTENDS Integers, Sequences, FiniteSetsExt

CONSTANT MaxWrites  \* bound: facts that change during a request

VARIABLES
  facts,     \* what is true
  request,   \* the question, the door, the place of its handler, and what it noted
  answer,    \* the answer, or "none"
  possible,  \* history: what the other door would have answered, at once, at some instant
  writes

vars == <<facts, request, answer, possible, writes>>

-----------------------------------------------------------------------------
\* A handler is a sequence of checks.
Need(fact, exception) == [kind |-> "need", fact |-> fact, exception |-> exception]
Note(fact) == [kind |-> "note", fact |-> fact, exception |-> "none"]
SomeNoted(exception) == [kind |-> "some", fact |-> "none", exception |-> exception]

\* What the tables make of an exception.  Both have the same codes, but each its own
\* list of the exceptions it knows.
ERROR_SLUGS ==
  [TDocNotFound |-> "tdoc_not_found", TDocUrlNotFound |-> "tdoc_url_not_found",
   TDocContentSourceNotFound |-> "tdoc_content_source_not_found",
   TDocContentTypeIneligible |-> "tdoc_content_type_ineligible", MeetingNotFound |-> "meeting_not_found",
   TSGNotFound |-> "tsg_not_found", SpecNotFound |-> "spec_not_found", TestcaseNotFound |-> "testcase_not_found",
   SpecDocUnknownVersion |-> "spec_doc_unknown_version", InvalidFilter |-> "invalid_filter",
   SearchQuery |-> "invalid_query", SemanticSearchQuery |-> "invalid_query",
   EmbedderUnavailable |-> "settings_disabled", VectorIndexUnavailable |-> "settings_disabled",
   SearchIndexCorrupt |-> "search_index_corrupt", JobNotFound |-> "job_not_found",
   SettingsDisabled |-> "settings_disabled", CacheMiss |-> "cache_miss"]

STATUS_BY_EXC == DOMAIN ERROR_SLUGS
MCP_RESOURCE_BY_EXC == DOMAIN ERROR_SLUGS \ {"SettingsDisabled"}

map_domain_error(exception) == IF exception \in STATUS_BY_EXC THEN ERROR_SLUGS[exception] ELSE "uncoded"
map_mcp_error(exception) ==
  IF exception \in MCP_RESOURCE_BY_EXC \cup {"SettingsDisabled"} THEN ERROR_SLUGS[exception] ELSE "uncoded"

\* What TDocContentService raises, as both doors pass it on.
map_tdoc_content_error ==
  [IneligibleError |-> "TDocContentTypeIneligible", TDOC_NOT_FOUND |-> "TDocNotFound",
   URL_NOT_FOUND |-> "TDocUrlNotFound", SOURCE_NOT_FOUND |-> "TDocContentSourceNotFound",
   EXTRACTION_MISSING |-> "CacheMiss", CACHE_UNAVAILABLE |-> "CacheMiss", ValueError |-> "InvalidFilter"]

-----------------------------------------------------------------------------
\* The services and records that both doors share.
ContentOf(parent) ==
  parent \o << Need("eligible", map_tdoc_content_error.IneligibleError),
               Need("extracted", map_tdoc_content_error.EXTRACTION_MISSING),
               Need("archived", map_tdoc_content_error.CACHE_UNAVAILABLE),
               Need("source", map_tdoc_content_error.SOURCE_NOT_FOUND) >>
content_of_id == ContentOf(<<Need("row", map_tdoc_content_error.TDOC_NOT_FOUND)>>)
content_of_url == ContentOf(<<Need("known url", map_tdoc_content_error.URL_NOT_FOUND)>>)

\* Mutant: the row is looked up after everything else.
from_ftp_url_row_last ==
  << Note("cover"), Note("extracted"), Note("changes"), Note("files"), Note("inventory"), Note("row at url") >>

from_ftp_url ==
  << Note("row at url"), Note("cover"), Note("extracted"), Note("changes"), Note("files"), Note("inventory") >>

Text == << Need("text table", "SettingsDisabled"), Need("words", "SearchQuery"), Need("sound index", "SearchIndexCorrupt") >>
Semantic ==
  << Need("endpoint", "EmbedderUnavailable"), Need("vector table", "VectorIndexUnavailable"),
     Need("meaning", "SemanticSearchQuery") >>
search(mode) ==
  CASE mode = "text" -> Text
    [] mode = "semantic" -> Semantic
    [] mode = "hybrid" -> <<Need("text table", "SettingsDisabled")>> \o Semantic

\* The handlers of the site ...
show_meeting == <<Need("meeting", "MeetingNotFound")>>
show_tdoc == <<Need("row", "TDocNotFound")>>
show_tdoc_by_url == <<Need("path", "InvalidFilter")>> \o from_ftp_url \o <<SomeNoted("TDocUrlNotFound")>>
tdoc_content == <<Need("format", "InvalidFilter")>> \o content_of_id
tdoc_content_by_url == <<Need("path", "InvalidFilter"), Need("format", "InvalidFilter")>> \o content_of_url
show_tsg == <<Need("tsg", "TSGNotFound")>>
show_spec == <<Need("rows limit", "InvalidFilter"), Need("spec", "SpecNotFound")>>
show_testcase == <<Need("group", "InvalidFilter"), Need("testcase", "TestcaseNotFound")>>
spec_doc_toc == <<Need("spec docs", "SettingsDisabled"), Need("version", "InvalidFilter"), Need("toc", "SpecDocUnknownVersion")>>
spec_doc_content == <<Need("page format", "InvalidFilter"), Need("spec docs", "SettingsDisabled"), Need("presentation", "HTTPException")>>
search_query(mode) == <<Need("facade", "SettingsDisabled"), Need("limit", "InvalidFilter")>> \o search(mode)
spec_doc_search_query(mode) == <<Need("spec facade", "SettingsDisabled"), Need("limit", "InvalidFilter")>> \o search(mode)
tdoc_index_status == <<Need("index service", "SettingsDisabled")>>
spec_doc_index_status == <<Need("spec index service", "SettingsDisabled")>>
job_of_site == <<Need("job", "JobNotFound")>>
cancel_of_site == <<Need("job", "JobNotFound"), Note("ended")>>

\* ... and the tools of the MCP server.
get_meeting == <<Need("meeting", "MeetingNotFound")>>
get_tdoc == <<Need("row", "TDocNotFound")>>
get_tdoc_by_url == <<Need("path", "InvalidFilter")>> \o from_ftp_url \o <<SomeNoted("TDocUrlNotFound")>>
get_tdoc_content == <<Need("format", "InvalidFilter")>> \o content_of_id
get_tdoc_content_by_url ==
  <<Need("format", "InvalidFilter"), Need("path", map_tdoc_content_error.ValueError)>> \o content_of_url
get_tsg == <<Need("tsg", "TSGNotFound")>>
get_spec == <<Need("spec", "SpecNotFound")>>
get_testcase == <<Need("group", "InvalidFilter"), Need("testcase", "TestcaseNotFound")>>
get_spec_toc == <<Need("spec docs", "SettingsDisabled"), Need("toc", "SpecDocUnknownVersion")>>
get_spec_doc_content == <<Need("spec docs", "SettingsDisabled"), Need("presentation", "ToolError")>>
search_tdoc(mode) == <<Need("facade", "SettingsDisabled"), Need("limit", "InvalidFilter")>> \o search(mode)
search_spec_docs(mode) == <<Need("spec facade", "SettingsDisabled"), Need("limit", "InvalidFilter")>> \o search(mode)
get_tdoc_index == <<Need("index service", "SettingsDisabled")>>
get_spec_doc_index == <<Need("spec index service", "SettingsDisabled")>>
get_job == <<Need("job", "JobNotFound")>>
cancel_job == <<Need("job", "JobNotFound"), Note("ended")>>

\* The handlers for a question: the site's and the tool.
Doors(question) ==
  CASE question = "meeting" -> <<show_meeting, get_meeting>>
    [] question = "tdoc" -> <<show_tdoc, get_tdoc>>
    [] question = "tdoc by url" -> <<show_tdoc_by_url, get_tdoc_by_url>>
    [] question = "content" -> <<tdoc_content, get_tdoc_content>>
    [] question = "content by url" -> <<tdoc_content_by_url, get_tdoc_content_by_url>>
    [] question = "tsg" -> <<show_tsg, get_tsg>>
    [] question = "spec" -> <<show_spec, get_spec>>
    [] question = "testcase" -> <<show_testcase, get_testcase>>
    [] question = "toc" -> <<spec_doc_toc, get_spec_toc>>
    [] question = "presentation" -> <<spec_doc_content, get_spec_doc_content>>
    [] question = "tdoc index" -> <<tdoc_index_status, get_tdoc_index>>
    [] question = "spec doc index" -> <<spec_doc_index_status, get_spec_doc_index>>
    [] question = "job" -> <<job_of_site, get_job>>
    [] question = "cancel" -> <<cancel_of_site, cancel_job>>
    [] question \in {"text", "semantic", "hybrid"} -> <<search_query(question), search_tdoc(question)>>
    [] question = "spec text" -> <<spec_doc_search_query("text"), search_spec_docs("text")>>
    [] question = "spec semantic" -> <<spec_doc_search_query("semantic"), search_spec_docs("semantic")>>
    [] question = "spec hybrid" -> <<spec_doc_search_query("hybrid"), search_spec_docs("hybrid")>>

Questions ==
  {"meeting", "tdoc", "tdoc by url", "content", "content by url", "tsg", "spec", "testcase", "toc", "presentation",
   "tdoc index", "spec doc index", "job", "cancel", "text", "semantic", "hybrid", "spec text", "spec semantic", "spec hybrid"}
Handler(door, question) == Doors(question)[IF door = "site" THEN 1 ELSE 2]
Coded(door, exception) == IF door = "site" THEN map_domain_error(exception) ELSE map_mcp_error(exception)
Other(door) == IF door = "site" THEN "mcp" ELSE "site"

\* The answer of a door to which everything is true at once that is true in fs.
Fails(check, handler, fs) ==
  CASE check.kind = "need" -> check.fact \notin fs
    [] check.kind = "note" -> FALSE
    [] check.kind = "some" -> \A i \in DOMAIN handler : handler[i].kind = "note" => handler[i].fact \notin fs
AtOnce(door, question, fs) ==
  LET handler == Handler(door, question)
      failing == {i \in DOMAIN handler : Fails(handler[i], handler, fs)}
  IN IF failing = {} THEN "content" ELSE Coded(door, handler[Min(failing)].exception)

-----------------------------------------------------------------------------
\* The facts a question is about.  Those of the question itself and of the build no
\* writer changes; the site is asked nothing that the types of the tools would not let
\* through.  Others come, and some may also cease: a sync moves a row to another URL or
\* changes the type of a TDoc, the cache evicts, a parse replaces what was stored, a
\* process locks the database, the endpoint goes away.  What an extraction has stored
\* under a URL is never all taken away.
Given == {"rows limit", "version", "page format"}
FactsOf(question) ==
  LET handlers == Doors(question)
  IN UNION {{handlers[d][i].fact : i \in DOMAIN handlers[d]} : d \in 1..2} \ {"none"}
Fixed == Given \cup {"limit", "path", "format", "group", "words", "meaning", "facade", "spec facade", "spec docs",
                     "index service", "spec index service"}
Wavering == {"row at url", "eligible", "archived", "source", "presentation", "text table", "endpoint", "sound index"}

Idle == [pc |-> 0, door |-> "site", question |-> "job", noted |-> FALSE]

Init ==
  /\ request \in {[Idle EXCEPT !.question = question] : question \in Questions}
  /\ facts \in {Given \cup known : known \in SUBSET FactsOf(request.question)}
  /\ answer = "none" /\ possible = {} /\ writes = 0

Ask(door) ==
  /\ request.pc = 0
  /\ request' = [request EXCEPT !.pc = 1, !.door = door]
  /\ possible' = {AtOnce(Other(door), request.question, facts)}
  /\ UNCHANGED <<facts, answer, writes>>

\* The next check of the handler.
Check ==
  LET handler == Handler(request.door, request.question)
      check == handler[request.pc]
      fails == IF check.kind = "some" THEN ~ request.noted ELSE check.kind = "need" /\ check.fact \notin facts
      last == request.pc = Len(handler)
  IN /\ request.pc > 0
     /\ answer' = IF fails THEN Coded(request.door, check.exception) ELSE IF last THEN "content" ELSE answer
     /\ request' = [request EXCEPT !.pc = IF fails \/ last THEN -1 ELSE @ + 1,
                                   !.noted = @ \/ (check.kind = "note" /\ check.fact \in facts)]
     /\ UNCHANGED <<facts, possible, writes>>

Write(fact) ==
  /\ request.pc > 0
  /\ writes < MaxWrites /\ writes' = writes + 1
  /\ fact \notin Fixed /\ (fact \in facts => fact \in Wavering)
  /\ facts' = IF fact \in facts THEN facts \ {fact} ELSE facts \cup {fact}
  /\ possible' = possible \cup {AtOnce(Other(request.door), request.question, facts')}
  /\ UNCHANGED <<request, answer>>

Next ==
  \/ \E door \in {"site", "mcp"} : Ask(door)
  \/ Check
  \/ \E fact \in FactsOf(request.question) : Write(fact)

Spec == Init /\ [][Next]_vars

-----------------------------------------------------------------------------
(***************************************************************************)
(* An error is one that the other door, too, would have answered at some     *)
(* instant of the request: both doors tell the same of the same facts, in    *)
(* the code they give it as in the order they look (errors.py keeps the two  *)
(* tables "in lock-step").  A chain of checks can put together an error out   *)
(* of two instants once two writes fall into it; but a URL of which something *)
(* is known throughout is never unknown, whatever is written while the six    *)
(* tables are asked, for the only thing it can lose is looked at first.       *)
(***************************************************************************)
DoorsAgree ==
  answer \notin {"none", "content"} /\ (writes <= 1 \/ request.question = "tdoc by url") => answer \in possible
=============================================================================
