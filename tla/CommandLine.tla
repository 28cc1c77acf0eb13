---------------------------- MODULE CommandLine -----------------------------
(***************************************************************************)
(* The commands of doc3gpp (cli.py) as programs over a few kinds of steps,  *)
(* in the order in which their bodies take them: what is tested before what *)
(* is fetched, stored, deleted or written to the FILE of --output.          *)
(*                                                                          *)
(* Commands run in terminals side by side on one set of databases and name  *)
(* the same FILE.  What the steps do inside is in the modules of the        *)
(* services; parse by filter and in batches is in ParseSelection and        *)
(* BatchParse, config and server in ConfigFile and ServerControl.           *)
(***************************************************************************)
EXTENDS Integers, Sequences

CONSTANTS
  Clients,      \* terminals
  MaxCommands,  \* bound: commands that are started
  MaxKills      \* bound: commands that are killed

VARIABLES
  tables,    \* the databases whose tables exist
  file,      \* FILE: the parts it holds, written since it was last truncated
  command,   \* the command of each terminal
  told,      \* how the last command of each terminal ended
  commands, kills

vars == <<tables, file, command, told, commands, kills>>

Databases == {"main", "testcase", "specdata"}

-----------------------------------------------------------------------------
\* Programs.  A step of the kind
\*   check   tests the arguments, ask waits for a confirmation: the command goes on
\*           or is refused;
\*   look    reads rows and refuses if they are not there, list ends if they are not;
\*   read    reads rows; store writes them; seed writes the TSGs if there are none;
\*   try     downloads, converts or searches, which may fail;
\*   sync    is the automatic sync, which looks candidates up and keeps what fails to
\*           itself;
\*   schema  creates missing tables; main, testcase and specdata delete a database;
\*   open    truncates FILE, part writes a record, a table or a document to it.
\* Rows are in the database that is named beside the program.

Emit == <<"open", "part">>

cache_purge == <<"check", "ask", "purge">>
db_check == <<"check", "try">>
db_init == <<"check", "schema", "seed">>

\* Mutant: the url of each database is tested when its file is about to go.
db_reset_one_by_one ==
  <<"check", "ask", "main", "check", "testcase", "check", "specdata", "schema", "seed">>

\* All urls and files are known before anybody is asked or anything is deleted.
db_reset == <<"check", "check", "ask", "main", "testcase", "specdata", "schema", "seed">>

meeting_sync == <<"schema", "seed", "list", "look", "try", "store">>
meeting_list == <<"check", "sync", "read">> \o Emit
resource_schema == <<"check">> \o Emit

tdoc_sync == <<"check", "list", "look", "try", "store">>
tdoc_list == <<"check", "sync", "read">> \o Emit
tdoc_search == <<"check", "try", "read">>
tdoc_index == <<"check", "read", "try", "store">>

\* The automatic sync of the ids in the names comes before the format is tested.
tdoc_parse_path == <<"check", "sync", "check", "try">> \o Emit
tdoc_parse_url == <<"check", "sync", "check", "try", "store", "try">> \o Emit

tdoc_show == <<"check", "sync", "look", "read">> \o Emit
tdoc_show_raw == <<"check", "sync", "look", "try", "store", "look">> \o Emit
tdoc_show_url == <<"check", "look">> \o Emit

tsg_list == <<"check", "read">> \o Emit
tsg_show == <<"look">>
tsg_seed == <<"schema", "seed">>
wi_sync == <<"schema", "seed", "look", "try", "store">>
wi_list == <<"read", "check">> \o Emit

spec_sync == <<"schema", "seed", "check", "list", "look", "try", "store">>
spec_sync_one == <<"schema", "seed", "check", "try", "look", "store">>
spec_list == <<"check", "read", "check">> \o Emit
spec_doc_search == <<"check", "try", "read">> \o Emit
spec_doc_index == <<"check", "read", "try", "store">>
spec_doc_parse == <<"schema", "check", "try", "store">>
spec_doc_show == <<"check", "schema", "look">> \o Emit
spec_doc_toc_show == <<"schema", "look", "check">> \o Emit

\* Header, versions and ZIP inventories go to one stream.
spec_show == <<"look", "read", "check", "open", "part", "part", "part">>

testcase_sync == <<"schema", "try", "store">>
testcase_list == <<"check", "read", "check">> \o Emit

\* Each of the two tables of each group is emitted by a call of its own, which opens FILE.
testcase_show == <<"check", "look", "check">> \o Emit \o Emit

Program ==
  [cache_purge |-> cache_purge, db_check |-> db_check, db_init |-> db_init,
   db_reset |-> db_reset, meeting_sync |-> meeting_sync, meeting_list |-> meeting_list,
   resource_schema |-> resource_schema, tdoc_sync |-> tdoc_sync, tdoc_list |-> tdoc_list,
   tdoc_search |-> tdoc_search, tdoc_index |-> tdoc_index, tdoc_parse_path |-> tdoc_parse_path,
   tdoc_parse_url |-> tdoc_parse_url, tdoc_show |-> tdoc_show, tdoc_show_raw |-> tdoc_show_raw,
   tdoc_show_url |-> tdoc_show_url, tsg_list |-> tsg_list, tsg_show |-> tsg_show,
   tsg_seed |-> tsg_seed, wi_sync |-> wi_sync, wi_list |-> wi_list, spec_sync |-> spec_sync,
   spec_sync_one |-> spec_sync_one, spec_list |-> spec_list, spec_doc_search |-> spec_doc_search,
   spec_doc_index |-> spec_doc_index, spec_doc_parse |-> spec_doc_parse,
   spec_doc_show |-> spec_doc_show, spec_doc_toc_show |-> spec_doc_toc_show,
   spec_show |-> spec_show, testcase_sync |-> testcase_sync, testcase_list |-> testcase_list,
   testcase_show |-> testcase_show]

Commands == DOMAIN Program

Database(name) ==
  IF name \in {"testcase_sync", "testcase_list", "testcase_show"} THEN "testcase"
  ELSE IF name \in {"spec_doc_index", "spec_doc_parse", "spec_doc_search", "spec_doc_show",
                    "spec_doc_toc_show"} THEN "specdata"
  ELSE "main"

-----------------------------------------------------------------------------
\* What is left of a command's program, where its rows are, and what it did.
NoCommand == [todo |-> <<>>, rows |-> "none", opened |-> FALSE, deleted |-> {}]

Init ==
  /\ tables \in {{}, Databases}
  /\ file = 1
  /\ command = [c \in Clients |-> NoCommand]
  /\ told = [c \in Clients |-> [verdict |-> "none", opened |-> FALSE, deleted |-> {}]]
  /\ commands = 0 /\ kills = 0

Running(c) == command[c].todo # <<>>
Kind(c) == Head(command[c].todo)
Has(c) == command[c].rows \in tables

Start(c, name) ==
  /\ commands' = commands + 1
  /\ command' = [command EXCEPT ![c] = [NoCommand EXCEPT !.todo = Program[name], !.rows = Database(name)]]
  /\ UNCHANGED <<tables, file, told, kills>>

\* The command ends as it is, with the last step when that is done.
Ends(c, verdict, run) ==
  /\ told' = [told EXCEPT ![c] = [verdict |-> verdict, opened |-> run.opened, deleted |-> run.deleted]]
  /\ command' = [command EXCEPT ![c] = NoCommand]
End(c, verdict) ==
  /\ Ends(c, verdict, command[c])
  /\ UNCHANGED <<tables, file, commands, kills>>

GoOn(c, run) ==
  IF Len(run.todo) = 1
    THEN Ends(c, "ok", run)
    ELSE command' = [command EXCEPT ![c] = [run EXCEPT !.todo = Tail(@)]] /\ UNCHANGED told
Pass(c) == GoOn(c, command[c]) /\ UNCHANGED <<tables, file, commands, kills>>

\* typer.BadParameter for an argument, click.Abort for a declined confirmation.
Check(c) == Kind(c) = "check" /\ (Pass(c) \/ End(c, "refused"))
Ask(c) == Kind(c) = "ask" /\ (Pass(c) \/ End(c, "aborted"))

\* Rows are there or not; without the tables the query raises.
Look(c) ==
  /\ Kind(c) = "look"
  /\ (Has(c) /\ (Pass(c) \/ End(c, "refused"))) \/ (~ Has(c) /\ End(c, "failed"))
List(c) ==
  /\ Kind(c) = "list"
  /\ (Has(c) /\ (Pass(c) \/ End(c, "ok"))) \/ (~ Has(c) /\ (Pass(c) \/ End(c, "failed")))
Access(c) ==
  /\ Kind(c) \in {"read", "store", "seed"}
  /\ (Has(c) /\ Pass(c)) \/ (~ Has(c) /\ End(c, "failed"))

Try(c) == Kind(c) \in {"try", "purge"} /\ (Pass(c) \/ End(c, "failed"))

\* Candidates are looked up before anything is caught, if there is anything to look up.
Sync(c) ==
  /\ Kind(c) = "sync"
  /\ Pass(c) \/ ("main" \notin tables /\ End(c, "failed"))

Schema(c) ==
  /\ Kind(c) = "schema"
  /\ tables' = Databases
  /\ GoOn(c, command[c])
  /\ UNCHANGED <<file, commands, kills>>

\* _delete_sqlite_file, with its side files.
Delete(c) ==
  /\ Kind(c) \in Databases
  /\ tables' = tables \ {Kind(c)}
  /\ GoOn(c, [command[c] EXCEPT !.deleted = @ \cup {Kind(c)}])
  /\ UNCHANGED <<file, commands, kills>>

\* _open_output opens FILE with mode "w".
Open(c) ==
  /\ Kind(c) = "open"
  /\ file' = 0
  /\ GoOn(c, [command[c] EXCEPT !.opened = TRUE])
  /\ UNCHANGED <<tables, commands, kills>>
Part(c) ==
  /\ Kind(c) = "part"
  /\ file' = file + 1
  /\ GoOn(c, command[c])
  /\ UNCHANGED <<tables, commands, kills>>

Kill(c) ==
  /\ kills < MaxKills /\ kills' = kills + 1
  /\ Ends(c, "killed", command[c])
  /\ UNCHANGED <<tables, file, commands>>

Next ==
  \E c \in Clients :
    \/ /\ ~ Running(c) /\ commands < MaxCommands
       /\ \E name \in Commands : Start(c, name)
    \/ /\ Running(c)
       /\ \/ Check(c) \/ Ask(c) \/ Look(c) \/ List(c) \/ Access(c) \/ Try(c) \/ Sync(c)
          \/ Schema(c) \/ Delete(c) \/ Open(c) \/ Part(c) \/ Kill(c)

Spec == Init /\ [][Next]_vars

-----------------------------------------------------------------------------
\* Properties.

\* A command that says no leaves everything as it was: the FILE of an earlier command
\* when it is refused, declined or fails, and every database when it is refused or
\* declined, whatever tables other commands delete and make meanwhile.
NoMeansNothing ==
  \A c \in Clients :
    /\ told[c].verdict \in {"refused", "aborted", "failed"} => ~ told[c].opened
    /\ told[c].verdict \in {"refused", "aborted"} => told[c].deleted = {}
=============================================================================
