------------------------------- MODULE Content -------------------------------
(***************************************************************************)
(* Reading the stored Markdown of a TDoc (tdoc_content_service.py), which    *)
(* every door of it shares: the site, its JSON, the MCP tool and the         *)
(* command line.  An answer is put together from four tables and a file of   *)
(* the cache, each read by itself, while an extraction (Extraction) that     *)
(* first writes the file and then the rows, a list sync and the eviction of  *)
(* the cache go on.                                                          *)
(*                                                                          *)
(* One TDoc, and one extraction at a time.  A version stands for the bytes   *)
(* of a ZIP and what is made of them; all versions have the same file names. *)
(***************************************************************************)
EXTENDS Integers, FiniteSets

CONSTANTS
  Paths,     \* the URLs the row of the TDoc may have
  Template,  \* the URL a ZIP may come from instead
  None,
  MaxVersion, MaxEvents  \* bounds: versions; extractions, syncs and evictions

Urls == Paths \cup {Template}
\* A cache file is named after the path an extraction was started with.
Files == {"id", "url"} \X Urls

VARIABLES
  tdoc,      \* the row: its url, or None, and its type
  metas,     \* url -> the extraction stored under it, or None
  documents, \* url -> the rows of its content: store, number, version
  covers,    \* url -> whether there is a cover page
  archives,  \* file -> the url and the version of its Markdown, or None
  extract,   \* the extraction under way
  torn,      \* history: urls whose file an extraction wrote without storing the rows since
  read,      \* the reader
  events

stored == <<metas, documents, covers>>
vars == <<tdoc, stored, archives, extract, torn, read, events>>

NoRows == [store |-> "CR", number |-> 0, version |-> 0]
NoExtract == [pc |-> "idle", file |-> <<"id", Template>>, url |-> Template, version |-> 0, store |-> "CR"]
Reader == [pc |-> "idle", source |-> "all", url |-> None, type |-> "CR", meta |-> None, rows |-> NoRows,
           main |-> None, complete |-> FALSE, undisturbed |-> TRUE, answer |-> "none"]

StoreOf(type) == IF type \in {"CR", "WID"} THEN type ELSE None

-----------------------------------------------------------------------------
\* What else happens, before the reading or during it, which it disturbs.
Event ==
  /\ read.pc # "done"
  /\ events < MaxEvents /\ events' = events + 1
  /\ read' = [read EXCEPT !.undisturbed = FALSE]

SyncRow(url, type) ==
  /\ Event
  /\ tdoc' = [url |-> url, type |-> type]
  /\ UNCHANGED <<stored, archives, extract, torn>>

Evict(file) ==
  /\ Event
  /\ archives[file] # None /\ archives' = [archives EXCEPT ![file] = None]
  /\ UNCHANGED <<tdoc, stored, extract, torn>>

\* An extraction writes the Markdown of the bytes it got, from the path or from the
\* template URL, to the file of the path ...
WriteArchive(route, path, url, version, store) ==
  /\ Event
  /\ extract.pc = "idle"
  /\ route = "url" => url = path
  /\ extract' = [pc |-> "bundle", file |-> <<route, path>>, url |-> url, version |-> version, store |-> store]
  /\ archives' = [archives EXCEPT ![<<route, path>>] = [url |-> url, version |-> version]]
  /\ torn' = torn \cup {url}
  /\ UNCHANGED <<tdoc, stored>>

\* ... and stores what it made of them under the URL of the bytes, one source skipped or
\* none; or it breaks off before.
StoreBundle(skipped) ==
  /\ extract.pc = "bundle"
  /\ LET e == extract
         n == (IF e.store = "CR" THEN 0 ELSE 1) + (IF skipped THEN 0 ELSE 1)
     IN /\ metas' = [metas EXCEPT ![e.url] = [format |-> 2, store |-> e.store, file |-> e.file, number |-> n,
                                              skipped |-> skipped, version |-> e.version]]
        /\ documents' = [documents EXCEPT ![e.url] = [store |-> e.store, number |-> n, version |-> e.version]]
        /\ covers' = [covers EXCEPT ![e.url] = @ \/ e.store = "CR"]
        /\ torn' = torn \ {e.url}
  /\ extract' = NoExtract
  /\ read' = [read EXCEPT !.undisturbed = FALSE]
  /\ UNCHANGED <<tdoc, archives, events>>

BreakOff ==
  /\ extract.pc = "bundle" /\ extract' = NoExtract
  /\ UNCHANGED <<tdoc, stored, archives, torn, read, events>>

-----------------------------------------------------------------------------
\* A reading.  It ends with content or with an error.
Answers(answer) == [read EXCEPT !.pc = "done", !.answer = answer]

\* get: an id or a URL becomes a URL and a type.  A URL that the row has left is found by
\* its extraction.
Resolve(url, source) ==
  /\ read.pc = "idle"
  /\ LET known == url = tdoc.url \/ metas[url] # None
         type == StoreOf(tdoc.type)
     IN read' = CASE url = None -> Answers("tdoc not found")
                  [] url # None /\ ~ known -> Answers("url not found")
                  [] url # None /\ known /\ type = None -> Answers("ineligible")
                  [] OTHER -> [Reader EXCEPT !.pc = "meta", !.source = source, !.url = url, !.type = type]
  /\ UNCHANGED <<tdoc, stored, archives, extract, torn, events>>

ReadMeta ==
  /\ read.pc = "meta"
  /\ LET meta == metas[read.url] IN
     read' = CASE meta = None -> Answers("extraction missing")
               [] meta # None /\ meta.format = 1 /\ read.type = "CR" -> [read EXCEPT !.pc = "legacy", !.meta = meta]
               [] OTHER -> [read EXCEPT !.pc = "rows", !.meta = meta]
  /\ UNCHANGED <<tdoc, stored, archives, extract, torn, events>>

\* list_documents gives the rows of the type's store.  A CR whose main document is not
\* asked for leaves its file alone.
ReadRows ==
  /\ read.pc = "rows"
  /\ LET rows == documents[read.url]
         of == IF rows.store = read.type THEN rows ELSE NoRows
     IN read' = CASE read.meta.number # of.number -> Answers("incomplete")
                  [] read.meta.number = of.number /\ read.type = "CR" ->
                       [read EXCEPT !.pc = IF read.source = "other" THEN "cover" ELSE "archive", !.rows = of]
                  [] OTHER -> [read EXCEPT !.pc = "select", !.rows = of,
                                           !.complete = read.meta.format = 2 /\ ~ read.meta.skipped /\ of.number > 0]
  /\ UNCHANGED <<tdoc, stored, archives, extract, torn, events>>

\* Mutant: the main document of a CR is looked for by its name alone.
MainOfByName(file, url) == file # None
\* The file has a main document of this URL.
MainOf(file, url) == file # None /\ file.url = url

ReadArchive ==
  /\ read.pc = "archive"
  /\ LET file == archives[read.meta.file] IN
     read' = IF MainOf(file, read.url) THEN [read EXCEPT !.pc = "cover", !.main = file] ELSE Answers("cache unavailable")
  /\ UNCHANGED <<tdoc, stored, archives, extract, torn, events>>

\* An extraction of an old release has its main document alone, and never is complete.
ReadLegacy ==
  /\ read.pc = "legacy"
  /\ LET file == archives[read.meta.file] IN
     read' = CASE file = None -> Answers("cache unavailable")
               [] file # None /\ file.url \notin {None, read.url} -> Answers("legacy cache invalid")
               [] OTHER -> [read EXCEPT !.pc = "select", !.main = file]
  /\ UNCHANGED <<tdoc, stored, archives, extract, torn, events>>

ReadCover ==
  /\ read.pc = "cover"
  /\ read' = [read EXCEPT !.pc = "select",
                          !.complete = covers[read.url] /\ read.meta.format = 2 /\ ~ read.meta.skipped]
  /\ UNCHANGED <<tdoc, stored, archives, extract, torn, events>>

\* One source of several, by its name: the main one, or the other.
Has(r, source) ==
  CASE source = "main" -> r.main # None \/ (r.type # "CR" /\ r.rows.number > 0)
    [] source = "other" -> r.rows.number > (IF r.type = "CR" THEN 0 ELSE 1)
    [] OTHER -> TRUE

Select ==
  /\ read.pc = "select"
  /\ read' = Answers(IF Has(read, read.source) THEN "content" ELSE "source not found")
  /\ UNCHANGED <<tdoc, stored, archives, extract, torn, events>>

-----------------------------------------------------------------------------
Init ==
  /\ \E url \in Paths \cup {None}, type \in {"CR", "WID", "other"} : tdoc = [url |-> url, type |-> type]
  /\ \E url \in Paths, file \in {None, [url |-> None, version |-> 0]} :
       /\ metas \in {[u \in Urls |-> None],
                     [u \in Urls |-> IF u # url THEN None ELSE [format |-> 1, store |-> "CR", file |-> <<"id", url>>,
                                                                number |-> 0, skipped |-> FALSE, version |-> 0]]}
       /\ archives = [f \in Files |-> IF f = <<"id", url>> THEN file ELSE None]
  /\ documents = [u \in Urls |-> NoRows] /\ covers = [u \in Urls |-> FALSE]
  /\ extract = NoExtract /\ torn = {} /\ read = Reader /\ events = 0

Next ==
  \/ \E url \in Paths \cup {None}, type \in {"CR", "WID", "other"} : SyncRow(url, type)
  \/ \E file \in Files : Evict(file)
  \/ \E path \in Paths, url \in Urls, version \in 1..MaxVersion, store \in {"CR", "WID"} :
        \/ WriteArchive("id", path, url, version, store) /\ url \in {path, Template}
        \/ WriteArchive("url", path, url, version, store)
  \/ \E skipped \in BOOLEAN : StoreBundle(skipped)
  \/ BreakOff
  \/ \E url \in Urls \cup {tdoc.url}, source \in {"all", "main", "other"} : Resolve(url, source)
  \/ ReadMeta \/ ReadRows \/ ReadArchive \/ ReadLegacy \/ ReadCover \/ Select

Spec == Init /\ [][Next]_vars

-----------------------------------------------------------------------------
(***************************************************************************)
(* An answer that says it is complete has every document its extraction     *)
(* stored, all of the URL that was asked for, although the file of a path    *)
(* may hold what came from the template URL.  They are of one version too,   *)
(* unless something was written while they were read, or an extraction got   *)
(* between its file and its rows, or was broken off there.                   *)
(***************************************************************************)
AnswerIsWhole ==
  read.answer = "content" /\ read.complete =>
    /\ read.rows.number = read.meta.number
    /\ read.type = "CR" /\ read.source # "other" => read.main # None
    /\ read.main # None => read.main.url = read.url
    /\ read.undisturbed /\ read.url \notin torn =>
         /\ read.rows.number > 0 => read.rows.version = read.meta.version
         /\ read.main # None => read.main.version = read.meta.version
=============================================================================
