----------------------------- MODULE Extraction -----------------------------
(* Extraction of one TDoc (tdoc_cr_service.py, tdoc_family_service.py and the
   repositories and readers behind them).  A run looks up what is stored, gets
   the ZIP, converts it, caches the Markdown archive, stores the inventory of
   the ZIP and, in one more transaction, the bundle: metadata, cover page and
   documents.  It is started with a TDoc id (route "id") or with a URL (route
   "url"); runs of several threads or processes may overlap, any of them may
   die, and a list sync may move or retype the TDoc meanwhile.

   The bytes of a ZIP, and everything made of them, are [of, version]: where
   they were published and in which version.  The URL that goes with them in a
   cache entry, a run or a row is kept apart from that.  Parses that store
   nothing (unknown TDocs, local files) are left out.                         *)
EXTENDS Integers, FiniteSets

CONSTANTS Workers, Paths, Template, Types, MaxVersion, MaxRuns, MaxEvents, None

Urls == Paths \cup {Template}

VARIABLES
  tdoc,      \* the row of the TDoc: url and type
  server,    \* url -> version of the published ZIP, 0 when there is none
  zips,      \* cache key -> the url and the bytes of the cached ZIP, or None
  archives,  \* cache key -> the url and the bytes of the Markdown archive, or None
  inventory, \* url -> the bytes whose files are listed, or None
  cover,     \* url -> whether it has a cover page row
  rows,      \* url -> extraction metadata and document rows, or None
  run,       \* worker -> its extraction
  disturbed, \* url -> writes were left off or mixed with those of another run, and
             \* no run stored it in one go since (history)
  runs, events

store == <<inventory, cover, rows>>
vars == <<tdoc, server, zips, archives, store, run, disturbed, runs, events>>

\* derive_cache_file hashes the path it is given: the row's relative path and
\* the full URL of the same file are two keys.
Keys == ({"id"} \X Paths) \cup ({"url"} \X Urls)

Idle == [pc |-> "idle", route |-> "id", force |-> FALSE, path |-> None, type |-> "CR",
         url |-> None, zip |-> None, store |-> None, skipped |-> FALSE, sole |-> FALSE]
KeyOf(r) == <<r.route, r.path>>

\* store_for_type: ineligible and blank types have none.
StoreOf(type) == IF type \in {"CR", "WID"} THEN type ELSE None

----------------------------------------------------------------------------
(* Completeness.                                                             *)

\* The rows of one content store at a URL: a bundle replaces those of all.
Documents(u, s) == IF rows[u] # None /\ rows[u].store = s THEN rows[u].documents ELSE 0
Whole(u) == rows[u] # None /\ rows[u].format = 2 /\ ~rows[u].skipped

\* is_complete_cr_extraction, is_complete_family_extraction.
CompleteFor(u, s) ==
  /\ Whole(u) /\ rows[u].count = Documents(u, s)
  /\ IF s = "CR" THEN cover[u] ELSE Documents(u, s) > 0

\* _cached_cr_parts and cached_extract; a CR also needs its archive file.
Cached(u, s) == CompleteFor(u, s) /\ (s = "CR" => archives[rows[u].key] # None)

\* A URL of a TDoc whose type is not known tries the families first.
CachedFor(r) == IF StoreOf(r.type) # None THEN Cached(r.path, StoreOf(r.type))
                ELSE Cached(r.path, "WID") \/ Cached(r.path, "CR")

----------------------------------------------------------------------------
(* The surroundings.                                                         *)

Event == events < MaxEvents /\ events' = events + 1 /\ UNCHANGED <<store, run, disturbed, runs>>

\* A list sync overwrites the path and the type of the row.
SyncRow ==
  /\ Event
  /\ \E u \in Paths, type \in Types : tdoc' = [url |-> u, type |-> type]
  /\ UNCHANGED <<server, zips, archives>>

Publish(u) ==
  /\ Event
  /\ \E v \in 0..MaxVersion \ {server[u]} : server' = [server EXCEPT ![u] = v]
  /\ UNCHANGED <<tdoc, zips, archives>>

\* The cache evicts or purges a file.
Evict(k) ==
  /\ Event
  /\ \/ zips[k] # None /\ zips' = [zips EXCEPT ![k] = None] /\ UNCHANGED archives
     \/ archives[k] # None /\ archives' = [archives EXCEPT ![k] = None] /\ UNCHANGED zips
  /\ UNCHANGED <<tdoc, server>>

----------------------------------------------------------------------------
(* A run.                                                                    *)

Move(w, r) == run' = [run EXCEPT ![w] = r]
End(w) == Move(w, Idle)

\* A step of w, which goes on as r, that writes under u: it is in the way of every
\* other run that is writing there.
Write(w, u, r) ==
  run' = [v \in Workers |-> IF v = w THEN r ELSE [run[v] EXCEPT !.sole = @ /\ run[v].url # u]]
Mark(u, torn) == disturbed' = [disturbed EXCEPT ![u] = torn]

\* _load_tdoc, prepare_from_url: an id needs an eligible type and a path; a URL
\* of a TDoc of another type is skipped, one of a blank type is sniffed.
Begin(w, route, force) ==
  /\ run[w].pc = "idle" /\ runs < MaxRuns
  /\ runs' = runs + 1
  /\ tdoc.type \in IF route = "id" THEN {"CR", "WID"} ELSE {"CR", "WID", "blank"}
  /\ \E u \in IF route = "id" THEN {tdoc.url} ELSE Urls :
       Move(w, [Idle EXCEPT !.pc = IF force THEN "fetch" ELSE "lookup", !.route = route,
                            !.force = force, !.path = u, !.type = tdoc.type])
  /\ UNCHANGED <<tdoc, server, zips, archives, store, disturbed, events>>

Lookup(w) ==
  /\ run[w].pc = "lookup"
  /\ IF CachedFor(run[w]) THEN End(w) ELSE Move(w, [run[w] EXCEPT !.pc = "fetch"])
  /\ UNCHANGED <<tdoc, server, zips, archives, store, disturbed, runs, events>>

\* Where the ZIP of a run may come from, in this order; the template URL exists
\* for the ids of two groups.
Candidates(r) == IF r.route = "id" THEN {r.path, Template} ELSE {r.path}
ZipHit(r) == /\ zips[KeyOf(r)] # None /\ zips[KeyOf(r)].url \in Candidates(r)
             /\ ~(r.route = "url" /\ r.force)

Fetched(r, zip) ==
  [r EXCEPT !.pc = IF r.route = "id" /\ r.type = "CR" /\ ~r.force /\ zip.url = r.path
                   THEN "recheck" ELSE "convert",
            !.url = zip.url, !.zip = zip.zip]

\* download_tdoc_zip, _fetch_direct_zip: a verified ZIP of the cache...
FetchCached(w) ==
  /\ run[w].pc = "fetch" /\ ZipHit(run[w])
  /\ Move(w, Fetched(run[w], zips[KeyOf(run[w])]))
  /\ UNCHANGED <<tdoc, server, zips, archives, store, disturbed, runs, events>>

\* ... or the first candidate that answers, which is cached with its url.
Download(w) ==
  /\ run[w].pc = "fetch" /\ ~ZipHit(run[w])
  /\ \E u \in Candidates(run[w]) :
       LET zip == [url |-> u, zip |-> [of |-> u, version |-> server[u]]]
       IN /\ server[u] # 0
          /\ zips' = [zips EXCEPT ![KeyOf(run[w])] = zip]
          /\ Move(w, Fetched(run[w], zip))
  /\ UNCHANGED <<tdoc, server, archives, store, disturbed, runs, events>>

\* After the download a CR looks once more: another run may have stored it.
Recheck(w) ==
  /\ run[w].pc = "recheck"
  /\ IF Cached(run[w].path, "CR") THEN End(w) ELSE Move(w, [run[w] EXCEPT !.pc = "convert"])
  /\ UNCHANGED <<tdoc, server, zips, archives, store, disturbed, runs, events>>

\* The URL that the rows of a run are stored under: the one its ZIP came with.
StoredUrlPrimary(r) == r.path
StoredUrl(r) == r.url

\* A ZIP whose files were listed stores the list first; that of a TDoc without a
\* type is not listed.
FirstWrite(r) == IF StoreOf(r.type) = None THEN "bundle" ELSE "inventory"

\* prepare_extract, prepare_conversion, _prepare_from_3gpp_url: the content tells
\* the store of a TDoc without a type; the annex of the ZIP may be skipped.
Convert(w) ==
  /\ run[w].pc = "convert"
  /\ \E s \in (IF StoreOf(run[w].type) # None THEN {StoreOf(run[w].type)} ELSE {"CR", "WID"}),
        skip \in BOOLEAN :
       /\ archives' = [archives EXCEPT ![KeyOf(run[w])] = [url |-> StoredUrl(run[w]),
                                                           zip |-> run[w].zip]]
       /\ Write(w, StoredUrl(run[w]),
                [run[w] EXCEPT !.pc = FirstWrite(run[w]), !.store = s, !.skipped = skip,
                               !.sole = TRUE])
  /\ Mark(StoredUrl(run[w]), TRUE)
  /\ UNCHANGED <<tdoc, server, zips, store, runs, events>>

WriteInventory(w, r) ==
  /\ inventory' = [inventory EXCEPT ![StoredUrl(run[w])] = run[w].zip]
  /\ Write(w, StoredUrl(run[w]), r)
  /\ Mark(StoredUrl(run[w]), TRUE)

\* A failed conversion leaves the inventory of the ZIP, if it can, and nothing else.
ConvertFails(w) ==
  /\ run[w].pc = "convert"
  /\ \/ StoreOf(run[w].type) # None /\ WriteInventory(w, Idle)
     \/ End(w) /\ UNCHANGED <<inventory, disturbed>>
  /\ UNCHANGED <<tdoc, server, zips, archives, cover, rows, runs, events>>

StoreInventory(w) ==
  /\ run[w].pc = "inventory"
  /\ WriteInventory(w, [run[w] EXCEPT !.pc = "bundle"])
  /\ UNCHANGED <<tdoc, server, zips, archives, cover, rows, runs, events>>

\* replace_cr_bundle and replace_family_bundle: one transaction replaces the
\* documents of every store; a family leaves the cover row of a former CR.
BundleOf(r) ==
  LET n == (IF r.skipped THEN 0 ELSE 1) + (IF r.store = "CR" THEN 0 ELSE 1)
  IN [format |-> 2, store |-> r.store, key |-> KeyOf(r), count |-> n, documents |-> n,
      skipped |-> r.skipped, zip |-> r.zip]

\* A run stores in one go when nobody wrote there since its first write, and what
\* it does not list was never listed.
InOneGo(r) == r.sole /\ (FirstWrite(r) = "bundle" => inventory[StoredUrl(r)] = None)
StoreBundle(w) ==
  /\ run[w].pc = "bundle"
  /\ LET r == run[w] IN
       /\ rows' = [rows EXCEPT ![StoredUrl(r)] = BundleOf(r)]
       /\ cover' = [cover EXCEPT ![StoredUrl(r)] = @ \/ r.store = "CR"]
       /\ Write(w, StoredUrl(r), Idle)
       /\ Mark(StoredUrl(r), ~InOneGo(r))
  /\ UNCHANGED <<tdoc, server, zips, archives, inventory, runs, events>>

\* The download or a transaction fails, the batch is cancelled, the process dies.
BreakOff(w) ==
  /\ run[w].pc # "idle"
  /\ End(w)
  /\ UNCHANGED <<tdoc, server, zips, archives, store, disturbed, runs, events>>

----------------------------------------------------------------------------
\* A TDoc that was parsed by an old release, or never.
Init ==
  /\ \E u \in Paths, type \in Types : tdoc = [url |-> u, type |-> type]
  /\ server = [u \in Urls |-> 1]
  /\ zips = [k \in Keys |-> None] /\ archives = [k \in Keys |-> None]
  /\ inventory = [u \in Urls |-> None] /\ cover = [u \in Urls |-> u = tdoc.url]
  /\ \E old \in {None, [format |-> 1, store |-> "CR", key |-> <<"id", tdoc.url>>, count |-> 0,
                        documents |-> 0, skipped |-> FALSE, zip |-> [of |-> tdoc.url, version |-> 0]]} :
       rows = [u \in Urls |-> IF u = tdoc.url THEN old ELSE None]
  /\ run = [w \in Workers |-> Idle]
  /\ disturbed = [u \in Urls |-> FALSE]
  /\ runs = 0 /\ events = 0

Step(w) ==
  \/ \E route \in {"id", "url"}, force \in BOOLEAN : Begin(w, route, force)
  \/ Lookup(w) \/ FetchCached(w) \/ Download(w) \/ Recheck(w) \/ Convert(w) \/ ConvertFails(w)
  \/ StoreInventory(w) \/ StoreBundle(w) \/ BreakOff(w)
Next == \/ SyncRow \/ (\E u \in Urls : Publish(u)) \/ (\E k \in Keys : Evict(k))
        \/ \E w \in Workers : Step(w)
Spec == Init /\ [][Next]_vars

----------------------------------------------------------------------------
(* Properties.                                                               *)

\* What is stored of a TDoc under a URL is of one ZIP, one that was published there.
\* The metadata and documents are of bytes of that URL whatever runs overlap and
\* wherever the ZIP came from: the row's path or the template URL, the network or a
\* cache entry of an older download.  The file list, and the Markdown archive that
\* the metadata names, are of the same bytes unless one run wrote between two
\* writes of another, or a run wrote some of its parts and not the rest, and no run
\* has stored the URL in one go since.  The archive's key is that of the run and
\* may hold another URL's Markdown by now, which its readers tell by the URL in it.
ContentIsOneZip ==
  \A u \in Urls :
    rows[u] # None =>
      /\ rows[u].zip.of = u
      /\ ~disturbed[u] =>
           /\ inventory[u] \in {rows[u].zip, None}
           /\ LET a == archives[rows[u].key]
              IN a # None /\ a.url = u => a.zip = rows[u].zip
=============================================================================
