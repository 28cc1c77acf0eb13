------------------------------ MODULE SpecDocs ------------------------------
(* Parsing one version of a specification (spec_doc_service.py,
   spec_doc_sql.py, spec_doc_zip_inventory_sql.py).  A parse decides whether
   there is anything to do, gets the ZIP, converts its members, and stores the
   result in up to six transactions, the last of which marks the version parsed.
   The command line parses in one call, which invalidates a forced version
   first; the server's batch prepares and persists apart and invalidates in the
   second half.  fetch only gets the ZIP.  Any run may die anywhere.

   A number stands for the bytes of a ZIP and what was made of them.          *)
EXTENDS Integers

CONSTANTS Workers, MaxBytes, MaxRuns, MaxCrashes

Absent == 0
Partial == -1      \* a ZIP file whose writing was cut off

VARIABLES
  server,     \* bytes at the version's ftp_url
  zip,        \* the cached ZIP: Absent, Partial or bytes
  source,     \* spec_doc_sources row: does it exist, is parsed_at set, chunk_count of which bytes
  inventory, toc, content,   \* the rows made of which bytes, Absent when there are none
  run,        \* worker -> its run
  disturbed,  \* two runs overlapped and no run alone finished since (history)
  runs, crashes

rows == <<source, inventory, toc, content>>
vars == <<server, zip, rows, run, disturbed, runs, crashes>>

Idle == [pc |-> "idle", kind |-> "cli", force |-> FALSE, bytes |-> Absent, invalidate |-> FALSE,
         record |-> FALSE, alone |-> TRUE]
Active(w) == run[w].pc # "idle"
Parsed == source.exists /\ source.parsed

Move(w, r) == run' = [run EXCEPT ![w] = r]
Goto(w, pc) == Move(w, [run[w] EXCEPT !.pc = pc])

\* A write of a run that shared its time with another one.
Mark(w) == disturbed' = (disturbed \/ ~run[w].alone)

----------------------------------------------------------------------------
(* Deciding and fetching.                                                    *)

Begin(w, kind, force) ==
  /\ ~Active(w) /\ runs < MaxRuns
  /\ runs' = runs + 1
  /\ LET others == \E v \in Workers \ {w} : Active(v)
     IN run' = [v \in Workers |->
          IF v = w THEN [Idle EXCEPT !.kind = kind, !.force = force, !.alone = ~others,
                                     !.pc = IF force /\ kind # "batch" THEN "invalidate first" ELSE "check"]
          ELSE IF Active(v) THEN [run[v] EXCEPT !.alone = FALSE] ELSE run[v]]
  /\ UNCHANGED <<server, zip, rows, disturbed, crashes>>

\* invalidate_parse_state; a form that forgets parsed_at.
InvalidatedInPart == [source EXCEPT !.chunks = Absent]
Invalidated == [source EXCEPT !.parsed = FALSE, !.chunks = Absent]

InvalidateFirst(w) ==
  /\ run[w].pc = "invalidate first"
  /\ source' = Invalidated /\ Mark(w)
  /\ Goto(w, "check")
  /\ UNCHANGED <<server, zip, inventory, toc, content, runs, crashes>>

\* prepare_parse: a parsed version is left alone unless forced; fetch leaves a
\* cached ZIP alone but for its missing row.
Check(w) ==
  /\ run[w].pc = "check"
  /\ LET r == run[w]
         download == r.force \/ zip = Absent
     IN IF r.kind = "fetch"
        THEN Goto(w, IF download THEN "open zip" ELSE "fetched")
        ELSE IF Parsed /\ ~r.force THEN Move(w, Idle)
        ELSE Move(w, [r EXCEPT !.pc = IF download THEN "open zip" ELSE "read zip",
                               !.invalidate = r.force /\ source.exists,
                               !.record = download \/ ~source.exists])
  /\ UNCHANGED <<server, zip, rows, disturbed, runs, crashes>>

\* _write_zip_cache truncates the file and writes it in place.
OpenZip(w) ==
  /\ run[w].pc = "open zip"
  /\ zip' = Partial
  /\ Move(w, [run[w] EXCEPT !.pc = "write zip", !.bytes = server])
  /\ UNCHANGED <<server, rows, disturbed, runs, crashes>>
WriteZip(w) ==
  /\ run[w].pc = "write zip"
  /\ zip' = run[w].bytes
  /\ Goto(w, IF run[w].kind = "fetch" THEN "fetched" ELSE "convert")
  /\ UNCHANGED <<server, rows, disturbed, runs, crashes>>

\* A ZIP that is cut off cannot be listed and ends the run.
ReadZip(w) ==
  /\ run[w].pc = "read zip"
  /\ IF zip \in {Absent, Partial} THEN Move(w, Idle)
     ELSE Move(w, [run[w] EXCEPT !.pc = "convert", !.bytes = zip])
  /\ UNCHANGED <<server, zip, rows, disturbed, runs, crashes>>

\* record_download keeps what is parsed.
Recorded == [source EXCEPT !.exists = TRUE]

\* The end of fetch; with a cached ZIP it writes only a missing row, for which
\* it reads the ZIP.
Fetched(w) ==
  /\ run[w].pc = "fetched"
  /\ source' = IF run[w].bytes # Absent \/ zip > 0 THEN Recorded ELSE source
  /\ Mark(w)
  /\ Move(w, Idle)
  /\ UNCHANGED <<server, zip, inventory, toc, content, runs, crashes>>

----------------------------------------------------------------------------
(* Storing.                                                                  *)

\* All members convert, or one fails and the inventory alone is stored.
Convert(w) ==
  /\ run[w].pc = "convert"
  /\ \/ Goto(w, IF run[w].invalidate THEN "invalidate" ELSE "inventory")
     \/ Goto(w, "inventory only")
  /\ UNCHANGED <<server, zip, rows, disturbed, runs, crashes>>

InventoryOnly(w) ==
  /\ run[w].pc = "inventory only"
  /\ inventory' = run[w].bytes /\ Mark(w)
  /\ Move(w, Idle)
  /\ UNCHANGED <<server, zip, source, toc, content, runs, crashes>>

\* persist_prepared_parse, one transaction after the other.
PersistInvalidate(w) ==
  /\ run[w].pc = "invalidate"
  /\ source' = Invalidated /\ Mark(w)
  /\ Goto(w, "inventory")
  /\ UNCHANGED <<server, zip, inventory, toc, content, runs, crashes>>

PersistInventory(w) ==
  /\ run[w].pc = "inventory"
  /\ inventory' = run[w].bytes /\ Mark(w)
  /\ Goto(w, IF run[w].record THEN "source" ELSE "toc")
  /\ UNCHANGED <<server, zip, source, toc, content, runs, crashes>>

PersistSource(w) ==
  /\ run[w].pc = "source"
  /\ source' = Recorded /\ Mark(w)
  /\ Goto(w, "toc")
  /\ UNCHANGED <<server, zip, inventory, toc, content, runs, crashes>>

PersistToc(w) ==
  /\ run[w].pc = "toc"
  /\ toc' = run[w].bytes /\ Mark(w)
  /\ Goto(w, "content")
  /\ UNCHANGED <<server, zip, source, inventory, content, runs, crashes>>

\* replace_version_content: chunks and presentations at once, and a source row
\* when there is none.
PersistContent(w) ==
  /\ run[w].pc = "content"
  /\ content' = run[w].bytes /\ source' = Recorded /\ Mark(w)
  /\ Goto(w, "parsed")
  /\ UNCHANGED <<server, zip, inventory, toc, runs, crashes>>

\* The Markdown files are written, then the version is marked.
PersistParsed(w) ==
  /\ run[w].pc = "parsed"
  /\ source' = [exists |-> TRUE, parsed |-> TRUE, chunks |-> run[w].bytes]
  /\ disturbed' = (~run[w].alone)
  /\ Move(w, Idle)
  /\ UNCHANGED <<server, zip, inventory, toc, content, runs, crashes>>

----------------------------------------------------------------------------
(* The surroundings.                                                         *)

\* The process dies, the download fails, the ZIP is too large, the disk is full.
BreakOff(w) ==
  /\ Active(w) /\ crashes < MaxCrashes
  /\ crashes' = crashes + 1
  /\ Move(w, Idle)
  /\ UNCHANGED <<server, zip, rows, disturbed, runs>>

Publish == /\ server < MaxBytes /\ server' = server + 1
           /\ UNCHANGED <<zip, rows, run, disturbed, runs, crashes>>

\* Somebody clears the cache directory.
DropZip == /\ zip # Absent /\ zip' = Absent
           /\ UNCHANGED <<server, rows, run, disturbed, runs, crashes>>

Init ==
  /\ server = 1 /\ zip = Absent
  /\ source = [exists |-> FALSE, parsed |-> FALSE, chunks |-> Absent]
  /\ inventory = Absent /\ toc = Absent /\ content = Absent
  /\ run = [w \in Workers |-> Idle]
  /\ disturbed = FALSE /\ runs = 0 /\ crashes = 0

Step(w) ==
  \/ \E kind \in {"cli", "batch", "fetch"}, force \in BOOLEAN : Begin(w, kind, force)
  \/ InvalidateFirst(w) \/ Check(w) \/ OpenZip(w) \/ WriteZip(w) \/ ReadZip(w) \/ Fetched(w)
  \/ Convert(w) \/ InventoryOnly(w)
  \/ PersistInvalidate(w) \/ PersistInventory(w) \/ PersistSource(w) \/ PersistToc(w)
  \/ PersistContent(w) \/ PersistParsed(w) \/ BreakOff(w)
Next == Publish \/ DropZip \/ \E w \in Workers : Step(w)
Spec == Init /\ [][Next]_vars

----------------------------------------------------------------------------
(* Properties.                                                               *)

\* A version that is marked parsed has a table of contents, chunks and a chunk
\* count of the same bytes, wherever earlier runs broke off, forced or not, as
\* long as runs on the version did not overlap.  The inventory may be newer: a
\* conversion that failed stores it.
ParsedIsWhole == Parsed /\ ~disturbed => toc = content /\ content = source.chunks /\ content # Absent
=============================================================================
