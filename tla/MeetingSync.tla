----------------------------- MODULE MeetingSync -----------------------------
(* Syncs of the meeting calendar and of the meetings' TDoc lists
   (meetings_service.py, tdoc_sync_coordinator.py, tdoc_service.py,
   tdoc_file_service.py, cli_auto_sync.py and their repositories).  A sync looks
   at the stamp of its last success, fetches, stores in one transaction per
   step, and stamps; a sweep does this for every meeting with stored TDocs; a
   read command first runs the syncs its selectors imply and shrugs off their
   failures.  Any fetch or write may raise and any process may die; a folder of
   files that does not answer raises nothing.

   One TSG.  A number stands for what the portal or a folder shows: 0 is
   nothing, and each publication adds to it.                                  *)
EXTENDS Integers, FiniteSets

CONSTANTS Workers, Meetings, Calendars, Folders, MaxVersion, MaxRuns, MaxEvents, None

VARIABLES
  calendar,  \* the meetings in the TSG's calendar, with and without a folder
  portal,    \* meeting -> its TDoc list
  folder,    \* meeting -> the subfolders with its auxiliary files (TDOC_FILE_SUBDIRS)
  meetings,  \* meeting -> its row: has it an ftp_url, or None
  tsgStamp,  \* meeting_last_sync of the TSG
  stamp,     \* meeting -> tdoc_list_last_sync, "never" or against the interval "new" or "old"
  closed,    \* meetings that ended longer ago than the closed window
  tdocs,     \* meeting -> the list its rows were made of
  files,     \* meeting -> the subfolders its auxiliary rows were made of
  run,       \* worker -> its run
  seen,      \* meeting -> what upstream showed of it when its last stamping run began,
             \* of that which the run could read (history)
  disturbed, \* meetings two runs were at at once (history)
  runs, events

upstream == <<calendar, portal, folder>>
rows == <<meetings, tsgStamp, stamp, tdocs, files>>
history == <<seen, disturbed>>
vars == <<upstream, closed, rows, run, history, runs, events>>

\* kind "tsg": meeting sync; "one": tdoc sync of a meeting; "sweep"; "auto".
Idle == [pc |-> "idle", kind |-> "one", force |-> FALSE, todo |-> {}, at |-> None, ftp |-> FALSE,
         fetched |-> None, asked |-> None, alone |-> TRUE]
Ended(r) == r.pc \in {"idle", "done", "raised", "read"}
Move(w, r) == run' = [run EXCEPT ![w] = r]
Set(w, pc) == Move(w, [run[w] EXCEPT !.pc = pc])

----------------------------------------------------------------------------
(* Starting.                                                                 *)

\* A TDoc id of a read names its TSG and the meeting that has it, if stored; a
\* meeting id names itself and the TSG of its row.  The candidates are collected
\* before the first sync runs.
Candidates == {[tsg |-> tsg, todo |-> m] : tsg \in BOOLEAN, m \in SUBSET Meetings}

\* list_distinct_meeting_ids.
Tracked == {m \in Meetings : tdocs[m] # 0}

Begin(w, kind, force) ==
  /\ run[w].pc = "idle" /\ runs < MaxRuns
  /\ runs' = runs + 1
  /\ kind = "auto" => ~force
  /\ \E c \in Candidates :
       /\ CASE kind = "tsg" -> c = [tsg |-> TRUE, todo |-> {}]
            [] kind = "one" -> ~c.tsg /\ Cardinality(c.todo) = 1
            [] kind = "sweep" -> c = [tsg |-> FALSE, todo |-> Tracked]
            [] OTHER -> TRUE
       /\ Move(w, [Idle EXCEPT !.pc = IF c.tsg THEN "calendar" ELSE "next", !.kind = kind,
                               !.force = force, !.todo = c.todo])
  /\ UNCHANGED <<upstream, closed, rows, history, events>>

----------------------------------------------------------------------------
(* MeetingService.sync.                                                      *)

CalendarGate(r) == ~r.force /\ tsgStamp = "new"

FetchCalendar(w) ==
  /\ run[w].pc = "calendar"
  /\ IF CalendarGate(run[w]) THEN Set(w, "next")
     ELSE Move(w, [run[w] EXCEPT !.pc = "store meetings", !.fetched = calendar])
  /\ UNCHANGED <<upstream, closed, rows, history, runs, events>>

\* upsert_many overwrites the columns of the calendar and leaves the stamp of
\* the TDoc list; meetings that left the calendar stay.
StoreMeetings(w) ==
  /\ run[w].pc = "store meetings"
  /\ meetings' = [m \in Meetings |-> IF m \in DOMAIN run[w].fetched
                                     THEN [ftp |-> run[w].fetched[m]] ELSE meetings[m]]
  /\ Set(w, "stamp tsg")
  /\ UNCHANGED <<upstream, closed, tsgStamp, stamp, tdocs, files, history, runs, events>>

StampTsg(w) ==
  /\ run[w].pc = "stamp tsg"
  /\ tsgStamp' = "new"
  /\ Move(w, [run[w] EXCEPT !.pc = "next", !.fetched = None])
  /\ UNCHANGED <<upstream, closed, meetings, stamp, tdocs, files, history, runs, events>>

----------------------------------------------------------------------------
(* TDocSyncCoordinator.                                                      *)

\* The two gates of a meeting, which read its row once.
ListGate(r, m) == ~r.force /\ stamp[m] # "never" /\ (m \in closed \/ stamp[m] = "new")

Away(r) == [r EXCEPT !.pc = "next", !.at = None, !.ftp = FALSE, !.fetched = None,
                     !.asked = None, !.alone = TRUE]
Nothing == [f \in Folders |-> 0]
\* What upstream shows of a meeting.
Shown(m) == [list |-> portal[m], folder |-> IF meetings[m].ftp THEN folder[m] ELSE Nothing]
Others(w, m) == \E v \in Workers \ {w} : run[v].at = m

\* The next meeting of the run; one without a row is a failure of its own.
TakeMeeting(w) ==
  /\ run[w].pc = "next" /\ run[w].todo # {}
  /\ \E m \in run[w].todo :
       LET r == [run[w] EXCEPT !.todo = @ \ {m}]
       IN /\ \A n \in run[w].todo : m <= n
          /\ IF meetings[m] = None
             THEN /\ Move(w, [r EXCEPT !.pc = IF r.kind = "one" THEN "raised" ELSE "next"])
                  /\ UNCHANGED disturbed
             ELSE IF ListGate(r, m) THEN Move(w, r) /\ UNCHANGED disturbed
             ELSE /\ run' = [v \in Workers |->
                       IF v = w THEN [r EXCEPT !.pc = "fetch list", !.at = m, !.ftp = meetings[m].ftp,
                                               !.asked = Shown(m), !.alone = ~Others(w, m)]
                       ELSE [run[v] EXCEPT !.alone = @ /\ run[v].at # m]]
                  /\ disturbed' = IF Others(w, m) THEN disturbed \cup {m} ELSE disturbed
  /\ UNCHANGED <<upstream, closed, rows, seen, runs, events>>

FetchList(w) ==
  /\ run[w].pc = "fetch list"
  /\ Move(w, [run[w] EXCEPT !.pc = "store list", !.fetched = portal[run[w].at]])
  /\ UNCHANGED <<upstream, closed, rows, history, runs, events>>

\* upsert_many does nothing for an empty list.
StoreList(w) ==
  /\ run[w].pc = "store list"
  /\ LET m == run[w].at
     IN tdocs' = [tdocs EXCEPT ![m] = IF run[w].fetched = 0 THEN @ ELSE run[w].fetched]
  /\ Set(w, IF run[w].ftp THEN "scan" ELSE "stamp")
  /\ UNCHANGED <<upstream, closed, meetings, tsgStamp, stamp, files, history, runs, events>>

\* sync_from_meeting_ftp: without stored TDocs nothing is fetched; a subfolder
\* whose request fails, with 404 or otherwise, is passed over, and what the others
\* list is the result.
Unread(w) == IF tdocs[run[w].at] = 0 THEN {Folders} ELSE SUBSET Folders
Scan(w) ==
  /\ run[w].pc = "scan"
  /\ \E unread \in Unread(w) :
       LET found == [f \in Folders |-> IF f \in unread THEN 0 ELSE folder[run[w].at][f]]
       IN Move(w, [run[w] EXCEPT
            !.pc = IF found = Nothing THEN "stamp" ELSE "store files", !.fetched = found,
            !.asked.folder = [f \in Folders |-> IF f \in unread THEN 0 ELSE @[f]]])
  /\ UNCHANGED <<upstream, closed, rows, history, runs, events>>

\* upsert_many of what was found; rows of files that were not found stay.
StoreFiles(w) ==
  /\ run[w].pc = "store files"
  /\ LET found == run[w].fetched
     IN files' = [files EXCEPT ![run[w].at] =
                    [f \in Folders |-> IF found[f] = 0 THEN @[f] ELSE found[f]]]
  /\ Set(w, "stamp")
  /\ UNCHANGED <<upstream, closed, meetings, tsgStamp, stamp, tdocs, history, runs, events>>

\* Mutant: the stamp is set as soon as the list is stored.
StampAfterList(w) == run[w].pc \in {"scan", "stamp"}
\* update_tdoc_list_last_sync comes when everything before it went well.
Complete(w) == run[w].pc = "stamp"
Stamp(w) ==
  /\ Complete(w)
  /\ LET m == run[w].at
     IN /\ stamp' = [stamp EXCEPT ![m] = "new"]
        /\ seen' = [seen EXCEPT ![m] = run[w].asked]
        /\ disturbed' = IF run[w].alone THEN disturbed \ {m} ELSE disturbed
  /\ Move(w, Away(run[w]))
  /\ UNCHANGED <<upstream, closed, meetings, tsgStamp, tdocs, files, runs, events>>

\* A sync is over; a read command then reads what is stored.
Finish(w) ==
  /\ run[w].pc = "next" /\ run[w].todo = {}
  /\ Move(w, [run[w] EXCEPT !.pc = IF run[w].kind = "auto" THEN "read" ELSE "done"])
  /\ UNCHANGED <<upstream, closed, rows, history, runs, events>>

----------------------------------------------------------------------------
(* Failures.                                                                 *)

\* A fetch or a transaction raises.  sync_tsg_internal and sync_meeting_internal
\* swallow it and the read goes on; everybody else passes it up, also a sweep,
\* which keeps only a missing row to itself.
OnError(r) == [Away(r) EXCEPT !.pc = IF r.kind = "auto" THEN "next" ELSE "raised"]
Raise(w) ==
  /\ ~Ended(run[w]) /\ run[w].pc # "next"
  /\ Move(w, OnError(run[w]))
  /\ UNCHANGED <<upstream, closed, rows, history, runs, events>>

\* The caller takes the outcome, or the process dies.
Leave(w) ==
  /\ run[w].pc # "idle"
  /\ Move(w, Idle)
  /\ UNCHANGED <<upstream, closed, rows, history, runs, events>>

----------------------------------------------------------------------------
(* Time and the portal.                                                      *)

Aged(s) == IF s = "new" THEN "old" ELSE s
\* An interval passes; some meetings may now be closed.
Tick ==
  /\ events < MaxEvents /\ events' = events + 1
  /\ tsgStamp' = Aged(tsgStamp) /\ stamp' = [m \in Meetings |-> Aged(stamp[m])]
  /\ \E over \in SUBSET (Meetings \ closed) : closed' = closed \cup over
  /\ UNCHANGED <<upstream, meetings, tdocs, files, run, history, runs>>

Publish(m) ==
  /\ events < MaxEvents /\ events' = events + 1
  /\ \/ portal[m] < MaxVersion /\ portal' = [portal EXCEPT ![m] = @ + 1] /\ UNCHANGED folder
     \/ /\ \E f \in Folders : /\ folder[m][f] < MaxVersion
                              /\ folder' = [folder EXCEPT ![m][f] = @ + 1]
        /\ UNCHANGED portal
  /\ UNCHANGED <<calendar, closed, rows, run, history, runs>>

Init ==
  /\ calendar \in Calendars
  /\ portal = [m \in Meetings |-> m % 2] /\ folder = [m \in Meetings |-> [f \in Folders |-> 1]]
  /\ meetings = [m \in Meetings |-> None] /\ tsgStamp = "never"
  /\ stamp = [m \in Meetings |-> "never"] /\ closed = {}
  /\ tdocs = [m \in Meetings |-> 0] /\ files = [m \in Meetings |-> Nothing]
  /\ run = [w \in Workers |-> Idle]
  /\ seen = [m \in Meetings |-> None] /\ disturbed = {} /\ runs = 0 /\ events = 0

Step(w) ==
  \/ \E kind \in {"tsg", "one", "sweep", "auto"}, force \in BOOLEAN : Begin(w, kind, force)
  \/ FetchCalendar(w) \/ StoreMeetings(w) \/ StampTsg(w)
  \/ TakeMeeting(w) \/ FetchList(w) \/ StoreList(w) \/ Scan(w) \/ StoreFiles(w) \/ Stamp(w)
  \/ Finish(w) \/ Raise(w) \/ Leave(w)
Next == Tick \/ (\E m \in Meetings : Publish(m)) \/ \E w \in Workers : Step(w)
Spec == Init /\ [][Next]_vars

----------------------------------------------------------------------------
(* Properties.                                                               *)

\* A stamp, which makes the next syncs skip a meeting, stands for everything the
\* stamping run could read: the stored list, and the files of every subfolder that
\* answered it, are at least as new as what upstream showed when the run began,
\* wherever it or other runs raised or died, unless runs overlapped on the meeting.
\* (A subfolder that did not answer is stamped all the same.)
StampIsEarned ==
  \A m \in Meetings \ disturbed :
    stamp[m] # "never" => /\ tdocs[m] >= seen[m].list
                          /\ \A f \in Folders : files[m][f] >= seen[m].folder[f]
=============================================================================
