------------------------------ MODULE Services -------------------------------
(* The services that fetch and store, side by side.  A behaviour is about one of
   them (focus); variables of the same name play the same part, and those of the
   others are off.                                                             *)
EXTENDS Integers, FiniteSets

CONSTANTS
  Workers, None,              \* threads or processes that run a service; no value
  Paths, Template, Types,     \* extraction: the URLs and the types of a TDoc
  Meetings, Calendars,        \* meetings: their ids, what the calendar may list,
  Folders,                    \* and the subfolders with their files
  Specs, Threads,             \* specifications: their numbers, and the pool of a sweep
  MaxVersion, MaxBytes, MaxPage,                             \* bounds of what is published,
  MaxRuns, MaxDocRuns, MaxSyncs, MaxCrashes, MaxEvents       \* of runs, deaths and events

ASSUME NoneIsNoUrl == None \notin Paths \cup {Template}
ASSUME MeetingsNat == Meetings \subseteq Nat /\ None \notin Nat
ASSUME CalendarsListMeetings ==
  \A c \in Calendars : DOMAIN c \subseteq Meetings /\ \A m \in DOMAIN c : c[m] \in BOOLEAN

VARIABLES focus,
          run, runs, events, disturbed, server, zips, inventory, crashes, seen, stamp,
          tdoc, archives, cover, rows, zip, source, toc, content,
          calendar, portal, folder, meetings, tsgStamp, closed, tdocs, files,
          page, header, versions, pdf, job, waiting, busy, syncs

E == INSTANCE Extraction
D == INSTANCE SpecDocs WITH MaxRuns <- MaxDocRuns
M == INSTANCE MeetingSync
S == INSTANCE SpecSync

onlyE == <<tdoc, zips, archives, cover, rows>>
onlyD == <<zip, source, toc, content, crashes>>
onlyM == <<calendar, portal, folder, meetings, tsgStamp, closed, tdocs, files>>
onlyS == <<page, header, versions, pdf, job, waiting, busy, syncs>>
inED == <<server, inventory>>
inMS == <<seen, stamp>>
vars == <<focus, run, runs, events, disturbed, inED, inMS, onlyE, onlyD, onlyM, onlyS>>

OffE == /\ tdoc = "off" /\ zips = "off" /\ archives = "off" /\ cover = "off" /\ rows = "off"
OffD == /\ zip = "off" /\ source = "off" /\ toc = "off" /\ content = "off" /\ crashes = "off"
OffM == /\ calendar = "off" /\ portal = "off" /\ folder = "off" /\ meetings = "off"
        /\ tsgStamp = "off" /\ closed = "off" /\ tdocs = "off" /\ files = "off"
OffS == /\ page = "off" /\ header = "off" /\ versions = "off" /\ pdf = "off" /\ job = "off"
        /\ waiting = "off" /\ busy = "off" /\ syncs = "off"
OffED == /\ server = "off" /\ inventory = "off"
OffMS == /\ seen = "off" /\ stamp = "off"

Init ==
  \/ /\ focus = "extraction" /\ E!Init
     /\ OffMS /\ OffD /\ OffM /\ OffS
  \/ /\ focus = "spec docs" /\ D!Init
     /\ events = "off" /\ OffMS /\ OffE /\ OffM /\ OffS
  \/ /\ focus = "meetings" /\ M!Init
     /\ OffED /\ OffE /\ OffD /\ OffS
  \/ /\ focus = "specs" /\ S!Init
     /\ run = "off" /\ runs = "off" /\ disturbed = "off" /\ OffED /\ OffE /\ OffD /\ OffM

Next ==
  \/ focus = "extraction" /\ E!Next /\ UNCHANGED <<focus, inMS, onlyD, onlyM, onlyS>>
  \/ focus = "spec docs" /\ D!Next /\ UNCHANGED <<focus, events, inMS, onlyE, onlyM, onlyS>>
  \/ focus = "meetings" /\ M!Next /\ UNCHANGED <<focus, inED, onlyE, onlyD, onlyS>>
  \/ /\ focus = "specs" /\ S!Next
     /\ UNCHANGED <<focus, run, runs, disturbed, inED, onlyE, onlyD, onlyM>>
Spec == Init /\ [][Next]_vars

----------------------------------------------------------------------------
(* Properties.                                                               *)

\* What is stored of a TDoc under a URL is of one ZIP, published there.
ContentIsOneZip == focus = "extraction" => E!ContentIsOneZip
\* A version marked parsed has all its parts, of the same bytes.
ParsedIsWhole == focus = "spec docs" => D!ParsedIsWhole
\* A meeting, or a specification, is stamped only for a sync that stored all it could read.
StampIsEarned == /\ focus = "meetings" => M!StampIsEarned
                 /\ focus = "specs" => S!SpecStampIsEarned
\* A sweep never waits for a thread that waits for the sweep.
NobodyStarves == focus = "specs" => S!NobodyStarves
\* The link to a version's PDF, once stored, is not lost to a sync that found none.
LinksKept == [][focus = "specs" => ~S!LinkLost]_vars
=============================================================================
