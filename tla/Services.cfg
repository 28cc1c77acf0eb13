SPECIFICATION Spec
CONSTANTS
  Workers = {w1, w2}
  None = None
  Paths = {p1}
  Template = template
  Types = {"CR", "WID", "blank"}
  Meetings = {1, 2}
  Calendars <- MCCalendars
  Folders = {f1, f2}
  Specs = {s1, s2}
  Threads = 1
  MaxVersion = 2
  MaxBytes = 2
  MaxPage = 2
  MaxRuns = 2
  MaxDocRuns = 3
  MaxSyncs = 2
  MaxCrashes = 2
  MaxEvents = 1
SYMMETRY Symmetry
INVARIANTS
  ContentIsOneZip
  ParsedIsWhole
  StampIsEarned
  NobodyStarves
PROPERTIES
  LinksKept
CHECK_DEADLOCK FALSE
