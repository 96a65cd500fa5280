SPECIFICATION FairSpec
CONSTANTS
  x = x
  y = y
  e1 = e1
  e2 = e2
  Off = Off
  Absent = Absent
  Names = {x, y}
  Base <- SameBase
  Entries = {e1, e2}
  Booted <- StartFiles
  Files <- SavedFiles
  Targets = {x}
  MaxJobs = 2
  MaxMarks = 1
CHECK_DEADLOCK FALSE
INVARIANT TypeOK
INVARIANT NoConnectionLost
INVARIANT ConnMatchesUnlessReadded
INVARIANT ConnectingHasDial
INVARIANT NamesAndEffectsFollow
INVARIANT ServersAreAsSaved
PROPERTY Settles
