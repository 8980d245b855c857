\* One fetch from any minute in either direction, pages of one to three, among a
\* page of another command, under a clock that stands still, is put back or forward.
CONSTANTS
  Fetches = {f1}
  Limits = {1, 2, Absent}
  FetchLimit = 3
  Targets = {2, Absent}
  Absent = Absent
  NoFetch = NoFetch
  Answers = {TRUE, FALSE}
  Zones <- AnyClock
  StartMinute = 3
  OtherBound = 1
  ClockBound = 4
SPECIFICATION FairSpec
INVARIANTS TypeOK NoHoles TotalsAddUp
PROPERTIES EndsCaughtUp WindowedFetchEnds
CHECK_DEADLOCK FALSE
