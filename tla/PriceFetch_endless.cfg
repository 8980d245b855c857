\* A fetch without target pages, on an exchange that answers with the first
\* prices from the start of the window.
CONSTANTS
  Fetches = {f1}
  Limits = {2}
  FetchLimit = 2
  Targets = {Absent}
  Absent = Absent
  NoFetch = NoFetch
  Answers = {FALSE}
  Zones <- SteadyClock
  StartMinute = 3
  OtherBound = 0
  ClockBound = 3
SPECIFICATION FairSpec
PROPERTIES FetchEnds
CHECK_DEADLOCK FALSE
