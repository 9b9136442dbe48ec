\* Two schedules, either failing for ever.  No step looks at what the expression is.
SPECIFICATION FairSpec
CONSTANTS
  Schedules = {s1, s2}
  Ticks = {t1}
  Triggers = {}
  Runs = {r1}
  Crons = {Blank}
  Blank = Blank
  None = None
  MaxCrashes = 0
  MaxUpdates = 0
PROPERTY DueIsAttempted
