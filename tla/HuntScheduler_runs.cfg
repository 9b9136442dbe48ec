\* One schedule: ticks that could overlap and a restart; or a tick, a manual
\* trigger and a change of the cron expression, to a blank one too.
SPECIFICATION Spec
CONSTANTS
  Schedules = {s1}
  Ticks = {t1, t2}
  Triggers = {m1}
  Runs = {r1, r2}
  Crons = {c1, c2, Blank}
  Blank = Blank
  None = None
  MaxCrashes = 1
  MaxUpdates = 1
SYMMETRY Symmetry
CONSTRAINT OccurrencesOrChanges
INVARIANTS RunsOwned MissionsAccounted OccurrenceRunOnce NextRunFollowsCron
