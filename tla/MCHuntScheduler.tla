--------------------------- MODULE MCHuntScheduler ---------------------------
(* HuntScheduler for TLC: interchangeable ticks, triggers and runs.        *)
EXTENDS HuntScheduler, TLC

Symmetry ==
  Permutations(Ticks) \cup Permutations(Triggers) \cup Permutations(Runs) \cup Permutations(Schedules)
    \cup Permutations(Crons \ {Blank})

\* bound: ticks, runs and restarts over an unchanged schedule ...
Occurrences == updates = 0 /\ \A m \in Triggers: actor[m] = Idle

\* ... or one run that a tick or a trigger executes while the schedule changes
Changes ==
  /\ crashes = 0 /\ Cardinality({r \in Runs: run[r].status # "unused"}) <= 1
  /\ Cardinality({t \in Ticks: actor[t].at = "idle"}) >= Cardinality(Ticks) - 1

OccurrencesOrChanges == Occurrences \/ Changes
=============================================================================
