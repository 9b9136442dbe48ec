------------------------------ MODULE CronNextRun ------------------------------
(***************************************************************************)
(* When a hunt schedule runs next, for the frequencies the schedule dialog *)
(* offers.  HuntScheduler has the runs themselves and takes the computed   *)
(* time as given.                                                          *)
(***************************************************************************)
EXTENDS CronExpressions

CONSTANTS
  None,
  Step,   \* minutes that pass at a time, one in the code
  Last    \* bound: the last minute of the run

VARIABLES
  now,
  sched,    \* the schedule: its expression, its nextRunAt, and (history) when that was computed
  refused   \* history: offered frequencies whose schedule could not be written

vars == <<now, sched, refused>>

------------------------------------------------------------------------------
Init == now = 0 /\ sched = None /\ refused = {}

Write(e) ==
  IF cronNextRun(e, now) = Invalid
  THEN refused' = refused \cup {e} /\ UNCHANGED sched
  ELSE sched' = [cron |-> e, next |-> cronNextRun(e, now), since |-> now] /\ UNCHANGED refused

\* createSchedule, with a frequency of the dialog
CreateSchedule(e) == sched = None /\ Write(e) /\ UNCHANGED now

\* updateSchedule with another frequency
UpdateSchedule(e) == sched # None /\ Write(e) /\ UNCHANGED now

\* a due run that has ended, or one that was triggered by hand
ExecuteScheduleRun == sched # None /\ Write(sched.cron) /\ UNCHANGED now

TimePasses ==
  /\ now + Step <= Last
  /\ now' = now + Step
  /\ UNCHANGED <<sched, refused>>

Next ==
  \/ \E e \in COMMON_CRONS: CreateSchedule(e) \/ UpdateSchedule(e)
  \/ ExecuteScheduleRun
  \/ TimePasses

Spec == Init /\ [][Next]_vars

------------------------------------------------------------------------------
\* Every frequency the dialog offers (playbooks/page.tsx:50) can be scheduled, and
\* its next run is the first time the expression names: the schema calls it a
\* "standard 5-field cron" (schema.prisma:770).
OfferedIsKept ==
  /\ refused = {}
  /\ sched # None => sched.next = NextFiring(sched.cron, sched.since)

==============================================================================
